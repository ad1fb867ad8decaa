------------------------- MODULE RtBandwidthProofs -------------------------
(***************************************************************************)
(* For any number of CPUs and any limits: runtime that is lent, taken back *)
(* and returned is conserved, no CPU that leaves is left wanting, and the  *)
(* throttling of a queue takes effect and is looked after by the timer.    *)
(***************************************************************************)
EXTENDS RtBandwidth, SetLemmas

-----------------------------------------------------------------------------
(* Counting units of runtime *)

Units(rqs, S) == UNION {{c} \X (1 .. rqs[c].runtime) : c \in S}

\* Only finitely many units are there to be counted.
LEMMA UnitsFinite ==
    ASSUME NEW S, IsFiniteSet(S), NEW rqs, \A c \in S : rqs[c].runtime \in Nat
    PROVE  IsFiniteSet(Units(rqs, S))
  <1> DEFINE Piece == [c \in S |-> {c} \X (1 .. rqs[c].runtime)]
             Pieces == {{c} \X (1 .. rqs[c].runtime) : c \in S}
  <1>1. \A T \in Pieces : IsFiniteSet(T)
    <2> SUFFICES ASSUME NEW c \in S PROVE IsFiniteSet({c} \X (1 .. rqs[c].runtime))
      OBVIOUS
    <2>1. IsFiniteSet({c}) /\ IsFiniteSet(1 .. rqs[c].runtime)
      BY FS_Singleton, CountedTo
    <2> QED
      BY <2>1, FS_Product
  <1>2. Piece \in Surjection(S, Pieces)
    BY DEF Surjection
  <1>3. IsFiniteSet(Pieces)
    BY <1>2, FS_Surjection
  <1> HIDE DEF Pieces
  <1>4. IsFiniteSet(UNION Pieces)
    BY <1>1, <1>3, FS_UNION
  <1> QED
    BY <1>4 DEF Units, Pieces

\* The total is the share of one CPU and the total of the others.
LEMMA TotalSplit ==
    ASSUME NEW S, IsFiniteSet(S), NEW rqs, \A c \in S : rqs[c].runtime \in Nat,
           NEW c \in S
    PROVE  /\ Total(rqs, S) = rqs[c].runtime + Total(rqs, S \ {c})
           /\ Total(rqs, S \ {c}) \in Nat
  <1> DEFINE mine == {c} \X (1 .. rqs[c].runtime)
             rest == Units(rqs, S \ {c})
  <1>1. Units(rqs, S) = mine \cup rest /\ mine \cap rest = {}
    BY DEF Units
  <1>2. IsFiniteSet(S \ {c})
    BY FS_RemoveElement
  <1>3. IsFiniteSet(rest)
    BY <1>2, UnitsFinite
  <1>4. IsFiniteSet(mine) /\ Cardinality(mine) = rqs[c].runtime
    <2>1. IsFiniteSet({c}) /\ Cardinality({c}) = 1
      BY FS_Singleton
    <2>2. /\ IsFiniteSet(1 .. rqs[c].runtime)
          /\ Cardinality(1 .. rqs[c].runtime) = rqs[c].runtime
      BY CountedTo
    <2>3. IsFiniteSet(mine) /\ Cardinality(mine) = 1 * rqs[c].runtime
      BY <2>1, <2>2, FS_Product
    <2> QED
      BY <2>3
  <1>5. Cardinality(rest) \in Nat /\ Cardinality(mine \cap rest) = 0
    BY <1>1, <1>3, FS_CardinalityType, FS_EmptySet
  <1> HIDE DEF mine, rest
  <1>6. Cardinality(mine \cup rest) = Cardinality(mine) + Cardinality(rest) - 0
    BY <1>3, <1>4, <1>5, FS_Union
  <1>7. Total(rqs, S) = Cardinality(mine \cup rest) /\ Total(rqs, S \ {c}) = Cardinality(rest)
    BY <1>1 DEF Total, Units, rest
  <1> QED
    BY <1>4, <1>5, <1>6, <1>7

\* It depends on nothing but the shares of the CPUs that are counted.
LEMMA TotalSame ==
    ASSUME NEW S, NEW rqs, NEW rqs2, \A c \in S : rqs2[c].runtime = rqs[c].runtime
    PROVE  Total(rqs2, S) = Total(rqs, S)
  BY DEF Total

\* Equal shares.
LEMMA TotalEqual ==
    ASSUME NEW S, IsFiniteSet(S), NEW rqs, NEW n \in Nat,
           \A c \in S : rqs[c].runtime = n
    PROVE  Total(rqs, S) = n * Cardinality(S)
  <1>1. UNION {{c} \X (1 .. rqs[c].runtime) : c \in S} = S \X (1 .. n)
    <2>1. UNION {{c} \X (1 .. rqs[c].runtime) : c \in S}
            = UNION {{c} \X (1 .. n) : c \in S}
      OBVIOUS
    <2> QED
      BY <2>1
  <1>2. IsFiniteSet(1 .. n) /\ Cardinality(1 .. n) = n
    BY CountedTo
  <1>3. Cardinality(S) \in Nat /\ Cardinality(S \X (1 .. n)) = Cardinality(S) * n
    BY <1>2, FS_Product, FS_CardinalityType
  <1>4. Total(rqs, S) = Cardinality(S) * n
    BY <1>1, <1>3 DEF Total
  <1> QED
    BY <1>3, <1>4

-----------------------------------------------------------------------------
(* The inductive invariant *)

\* Who holds which locks in the middle of what.
ActorsExact ==
    /\ \A a \in CPU :
         /\ at[a].pc \in {"idle", "bal_lock", "bal", "exceeded", "reclaim", "disable"}
         /\ at[a].q = IF at[a].pc = "idle" THEN NONE ELSE a
    /\ at[TIMER].pc \in {"idle", "timer", "bal_lock", "bal", "replenish"}
    /\ IF at[TIMER].pc \in {"idle", "timer"} THEN at[TIMER].q = NONE
       ELSE at[TIMER].q \in at[TIMER].todo /\ at[at[TIMER].q].pc = "idle"
    /\ \A a \in Actor :
         /\ at[a].pc \in {"bal", "reclaim", "disable"} => rt_b_lock = a
         /\ at[a].pc \in {"bal", "reclaim"} => at[a].scan # {}
    /\ timer = "run" <=> at[TIMER].pc # "idle"

\* ThrottleEffective at any time, even half-way through an operation, and what
\* holds of a queue that is off line, throttled or being charged.
QueuesExact ==
    /\ \A c \in CPU :
         /\ rt_rq[c].queued <=> rt_rq[c].nr > 0 /\ ~ rt_rq[c].throttled
         /\ rt_rq[c].curr # rt_rq[c].queued => rt_rq[c].resched
         /\ rt_rq[c].curr => rt_rq[c].nr > 0
         /\ rt_rq[c].throttled => rt_rq[c].time > 0
         /\ ~ rt_rq[c].online => rt_rq[c].nr = 0 /\ ~ rt_rq[c].throttled
         /\ at[c].pc # "idle" => rt_rq[c].online
         /\ at[c].pc \in {"bal_lock", "bal", "exceeded"} => rt_rq[c].nr > 0
         /\ rt_rq[c].time <= MAX_TIME
    /\ at[TIMER].pc \in {"bal_lock", "bal", "replenish"} => rt_rq[at[TIMER].q].throttled

\* A queue with tasks, or throttled, is looked after by the timer; the handler that
\* has seen nothing to do so far has left only empty queues behind.
Watched ==
    \A c \in CPU : rt_rq[c].nr > 0 \/ rt_rq[c].throttled =>
        \/ unwatched
        \/ timer = "on"
        \/ timer = "run" /\ (at[TIMER].idle => c \in at[TIMER].todo)

Valid == 1 .. PERIOD \cup {INF}

LimitsValid ==
    /\ limit \in Valid /\ sysctl.value \in Valid /\ sysctl.old \in Valid
    /\ settled = "pending" =>
         /\ sysctl.pc = "shared"
         /\ \A c \in CPU : rt_rq[c].online /\ at[c].pc \notin {"reclaim", "disable"}
    /\ settled = "yes" /\ sysctl.pc = "shared" => sysctl.value = limit

\* The share that a CPU has on average.
Share == IF settled = "pending" THEN sysctl.value ELSE limit

Leaving(c) == at[c].pc \in {"reclaim", "disable"}

\* RuntimeConserved in every state: while a CPU leaves, the others have their shares
\* and what it still wants, and it has still to visit all that could give or take.
SharesExact ==
    settled # "no" =>
        /\ \A c \in CPU : Finite(rt_rq[c]) <=> rt_rq[c].online /\ Share # INF
        /\ (\A c \in CPU : ~ Leaving(c)) /\ Share # INF =>
             Total(rt_rq, Sharing) = Share * Cardinality(Sharing)
        /\ \A c \in CPU : Leaving(c) =>
             /\ Share # INF =>
                  Total(rt_rq, Sharing \ {c}) = Share * Cardinality(Sharing \ {c}) + at[c].want
             /\ at[c].pc = "disable" <=> at[c].want = 0
             /\ at[c].want # 0 => Share # INF
             /\ at[c].want > 0 =>
                  \A i \in Sharing \ {c} : i \notin at[c].scan => rt_rq[i].runtime = 0
             /\ at[c].want < 0 => Sharing \ {c} \subseteq at[c].scan

IInv ==
    TypeOK /\ ActorsExact /\ QueuesExact /\ Watched /\ LimitsValid /\ SharesExact

-----------------------------------------------------------------------------
(* Facts about the constants and the operators *)

N == Cardinality(CPU)

RqType == [time : Nat, runtime : 0 .. MOD - 1, throttled : BOOLEAN, nr : 0 .. MAX_TASKS,
           queued : BOOLEAN, curr : BOOLEAN, resched : BOOLEAN, online : BOOLEAN]

AtType == [pc : {"idle", "bal_lock", "bal", "exceeded", "timer", "replenish", "reclaim",
                 "disable"},
           q : CPU \cup {NONE}, scan : SUBSET CPU, todo : SUBSET CPU,
           want : Int, overrun : Nat, idle : BOOLEAN, throttled : BOOLEAN]

\* What the assumption says about sizes.
LEMMA Sizes ==
    /\ N \in Nat /\ N >= 1
    /\ PERIOD \in Nat /\ PERIOD >= 1 /\ MAX_TIME \in Nat /\ MAX_TASKS \in Nat
    /\ MOD \in Nat /\ N * PERIOD \in Nat
    /\ 2 * (N * PERIOD) < MOD /\ 2 * MAX_TIME < MOD /\ PERIOD < INF
    /\ N * PERIOD < MOD \div 2 /\ MAX_TIME < MOD \div 2 /\ PERIOD <= N * PERIOD
    /\ INF \in Nat /\ INF = MOD - 1
    /\ Valid \subseteq 0 .. MOD - 1
    /\ TIMER \notin CPU /\ NONE \notin CPU /\ TIMER # NONE
  <1>1. /\ CPU \subseteq Nat /\ IsFiniteSet(CPU) /\ Pluggable \subseteq CPU /\ Pluggable # CPU
        /\ PERIOD \in Nat /\ RUNTIME \in 1 .. PERIOD
        /\ MAX_TIME \in Nat \ {0} /\ MAX_TASKS \in Nat
        /\ MOD \in Nat /\ MOD > 2 * N * (PERIOD + MAX_TIME)
        /\ {TIMER, NONE} \cap Int = {} /\ TIMER # NONE
    BY BandwidthAssumption DEF N
  <1>2. N \in Nat /\ N >= 1
    <2>1. N \in Nat /\ (N = 0 <=> CPU = {})
      BY <1>1, FS_CardinalityType, FS_EmptySet DEF N
    <2>2. CPU # {}
      BY <1>1, Zenon
    <2> QED
      BY <2>1, <2>2
  <1>3. /\ N * PERIOD \in Nat /\ N * MAX_TIME \in Nat
        /\ PERIOD <= N * PERIOD /\ MAX_TIME <= N * MAX_TIME
    <2>1. 1 * PERIOD <= N * PERIOD /\ 1 * MAX_TIME <= N * MAX_TIME
      BY <1>1, <1>2, ProductGrows
    <2> QED
      BY <1>1, <1>2, <2>1
  <1>4. 2 * N * (PERIOD + MAX_TIME) = 2 * (N * PERIOD) + 2 * (N * MAX_TIME)
    BY <1>1, <1>2
  <1>5. /\ 2 * (N * PERIOD) + 2 * MAX_TIME < MOD /\ PERIOD >= 1 /\ INF = MOD - 1
        /\ INF \in Nat /\ PERIOD < INF
    BY <1>1, <1>3, <1>4 DEF INF
  <1>6. N * PERIOD < MOD \div 2 /\ MAX_TIME < MOD \div 2
    BY <1>1, <1>3, <1>5
  <1>7. Valid \subseteq 0 .. MOD - 1
    BY <1>1, <1>5 DEF Valid
  <1>8. TIMER \notin CPU /\ NONE \notin CPU
    <2>1. TIMER \notin Int /\ NONE \notin Int
      BY <1>1, Zenon
    <2>2. CPU \subseteq Int
      BY <1>1
    <2> QED
      BY <2>1, <2>2
  <1> QED
    BY <1>1, <1>2, <1>3, <1>5, <1>6, <1>7, <1>8

\* Unsigned arithmetic, as long as it goes round at most once.
LEMMA WrapFacts ==
    ASSUME NEW n \in Int
    PROVE  /\ Wrap(n) \in 0 .. MOD - 1
           /\ n \in 0 .. MOD - 1 => Wrap(n) = n
           /\ n < 0 /\ n + MOD >= 0 => Wrap(n) = n + MOD
  <1>1. MOD \in Nat \ {0}
    BY Sizes
  <1>2. Wrap(n) \in 0 .. MOD - 1
    BY <1>1 DEF Wrap
  <1>3. n \in 0 .. MOD - 1 => Wrap(n) = n
    BY <1>1 DEF Wrap
  <1>4. n < 0 /\ n + MOD >= 0 => Wrap(n) = n + MOD
    BY <1>1 DEF Wrap
  <1> QED
    BY <1>2, <1>3, <1>4

LEMMA SignedFacts ==
    ASSUME NEW n \in 0 .. MOD - 1
    PROVE  Signed(n) \in Int /\ (n < MOD \div 2 => Signed(n) = n)
           /\ (n >= MOD \div 2 => Signed(n) = n - MOD)
  BY Sizes DEF Signed

\* The first CPU of a mask, and the smaller of two numbers.
LEMMA MinFacts ==
    ASSUME NEW S \in SUBSET Nat, S # {}
    PROVE  Min(S) \in S /\ \A y \in S : Min(S) <= y
  BY LeastNat DEF Min

\* TypeOK, with the types of the records by name.
LEMMA Typed ==
    TypeOK <=> /\ rt_rq \in [CPU -> RqType] /\ rt_b_lock \in Actor \cup {NONE}
               /\ timer \in {"off", "on", "run"} /\ at \in [Actor -> AtType]
               /\ limit \in 0 .. MOD - 1 /\ unwatched \in BOOLEAN
               /\ sysctl \in [pc : {"idle", "stored", "shared"}, value : 0 .. MOD - 1,
                              old : 0 .. MOD - 1, writes : 0 .. MAX_WRITES]
               /\ settled \in {"yes", "no", "pending"}
  BY DEF TypeOK, RqType, AtType

\* Steps that leave the shares of the CPUs alone.
LEMMA SharesFrame ==
    ASSUME SharesExact,
           \A c \in CPU : /\ rt_rq'[c].runtime = rt_rq[c].runtime
                          /\ rt_rq'[c].online = rt_rq[c].online
                          /\ Leaving(c)' <=> Leaving(c)
                          /\ Leaving(c) => at'[c] = at[c],
           limit' = limit, sysctl'.value = sysctl.value, settled' = settled
    PROVE  SharesExact'
  <1>1. Share' = Share
    BY DEF Share
  <1>2. Sharing' = Sharing /\ \A c \in CPU : Finite(rt_rq'[c]) <=> Finite(rt_rq[c])
    BY DEF Sharing, Finite
  <1>3. \A S \in SUBSET CPU : Total(rt_rq', S) = Total(rt_rq, S)
    BY TotalSame
  <1>4. /\ Total(rt_rq', Sharing) = Total(rt_rq, Sharing)
        /\ \A c \in CPU : Total(rt_rq', Sharing \ {c}) = Total(rt_rq, Sharing \ {c})
    BY <1>3 DEF Sharing
  <1> SUFFICES ASSUME settled # "no" PROVE SharesExact'
    BY DEF SharesExact
  <1>5. \A c \in CPU : Finite(rt_rq'[c]) <=> rt_rq'[c].online /\ Share' # INF
    BY <1>1, <1>2 DEF SharesExact
  <1>6. (\A c \in CPU : ~ Leaving(c)') /\ Share' # INF =>
             Total(rt_rq', Sharing') = Share' * Cardinality(Sharing')
    BY <1>1, <1>2, <1>4 DEF SharesExact
  <1>7. ASSUME NEW c \in CPU, Leaving(c)'
        PROVE  /\ Share' # INF => Total(rt_rq', Sharing' \ {c})
                                   = Share' * Cardinality(Sharing' \ {c}) + at'[c].want
               /\ at'[c].pc = "disable" <=> at'[c].want = 0
               /\ at'[c].want # 0 => Share' # INF
               /\ at'[c].want > 0 =>
                    \A i \in Sharing' \ {c} : i \notin at'[c].scan => rt_rq'[i].runtime = 0
               /\ at'[c].want < 0 => Sharing' \ {c} \subseteq at'[c].scan
    <2>1. Leaving(c) /\ at'[c] = at[c]
      BY <1>7
    <2>2. \A i \in Sharing : rt_rq'[i].runtime = rt_rq[i].runtime
      BY DEF Sharing
    <2> QED
      BY <1>1, <1>2, <1>4, <2>1, <2>2, ZenonT(60) DEF SharesExact
  <1> QED
    BY <1>5, <1>6, <1>7 DEF SharesExact

\* The first state.
LEMMA InitInv == Init => IInv
  <1> SUFFICES ASSUME Init PROVE IInv
    OBVIOUS
  <1>1. /\ RUNTIME \in 1 .. PERIOD /\ RUNTIME \in 0 .. MOD - 1 /\ RUNTIME \in Nat
        /\ RUNTIME # INF /\ RUNTIME \in Valid /\ MAX_WRITES \in Nat
    BY Sizes, BandwidthAssumption DEF Valid
  <1> DEFINE r0 == [time |-> 0, runtime |-> RUNTIME, throttled |-> FALSE,
                    nr |-> 0, queued |-> FALSE, curr |-> FALSE,
                    resched |-> FALSE, online |-> TRUE]
  <1>2. r0 \in RqType /\ Idle \in AtType
    BY <1>1, Sizes DEF RqType, AtType, Idle
  <1>3. /\ rt_rq = [c \in CPU |-> r0] /\ at = [a \in Actor |-> Idle]
        /\ rt_b_lock = NONE /\ timer = "off" /\ limit = RUNTIME
        /\ sysctl = [pc |-> "idle", value |-> RUNTIME, old |-> RUNTIME, writes |-> 0]
        /\ settled = "yes"
    BY DEF Init
  <1>4. unwatched \in BOOLEAN
    BY Zenon DEF Init
  <1>5. TypeOK
    <2>1. rt_rq \in [CPU -> RqType] /\ at \in [Actor -> AtType] /\ limit \in 0 .. MOD - 1
      BY <1>1, <1>2, <1>3
    <2>2. sysctl \in [pc : {"idle", "stored", "shared"}, value : 0 .. MOD - 1,
                      old : 0 .. MOD - 1, writes : 0 .. MAX_WRITES]
      BY <1>1, <1>3
    <2> QED
      BY <1>3, <1>4, <2>1, <2>2, Typed
  <1>6. ActorsExact
    BY <1>3 DEF ActorsExact, Actor, Idle
  <1>7. QueuesExact
    <2>1. \A c \in CPU : /\ rt_rq[c].time = 0 /\ rt_rq[c].nr = 0 /\ at[c].pc = "idle"
                         /\ ~ rt_rq[c].throttled /\ ~ rt_rq[c].queued /\ ~ rt_rq[c].curr
                         /\ rt_rq[c].curr = rt_rq[c].queued
      BY <1>3 DEF Actor, Idle
    <2>3. MAX_TIME \in Nat
      BY Sizes
    <2>2. at[TIMER].pc = "idle"
      BY <1>3 DEF Actor, Idle
    <2> QED
      BY <2>1, <2>2, <2>3 DEF QueuesExact
  <1>8. Watched
    BY <1>3 DEF Watched
  <1>9. LimitsValid
    BY <1>1, <1>3 DEF LimitsValid
  <1>10. SharesExact
    <2>1. Share = RUNTIME /\ Sharing = CPU /\ \A c \in CPU : ~ Leaving(c)
      BY <1>1, <1>3 DEF Share, Sharing, Finite, Leaving, Actor, Idle
    <2>2. \A c \in CPU : rt_rq[c].runtime = RUNTIME /\ rt_rq[c].online
      BY <1>3
    <2>3. Total(rt_rq, CPU) = RUNTIME * Cardinality(CPU)
      BY <1>1, <2>2, BandwidthAssumption, TotalEqual
    <2> QED
      BY <1>1, <2>1, <2>2, <2>3 DEF SharesExact, Finite
  <1> QED
    BY <1>5, <1>6, <1>7, <1>8, <1>9, <1>10 DEF IInv

-----------------------------------------------------------------------------
(* Tasks come and go *)

\* enqueue_top_rt_rq() after dequeue_top_rt_rq().
LEMMA RequeueFacts ==
    ASSUME NEW r \in RqType, NEW n \in 0 .. MAX_TASKS
    PROVE  LET s == requeue_top_rt_rq([r EXCEPT !.nr = n]) IN
           /\ s \in RqType /\ s.nr = n /\ (s.queued <=> n > 0 /\ ~ r.throttled)
           /\ s.time = r.time /\ s.runtime = r.runtime /\ s.throttled = r.throttled
           /\ s.curr = r.curr /\ s.resched = r.resched /\ s.online = r.online
  BY DEF RqType, requeue_top_rt_rq

\* What an operation on the queue of a CPU that nobody else works on may do.
LEMMA QueueStep ==
    ASSUME IInv, NEW c \in CPU, RqFree(c), NEW r \in RqType,
           rt_rq' = [rt_rq EXCEPT ![c] = r],
           at' = at, rt_b_lock' = rt_b_lock, limit' = limit, sysctl' = sysctl,
           settled' = settled, unwatched' \in BOOLEAN,
           timer' = timer \/ (timer = "off" /\ timer' = "on"),
           r.runtime = rt_rq[c].runtime, r.online = rt_rq[c].online,
           r.throttled = rt_rq[c].throttled, r.time = rt_rq[c].time,
           r.queued <=> r.nr > 0 /\ ~ r.throttled,
           r.curr # r.queued => r.resched, r.curr => r.nr > 0,
           ~ r.online => r.nr = 0
    PROVE  TypeOK' /\ ActorsExact' /\ QueuesExact' /\ LimitsValid' /\ SharesExact'
  <1>1. /\ rt_rq \in [CPU -> RqType] /\ at \in [Actor -> AtType]
    BY Typed DEF IInv
  <1>2. rt_rq'[c] = r /\ \A d \in CPU : d # c => rt_rq'[d] = rt_rq[d]
    BY <1>1
  <1>3. rt_rq' \in [CPU -> RqType]
    BY <1>1
  <1>4. TypeOK'
    BY <1>1, <1>3 DEF IInv, TypeOK, RqType, AtType
  <1>5. ActorsExact'
    BY DEF IInv, ActorsExact
  <1>6. at[c].pc = "idle" /\ at[TIMER].q # c
    BY Sizes DEF IInv, ActorsExact, RqFree, Actor
  <1>7. QueuesExact'
    BY <1>2, <1>6 DEF IInv, QueuesExact, ActorsExact
  <1>8. LimitsValid'
    BY <1>2 DEF IInv, LimitsValid
  <1>9. SharesExact'
    BY <1>2, SharesFrame DEF IInv, Leaving
  <1> QED
    BY <1>4, <1>5, <1>7, <1>8, <1>9

LEMMA EnqueueInv ==
    ASSUME IInv, NEW c \in CPU, Enqueue(c)
    PROVE  IInv'
  <1> DEFINE n == rt_rq[c].nr + 1
             s == requeue_top_rt_rq([rt_rq[c] EXCEPT !.nr = n])
             r == [s EXCEPT !.resched = @ \/ (s.queued /\ ~ s.curr)]
  <1>1. /\ rt_rq \in [CPU -> RqType] /\ rt_rq[c] \in RqType
        /\ unwatched \in BOOLEAN /\ timer \in {"off", "on", "run"}
    BY Typed DEF IInv
  <1>2. rt_rq[c].online /\ rt_rq[c].nr < MAX_TASKS /\ RqFree(c)
    BY DEF Enqueue
  <1>3. n \in 0 .. MAX_TASKS /\ n > 0
    BY <1>1, <1>2, Sizes DEF RqType
  <1> HIDE DEF n
  <1>4. /\ s \in RqType /\ s.nr = n /\ (s.queued <=> n > 0 /\ ~ rt_rq[c].throttled)
        /\ s.time = rt_rq[c].time /\ s.runtime = rt_rq[c].runtime
        /\ s.throttled = rt_rq[c].throttled /\ s.curr = rt_rq[c].curr
        /\ s.resched = rt_rq[c].resched /\ s.online = rt_rq[c].online
    BY <1>1, <1>3, RequeueFacts
  <1>5. /\ rt_rq' = [rt_rq EXCEPT ![c] = r] /\ start_rt_bandwidth
        /\ at' = at /\ rt_b_lock' = rt_b_lock /\ limit' = limit /\ sysctl' = sysctl
        /\ settled' = settled
    BY DEF Enqueue, n
  <1> HIDE DEF s
  <1>6. /\ r \in RqType /\ r.nr = s.nr /\ r.queued = s.queued /\ r.time = s.time
        /\ r.runtime = s.runtime /\ r.throttled = s.throttled /\ r.curr = s.curr
        /\ r.online = s.online /\ (r.resched <=> s.resched \/ (s.queued /\ ~ s.curr))
    BY <1>4 DEF RqType
  <1> HIDE DEF r
  <1>7. /\ unwatched' \in BOOLEAN /\ (timer' = timer \/ (timer = "off" /\ timer' = "on"))
        /\ timer' = "on" \/ unwatched'
    <2>1. CASE timer' = "on" /\ timer = "off" /\ unwatched' = FALSE
      BY <2>1
    <2>2. CASE timer' = timer /\ unwatched' = (unwatched \/ timer = "run" \/ timer = "off")
      BY <1>1, <2>2
    <2> QED
      BY <1>5, <2>1, <2>2 DEF start_rt_bandwidth
  <1>8. (r.queued <=> r.nr > 0 /\ ~ r.throttled) /\ (r.curr => r.nr > 0)
    BY <1>3, <1>4, <1>6
  <1>9. r.curr # r.queued => r.resched
    <2>1. s.queued => s.curr \/ r.resched
      BY <1>6
    <2>2. ~ s.queued /\ s.curr => s.resched
      <3>1. ~ s.queued => rt_rq[c].throttled
        BY <1>3, <1>4
      <3>2. rt_rq[c].throttled => ~ rt_rq[c].queued
        BY DEF IInv, QueuesExact
      <3>3. rt_rq[c].curr # rt_rq[c].queued => rt_rq[c].resched
        BY DEF IInv, QueuesExact
      <3> QED
        BY <1>4, <3>1, <3>2, <3>3
    <2>3. s.curr \in BOOLEAN /\ s.queued \in BOOLEAN
      BY <1>4 DEF RqType
    <2> QED
      BY <1>6, <2>1, <2>2, <2>3
  <1>10. ~ r.online => r.nr = 0
    BY <1>2, <1>4, <1>6
  <1>11. TypeOK' /\ ActorsExact' /\ QueuesExact' /\ LimitsValid' /\ SharesExact'
    BY <1>2, <1>4, <1>5, <1>6, <1>7, <1>8, <1>9, <1>10, QueueStep
  <1>12. Watched'
    BY <1>7 DEF Watched
  <1> QED
    BY <1>11, <1>12 DEF IInv

LEMMA DequeueInv ==
    ASSUME IInv, NEW c \in CPU, Dequeue(c)
    PROVE  IInv'
  <1> DEFINE n == rt_rq[c].nr - 1
             s == requeue_top_rt_rq([rt_rq[c] EXCEPT !.nr = n])
  <1>1. rt_rq \in [CPU -> RqType] /\ rt_rq[c] \in RqType /\ unwatched \in BOOLEAN
    BY Typed DEF IInv
  <1>2. /\ RqFree(c) /\ rt_rq[c].nr > 0
        /\ at' = at /\ rt_b_lock' = rt_b_lock /\ limit' = limit /\ sysctl' = sysctl
        /\ settled' = settled /\ timer' = timer /\ unwatched' = unwatched
    BY DEF Dequeue, others
  <1>3. n \in 0 .. MAX_TASKS
    BY <1>1, <1>2, Sizes DEF RqType
  <1>4. rt_rq[c].online
    BY <1>2 DEF IInv, QueuesExact
  <1>5. PICK r : /\ rt_rq' = [rt_rq EXCEPT ![c] = r]
                 /\ \/ s.curr /\ r = [s EXCEPT !.curr = s.queued, !.resched = FALSE]
                    \/ (s.curr => s.nr > 0) /\ r = s
    BY DEF Dequeue
  <1> HIDE DEF n
  <1>6. /\ s \in RqType /\ s.nr = n /\ (s.queued <=> n > 0 /\ ~ rt_rq[c].throttled)
        /\ s.time = rt_rq[c].time /\ s.runtime = rt_rq[c].runtime
        /\ s.throttled = rt_rq[c].throttled /\ s.curr = rt_rq[c].curr
        /\ s.resched = rt_rq[c].resched /\ s.online = rt_rq[c].online
    BY <1>1, <1>3, RequeueFacts
  <1> HIDE DEF s
  <1>7. /\ r \in RqType /\ r.nr = s.nr /\ r.queued = s.queued /\ r.time = s.time
        /\ r.runtime = s.runtime /\ r.throttled = s.throttled /\ r.online = s.online
        /\ \/ r.curr = s.queued
           \/ (s.curr => s.nr > 0) /\ r.curr = s.curr /\ r.resched = s.resched
    BY <1>5, <1>6 DEF RqType
  <1>8. (r.queued <=> r.nr > 0 /\ ~ r.throttled) /\ (r.curr => r.nr > 0)
    BY <1>3, <1>6, <1>7
  <1>9. r.curr # r.queued => r.resched
    <2>1. CASE r.curr = s.queued
      BY <1>7, <2>1
    <2>2. CASE (s.curr => s.nr > 0) /\ r.curr = s.curr /\ r.resched = s.resched
      <3>1. s.nr = 0 => ~ s.curr /\ ~ s.queued /\ s.curr \in BOOLEAN /\ s.queued \in BOOLEAN
        BY <1>6, <2>2 DEF RqType
      <3>2. s.nr > 0 => s.queued = rt_rq[c].queued
        BY <1>1, <1>2, <1>6 DEF IInv, QueuesExact, RqType
      <3>3. s.nr = 0 \/ s.nr > 0
        BY <1>3, <1>6
      <3> QED
        BY <1>6, <1>7, <2>2, <3>1, <3>2, <3>3 DEF IInv, QueuesExact
    <2> QED
      BY <1>7, <2>1, <2>2
  <1>10. TypeOK' /\ ActorsExact' /\ QueuesExact' /\ LimitsValid' /\ SharesExact'
    BY <1>1, <1>2, <1>4, <1>5, <1>6, <1>7, <1>8, <1>9, QueueStep
  <1>11. Watched'
    <2>1. \A d \in CPU : /\ rt_rq'[d].nr > 0 => rt_rq[d].nr > 0
                         /\ rt_rq'[d].throttled = rt_rq[d].throttled
      BY <1>1, <1>2, <1>5, <1>6, <1>7
    <2> QED
      BY <1>2, <2>1 DEF IInv, Watched
  <1> QED
    BY <1>10, <1>11 DEF IInv

LEMMA ScheduleInv ==
    ASSUME IInv, NEW c \in CPU, Schedule(c)
    PROVE  IInv'
  <1> DEFINE r == [rt_rq[c] EXCEPT !.curr = rt_rq[c].queued, !.resched = FALSE]
  <1>1. rt_rq \in [CPU -> RqType] /\ rt_rq[c] \in RqType /\ unwatched \in BOOLEAN
    BY Typed DEF IInv
  <1>2. /\ RqFree(c)
        /\ at' = at /\ rt_b_lock' = rt_b_lock /\ limit' = limit /\ sysctl' = sysctl
        /\ settled' = settled /\ timer' = timer /\ unwatched' = unwatched
    BY DEF Schedule, others
  <1>3. rt_rq' = [rt_rq EXCEPT ![c] = r]
    BY <1>1 DEF Schedule
  <1>4. /\ r \in RqType /\ r.nr = rt_rq[c].nr /\ r.queued = rt_rq[c].queued
        /\ r.time = rt_rq[c].time /\ r.runtime = rt_rq[c].runtime
        /\ r.throttled = rt_rq[c].throttled /\ r.online = rt_rq[c].online
        /\ r.curr = rt_rq[c].queued
    BY <1>1 DEF RqType
  <1> HIDE DEF r
  <1>5. /\ (r.queued <=> r.nr > 0 /\ ~ r.throttled) /\ (r.curr => r.nr > 0)
        /\ (~ r.online => r.nr = 0) /\ r.curr = r.queued
    BY <1>4 DEF IInv, QueuesExact
  <1>6. TypeOK' /\ ActorsExact' /\ QueuesExact' /\ LimitsValid' /\ SharesExact'
    BY <1>1, <1>2, <1>3, <1>4, <1>5, QueueStep
  <1>7. Watched'
    BY <1>1, <1>2, <1>3, <1>4 DEF IInv, Watched
  <1> QED
    BY <1>6, <1>7 DEF IInv

-----------------------------------------------------------------------------
(* update_curr_rt() *)

LEMMA UpdateCurrInv ==
    ASSUME IInv, NEW c \in CPU, NEW delta \in Deltas, UpdateCurr(c, delta)
    PROVE  IInv'
  <1> DEFINE s == [rt_rq[c] EXCEPT !.time = @ + delta]
             r == [s EXCEPT !.resched = @ \/ s.throttled]
  <1>1. /\ rt_rq \in [CPU -> RqType] /\ rt_rq[c] \in RqType /\ at \in [Actor -> AtType]
        /\ c \in Actor /\ TIMER \in Actor /\ delta \in Nat \ {0}
    BY Typed, BandwidthAssumption DEF IInv, Actor
  <1>2. /\ RqFree(c) /\ s.curr /\ s.time <= MAX_TIME /\ rt_rq' = [rt_rq EXCEPT ![c] = r]
        /\ \/ at' = [at EXCEPT ![c].pc = "bal_lock", ![c].q = c]
           \/ at' = at
        /\ rt_b_lock' = rt_b_lock /\ timer' = timer /\ limit' = limit /\ sysctl' = sysctl
        /\ settled' = settled /\ unwatched' = unwatched
    BY DEF UpdateCurr, others
  <1>3. /\ s \in RqType /\ s.time = rt_rq[c].time + delta /\ s.runtime = rt_rq[c].runtime
        /\ s.throttled = rt_rq[c].throttled /\ s.nr = rt_rq[c].nr
        /\ s.queued = rt_rq[c].queued /\ s.curr = rt_rq[c].curr
        /\ s.resched = rt_rq[c].resched /\ s.online = rt_rq[c].online
    BY <1>1 DEF RqType
  <1> HIDE DEF s
  <1>4. /\ r \in RqType /\ r.time = s.time /\ r.runtime = s.runtime
        /\ r.throttled = s.throttled /\ r.nr = s.nr /\ r.queued = s.queued
        /\ r.curr = s.curr /\ r.online = s.online /\ (s.resched => r.resched)
    BY <1>3 DEF RqType
  <1> HIDE DEF r
  <1>5. rt_rq'[c] = r /\ \A d \in CPU : d # c => rt_rq'[d] = rt_rq[d]
    BY <1>1, <1>2
  <1>6. /\ at[c].pc = "idle" /\ at[TIMER].q # c /\ rt_rq[c].nr > 0 /\ rt_rq[c].online
        /\ rt_rq[c].time + delta > 0
    <2>1. at[c].pc = "idle" /\ at[TIMER].q # c
      BY <1>1, <1>2, Sizes DEF IInv, ActorsExact, RqFree
    <2>2. rt_rq[c].nr > 0 /\ rt_rq[c].online
      BY <1>2, <1>3 DEF IInv, QueuesExact
    <2>3. rt_rq[c].time + delta > 0
      BY <1>1 DEF RqType
    <2> QED
      BY <2>1, <2>2, <2>3
  <1>7. /\ \A a \in Actor : a # c => at'[a] = at[a]
        /\ at' \in [Actor -> AtType] /\ at'[TIMER] = at[TIMER]
        /\ \/ at'[c] = at[c]
           \/ at'[c].pc = "bal_lock" /\ at'[c].q = c /\ at'[c].scan = at[c].scan
    <2>1. CASE at' = at
      BY <1>1, <2>1
    <2>2. CASE at' = [at EXCEPT ![c].pc = "bal_lock", ![c].q = c]
      <3>1. c # TIMER
        BY Sizes
      <3> QED
        BY <1>1, <2>2, <3>1, ZenonT(60) DEF AtType
    <2> QED
      BY <1>2, <2>1, <2>2
  <1>8. TypeOK'
    BY <1>1, <1>2, <1>4, <1>7, Typed DEF IInv, TypeOK, RqType, AtType
  <1>14. \A d \in CPU : d \in Actor /\ (d # c => at'[d] = at[d])
    BY <1>7 DEF Actor
  <1>9. ActorsExact'
    <2>1. \A d \in CPU :
            /\ at'[d].pc \in {"idle", "bal_lock", "bal", "exceeded", "reclaim", "disable"}
            /\ at'[d].q = IF at'[d].pc = "idle" THEN NONE ELSE d
      BY <1>6, <1>7, <1>14 DEF IInv, ActorsExact
    <2>2. at'[TIMER].pc \notin {"idle", "timer"} =>
            at'[TIMER].q \in at'[TIMER].todo /\ at'[at'[TIMER].q].pc = "idle"
      <3>1. at[TIMER].todo \subseteq CPU
        BY <1>1 DEF AtType
      <3> QED
        BY <1>6, <1>7, <1>14, <3>1 DEF IInv, ActorsExact
    <2>3. \A b \in Actor :
            /\ at'[b].pc \in {"bal", "reclaim", "disable"} => rt_b_lock' = b
            /\ at'[b].pc \in {"bal", "reclaim"} => at'[b].scan # {}
      BY <1>2, <1>7 DEF IInv, ActorsExact
    <2> QED
      BY <1>2, <1>7, <2>1, <2>2, <2>3 DEF IInv, ActorsExact
  <1>10. QueuesExact'
    <2>1. /\ rt_rq'[c].queued <=> rt_rq'[c].nr > 0 /\ ~ rt_rq'[c].throttled
          /\ rt_rq'[c].curr # rt_rq'[c].queued => rt_rq'[c].resched
          /\ rt_rq'[c].nr > 0 /\ rt_rq'[c].online
          /\ rt_rq'[c].time > 0 /\ rt_rq'[c].time <= MAX_TIME
      BY <1>2, <1>3, <1>4, <1>5, <1>6, ZenonT(60) DEF IInv, QueuesExact
    <2>2. at'[TIMER].pc \in {"bal_lock", "bal", "replenish"} =>
            rt_rq'[at'[TIMER].q].throttled
      <3>1. at[TIMER].q \in CPU \cup {NONE} /\ NONE \notin CPU
        BY <1>1, Sizes DEF AtType
      <3>2. at[TIMER].pc \in {"bal_lock", "bal", "replenish"} => at[TIMER].q \in CPU
        BY <1>1 DEF IInv, ActorsExact, AtType
      <3> QED
        BY <1>5, <1>6, <1>7, <3>2 DEF IInv, QueuesExact
    <2> QED
      BY <1>5, <1>14, <2>1, <2>2 DEF IInv, QueuesExact
  <1>11. Watched'
    BY <1>2, <1>3, <1>4, <1>5, <1>7 DEF IInv, Watched
  <1>12. LimitsValid'
    BY <1>2, <1>3, <1>4, <1>5, <1>7 DEF IInv, LimitsValid, Actor
  <1>13. SharesExact'
    <2>1. \A d \in CPU : /\ rt_rq'[d].runtime = rt_rq[d].runtime
                         /\ rt_rq'[d].online = rt_rq[d].online
      BY <1>3, <1>4, <1>5
    <2>2. \A d \in CPU : (Leaving(d)' <=> Leaving(d)) /\ (Leaving(d) => at'[d] = at[d])
      BY <1>6, <1>7, <1>14 DEF Leaving
    <2> QED
      BY <1>2, <2>1, <2>2, SharesFrame DEF IInv
  <1> QED
    BY <1>8, <1>9, <1>10, <1>11, <1>12, <1>13 DEF IInv

LEMMA ExceededInv ==
    ASSUME IInv, NEW c \in CPU, Exceeded(c)
    PROVE  IInv'
  <1>1. /\ rt_rq \in [CPU -> RqType] /\ rt_rq[c] \in RqType /\ at \in [Actor -> AtType]
        /\ c \in Actor /\ TIMER \in Actor /\ c # TIMER /\ Idle \in AtType
    BY Typed, Sizes DEF IInv, Actor, Idle, AtType
  <1>2. PICK r :
        /\ at[c].pc = "exceeded" /\ rt_rq' = [rt_rq EXCEPT ![c] = r]
        /\ \/ r = exceeded(rt_rq[c]) /\ rt_rq[c].time > rt_rq[c].runtime
           \/ r = rt_rq[c]
        /\ at' = [at EXCEPT ![c] = Idle]
        /\ rt_b_lock' = rt_b_lock /\ timer' = timer /\ limit' = limit /\ sysctl' = sysctl
        /\ settled' = settled /\ unwatched' = unwatched
    BY DEF Exceeded, others
  <1>3. rt_rq[c].nr > 0 /\ rt_rq[c].online /\ rt_rq[c].time <= MAX_TIME
    BY <1>2 DEF IInv, QueuesExact
  <1>4. /\ r \in RqType /\ r.time = rt_rq[c].time /\ r.runtime = rt_rq[c].runtime
        /\ r.nr = rt_rq[c].nr /\ r.curr = rt_rq[c].curr /\ r.online = rt_rq[c].online
        /\ r.queued <=> r.nr > 0 /\ ~ r.throttled
        /\ r.curr # r.queued => r.resched
        /\ r.throttled => r.time > 0
    <2>1. CASE r = rt_rq[c]
      BY <1>1, <2>1 DEF IInv, QueuesExact
    <2>2. CASE r = exceeded(rt_rq[c]) /\ rt_rq[c].time > rt_rq[c].runtime
      <3>1. rt_rq[c].time > 0
        BY <1>1, <2>2 DEF RqType
      <3> QED
        BY <1>1, <2>2, <3>1 DEF exceeded, RqType
    <2> QED
      BY <1>2, <2>1, <2>2
  <1>5. rt_rq'[c] = r /\ \A d \in CPU : d # c => rt_rq'[d] = rt_rq[d]
    BY <1>1, <1>2
  <1>6. /\ \A a \in Actor : a # c => at'[a] = at[a]
        /\ at' \in [Actor -> AtType] /\ at'[TIMER] = at[TIMER]
        /\ at'[c].pc = "idle" /\ at'[c].q = NONE
    BY <1>1, <1>2 DEF Idle
  <1>7. at[c].q = c
    BY <1>2 DEF IInv, ActorsExact
  <1>8. TypeOK'
    BY <1>1, <1>2, <1>4, <1>6, Typed DEF IInv, TypeOK, RqType, AtType
  <1>9. ActorsExact'
    BY <1>2, <1>6 DEF IInv, ActorsExact, Actor
  <1>10. at[TIMER].pc \in {"bal_lock", "bal", "replenish"} => at[TIMER].q # c
    BY <1>2 DEF IInv, ActorsExact
  <1>11. QueuesExact'
    <2>1. /\ rt_rq'[c].queued <=> rt_rq'[c].nr > 0 /\ ~ rt_rq'[c].throttled
          /\ rt_rq'[c].curr # rt_rq'[c].queued => rt_rq'[c].resched
          /\ rt_rq'[c].nr > 0 /\ rt_rq'[c].online
          /\ rt_rq'[c].throttled => rt_rq'[c].time > 0
          /\ rt_rq'[c].time <= MAX_TIME
      BY <1>3, <1>4, <1>5 DEF IInv, QueuesExact
    <2>2. at'[TIMER].pc \in {"bal_lock", "bal", "replenish"} =>
            rt_rq'[at'[TIMER].q].throttled
      <3>1. at[TIMER].pc \in {"bal_lock", "bal", "replenish"} => at[TIMER].q \in CPU
        BY <1>1 DEF IInv, ActorsExact, AtType
      <3> QED
        BY <1>5, <1>6, <1>10, <3>1 DEF IInv, QueuesExact
    <2>3. \A d \in CPU : d # c => at'[d] = at[d] /\ rt_rq'[d] = rt_rq[d]
      BY <1>5, <1>6 DEF Actor
    <2> QED
      BY <1>6, <2>1, <2>2, <2>3 DEF IInv, QueuesExact
  <1>12. Watched'
    BY <1>2, <1>3, <1>4, <1>5, <1>6 DEF IInv, Watched
  <1>13. LimitsValid'
    BY <1>2, <1>4, <1>5, <1>6 DEF IInv, LimitsValid, Actor
  <1>14. SharesExact'
    BY <1>2, <1>4, <1>5, <1>6, SharesFrame DEF IInv, Leaving, Actor
  <1> QED
    BY <1>8, <1>9, <1>11, <1>12, <1>13, <1>14 DEF IInv

LEMMA BalanceLockInv ==
    ASSUME IInv, NEW a \in Actor, BalanceLock(a)
    PROVE  IInv'
  <1>1. /\ at \in [Actor -> AtType] /\ TIMER \in Actor /\ CPU # {}
        /\ \A c \in CPU : c \in Actor /\ c # TIMER
    BY Typed, Sizes, BandwidthAssumption DEF IInv, Actor
  <1>2. /\ at[a].pc = "bal_lock" /\ rt_b_lock = NONE /\ rt_b_lock' = a
        /\ at' = [at EXCEPT ![a].pc = "bal", ![a].scan = CPU]
        /\ rt_rq' = rt_rq /\ timer' = timer /\ limit' = limit /\ sysctl' = sysctl
        /\ settled' = settled /\ unwatched' = unwatched
    BY DEF BalanceLock, others
  <1>3. /\ \A b \in Actor : b # a => at'[b] = at[b]
        /\ at' \in [Actor -> AtType]
        /\ at'[a].pc = "bal" /\ at'[a].q = at[a].q /\ at'[a].scan = CPU
        /\ at'[a].todo = at[a].todo /\ at'[a].idle = at[a].idle
    BY <1>1, <1>2, ZenonT(60) DEF AtType
  <1>4. \A b \in Actor : at[b].pc \notin {"bal", "reclaim", "disable"}
    <2>1. \A b \in Actor : b # NONE
      BY Sizes DEF Actor
    <2> QED
      BY <1>2, <2>1 DEF IInv, ActorsExact
  <1>5. TypeOK'
    BY <1>2, <1>3 DEF IInv, TypeOK, AtType
  <1>6. ActorsExact'
    <2>1. \A d \in CPU :
            /\ at'[d].pc \in {"idle", "bal_lock", "bal", "exceeded", "reclaim", "disable"}
            /\ at'[d].q = IF at'[d].pc = "idle" THEN NONE ELSE d
      BY <1>1, <1>2, <1>3 DEF IInv, ActorsExact
    <2>2. at'[TIMER].pc \in {"idle", "timer", "bal_lock", "bal", "replenish"}
      BY <1>1, <1>2, <1>3 DEF IInv, ActorsExact
    <2>3. at'[TIMER].q = at[TIMER].q /\ at'[TIMER].todo = at[TIMER].todo
      BY <1>1, <1>3
    <2>4. IF at'[TIMER].pc \in {"idle", "timer"} THEN at'[TIMER].q = NONE
          ELSE at'[TIMER].q \in at'[TIMER].todo /\ at'[at'[TIMER].q].pc = "idle"
      <3>1. at[TIMER].todo \subseteq CPU
        BY <1>1 DEF AtType
      <3>2. at'[TIMER].pc \in {"idle", "timer"} <=> at[TIMER].pc \in {"idle", "timer"}
        BY <1>1, <1>2, <1>3
      <3> QED
        BY <1>1, <1>2, <1>3, <2>3, <3>1, <3>2 DEF IInv, ActorsExact
    <2>5. \A b \in Actor :
            /\ at'[b].pc \in {"bal", "reclaim", "disable"} => rt_b_lock' = b
            /\ at'[b].pc \in {"bal", "reclaim"} => at'[b].scan # {}
      BY <1>1, <1>2, <1>3, <1>4
    <2>6. timer' = "run" <=> at'[TIMER].pc # "idle"
      BY <1>1, <1>2, <1>3 DEF IInv, ActorsExact
    <2> QED
      BY <2>1, <2>2, <2>4, <2>5, <2>6 DEF ActorsExact
  <1>7. QueuesExact'
    BY <1>1, <1>2, <1>3 DEF IInv, QueuesExact
  <1>8. Watched'
    BY <1>1, <1>2, <1>3 DEF IInv, Watched
  <1>9. LimitsValid'
    BY <1>1, <1>2, <1>3 DEF IInv, LimitsValid
  <1>10. SharesExact'
    BY <1>1, <1>2, <1>3, SharesFrame DEF IInv, Leaving
  <1> QED
    BY <1>5, <1>6, <1>7, <1>8, <1>9, <1>10 DEF IInv

-----------------------------------------------------------------------------
(* do_balance_runtime() *)

\* The fields of struct rt_rq that no movement of runtime touches.
SameButRuntime(r, s) ==
    /\ r.time = s.time /\ r.throttled = s.throttled /\ r.nr = s.nr /\ r.queued = s.queued
    /\ r.curr = s.curr /\ r.resched = s.resched /\ r.online = s.online

\* Nothing but runtime changes in two queues.
LEMMA TakeSpareType ==
    ASSUME NEW mine \in RqType, NEW iter \in RqType
    PROVE  LET after == take_spare(mine, iter) IN
           /\ after[1] \in RqType /\ SameButRuntime(after[1], mine)
           /\ after[2] \in RqType /\ SameButRuntime(after[2], iter)
  <1> DEFINE part == Wrap(iter.runtime - iter.time) \div Cardinality(CPU)
             diff == IF Wrap(mine.runtime + part) > PERIOD THEN PERIOD - mine.runtime ELSE part
  <1>1. /\ mine.runtime \in Int /\ iter.runtime \in Int /\ iter.time \in Int
        /\ PERIOD \in Int /\ N \in Nat /\ N >= 1
    BY Sizes DEF RqType
  <1>2. Wrap(iter.runtime - iter.time) \in Int
    BY <1>1, WrapFacts
  <1>3. part \in Int
    BY <1>1, <1>2 DEF N
  <1>4. diff \in Int
    BY <1>1, <1>3
  <1>5. take_spare(mine, iter) = <<[mine EXCEPT !.runtime = Wrap(@ + diff)],
                                   [iter EXCEPT !.runtime = Wrap(@ - diff)]>>
    BY DEF take_spare
  <1> HIDE DEF diff
  <1>6. Wrap(mine.runtime + diff) \in 0 .. MOD - 1 /\ Wrap(iter.runtime - diff) \in 0 .. MOD - 1
    BY <1>1, <1>4, WrapFacts
  <1> QED
    BY <1>5, <1>6 DEF RqType, SameButRuntime

\* Nothing wraps around and nothing gets lost, as long as the two have no more than
\* all CPUs together may have.
LEMMA TakeSpareKeeps ==
    ASSUME NEW mine \in RqType, NEW iter \in RqType, iter.time <= MAX_TIME,
           mine.runtime + iter.runtime <= N * PERIOD,
           Signed(Wrap(iter.runtime - iter.time)) > 0
    PROVE  LET after == take_spare(mine, iter) IN
           /\ after[1].runtime \in 0 .. N * PERIOD /\ after[2].runtime \in 0 .. N * PERIOD
           /\ after[1].runtime + after[2].runtime = mine.runtime + iter.runtime
  <1> DEFINE m == mine.runtime
             x == iter.runtime
             spare == x - iter.time
             part == Wrap(spare) \div Cardinality(CPU)
             diff == IF Wrap(m + part) > PERIOD THEN PERIOD - m ELSE part
             B == N * PERIOD
  <1>1. /\ m \in Nat /\ x \in Nat /\ iter.time \in Nat /\ MOD \in Nat /\ B \in Nat
        /\ N \in Nat /\ N >= 1 /\ PERIOD \in Nat /\ PERIOD <= B /\ MAX_TIME \in Nat
        /\ 2 * B < MOD /\ B < MOD \div 2 /\ MAX_TIME < MOD \div 2 /\ 2 * MAX_TIME < MOD
    BY Sizes DEF RqType
  <1>2. take_spare(mine, iter) = <<[mine EXCEPT !.runtime = Wrap(@ + diff)],
                                   [iter EXCEPT !.runtime = Wrap(@ - diff)]>>
    BY DEF take_spare
  <1>3. /\ take_spare(mine, iter)[1].runtime = Wrap(m + diff)
        /\ take_spare(mine, iter)[2].runtime = Wrap(x - diff)
    BY <1>2 DEF RqType
  <1> HIDE DEF m, x, B
  <1>4. m + x <= B /\ iter.time <= MAX_TIME /\ Signed(Wrap(spare)) > 0 /\ spare \in Int
    BY <1>1 DEF m, x, B
  <1>5. spare > 0 /\ Wrap(spare) = spare
    <2>1. Wrap(spare) \in 0 .. MOD - 1
      BY <1>4, WrapFacts
    <2>2. CASE spare < 0
      <3>1. Wrap(spare) = spare + MOD /\ spare + MOD >= MOD \div 2
        BY <1>1, <1>4, <2>2, WrapFacts
      <3>2. Signed(Wrap(spare)) = Wrap(spare) - MOD
        BY <2>1, <3>1, SignedFacts
      <3> QED
        BY <1>1, <1>4, <2>2, <3>1, <3>2
    <2>3. CASE spare >= 0
      <3>1. spare \in 0 .. MOD - 1 /\ spare < MOD \div 2
        BY <1>1, <1>4, <2>3
      <3>2. Wrap(spare) = spare /\ Signed(spare) = spare
        BY <1>4, <3>1, WrapFacts, SignedFacts
      <3> QED
        BY <1>4, <2>3, <3>2
    <2> QED
      BY <1>4, <2>2, <2>3
  <1>6. part \in 0 .. x
    <2>1. spare \div N \in Nat /\ spare \div N <= spare
      BY <1>1, <1>4, <1>5
    <2>2. spare <= x
      BY <1>1
    <2>3. part = spare \div N
      BY <1>5 DEF N
    <2> QED
      BY <1>1, <2>1, <2>2, <2>3
  <1> HIDE DEF part
  <1>7. Wrap(m + part) = m + part
    BY <1>1, <1>4, <1>6, WrapFacts
  <1>8. diff \in Int /\ m + diff \in 0 .. B /\ x - diff \in 0 .. B
    BY <1>1, <1>4, <1>6, <1>7
  <1> HIDE DEF diff
  <1>9. Wrap(m + diff) = m + diff /\ Wrap(x - diff) = x - diff
    BY <1>1, <1>8, WrapFacts
  <1> QED
    BY <1>1, <1>3, <1>8, <1>9 DEF m, x, B

\* Facts about the CPUs that share, when nobody is leaving.
LEMMA SharingFacts ==
    ASSUME IInv, settled # "no", Share # INF
    PROVE  /\ Sharing \subseteq CPU /\ IsFiniteSet(Sharing)
           /\ Share \in 1 .. PERIOD /\ Cardinality(Sharing) \in 0 .. N
           /\ Share * Cardinality(Sharing) \in 0 .. N * PERIOD
           /\ \A c \in CPU : rt_rq[c].runtime \in Nat
  <1>1. Sharing \subseteq CPU /\ IsFiniteSet(CPU)
    BY BandwidthAssumption DEF Sharing
  <1>2. /\ IsFiniteSet(Sharing) /\ Cardinality(Sharing) <= N
        /\ Cardinality(Sharing) \in Nat /\ N \in Nat /\ PERIOD \in Nat
    BY <1>1, FS_Subset, FS_CardinalityType, Sizes DEF N
  <1>3. Share \in 1 .. PERIOD
    BY DEF IInv, LimitsValid, Valid, Share
  <1>4. /\ Share * Cardinality(Sharing) <= PERIOD * N
        /\ Share * Cardinality(Sharing) \in Nat
    BY <1>2, <1>3, ProductGrows
  <1>5. \A c \in CPU : rt_rq[c].runtime \in Nat
    <2>1. rt_rq \in [CPU -> RqType] /\ MOD \in Nat
      BY Typed, Sizes DEF IInv
    <2> QED
      BY <2>1 DEF RqType
  <1> QED
    BY <1>1, <1>2, <1>3, <1>4, <1>5

\* One round of the loop takes from one CPU what it gives to the other.
LEMMA BalanceStepInv ==
    ASSUME IInv, NEW a \in Actor, BalanceStep(a)
    PROVE  IInv'
  <1> DEFINE c == at[a].q
             i == Min(at[a].scan)
             lends == i # c /\ Finite(rt_rq[i])
                        /\ Signed(Wrap(rt_rq[i].runtime - rt_rq[i].time)) > 0
             after == take_spare(rt_rq[c], rt_rq[i])
  <1>1. /\ rt_rq \in [CPU -> RqType] /\ at \in [Actor -> AtType] /\ TIMER \in Actor
        /\ \A d \in CPU : d \in Actor /\ d # TIMER
        /\ \A d \in Actor : d # NONE
    BY Typed, Sizes DEF IInv, Actor
  <1>2. PICK rest \in SUBSET CPU :
        /\ at[a].pc = "bal"
        /\ rt_rq' = IF lends THEN [rt_rq EXCEPT ![c] = after[1], ![i] = after[2]] ELSE rt_rq
        /\ at' = [at EXCEPT ![a].scan = rest,
                            ![a].pc = IF rest = {} THEN AfterBalance(a) ELSE @]
        /\ rt_b_lock' = IF rest = {} THEN NONE ELSE a
        /\ timer' = timer /\ limit' = limit /\ sysctl' = sysctl
        /\ settled' = settled /\ unwatched' = unwatched
    <2> DEFINE full == lends /\ after[1].runtime = PERIOD
               rest == IF full THEN {} ELSE at[a].scan \ {i}
    <2>1. rest \in SUBSET CPU
      BY <1>1 DEF AtType
    <2>2. /\ at[a].pc = "bal"
          /\ rt_rq' = IF lends THEN [rt_rq EXCEPT ![c] = after[1], ![i] = after[2]] ELSE rt_rq
          /\ at' = [at EXCEPT ![a].scan = rest,
                              ![a].pc = IF rest = {} THEN AfterBalance(a) ELSE @]
          /\ rt_b_lock' = IF rest = {} THEN NONE ELSE a
          /\ timer' = timer /\ limit' = limit /\ sysctl' = sysctl
          /\ settled' = settled /\ unwatched' = unwatched
      BY DEF BalanceStep, others
    <2> QED
      BY <2>1, <2>2
  <1>3. c \in CPU /\ at[a].scan # {} /\ rt_b_lock = a /\ (a \in CPU => c = a)
    <2>1. at[TIMER].todo \subseteq CPU
      BY <1>1 DEF AtType
    <2>2. a \in CPU \/ a = TIMER
      BY DEF Actor
    <2> QED
      BY <1>1, <1>2, <2>1, <2>2 DEF IInv, ActorsExact
  <1>4. i \in CPU
    <2>1. at[a].scan \in SUBSET Nat /\ at[a].scan \subseteq CPU
      BY <1>1, BandwidthAssumption DEF AtType
    <2> QED
      BY <1>3, <2>1, MinFacts
  <1> HIDE DEF c, i
  <1>5. /\ \A b \in Actor : b # a => at'[b] = at[b]
        /\ at' \in [Actor -> AtType]
        /\ at'[a].pc = IF rest # {} THEN "bal" ELSE IF a = TIMER THEN "replenish" ELSE "exceeded"
        /\ at'[a].q = at[a].q /\ at'[a].scan = rest
        /\ at'[a].todo = at[a].todo /\ at'[a].idle = at[a].idle
    <2> DEFINE pc == IF rest = {} THEN AfterBalance(a) ELSE "bal"
    <2>1. /\ pc \in {"bal", "replenish", "exceeded"}
          /\ pc = IF rest # {} THEN "bal" ELSE IF a = TIMER THEN "replenish" ELSE "exceeded"
      BY DEF AfterBalance
    <2>2. at' = [at EXCEPT ![a].scan = rest, ![a].pc = pc]
      BY <1>1, <1>2 DEF AtType
    <2> HIDE DEF pc
    <2>3. at'[a] = [at[a] EXCEPT !.scan = rest, !.pc = pc] /\ at[a] \in AtType
      BY <1>1, <2>2
    <2>4. /\ at'[a] \in AtType /\ at'[a].pc = pc /\ at'[a].q = at[a].q
          /\ at'[a].scan = rest /\ at'[a].todo = at[a].todo /\ at'[a].idle = at[a].idle
      BY <2>1, <2>3 DEF AtType
    <2> QED
      BY <1>1, <2>1, <2>2, <2>4
  <1>6. /\ after[1] \in RqType /\ SameButRuntime(after[1], rt_rq[c])
        /\ after[2] \in RqType /\ SameButRuntime(after[2], rt_rq[i])
    BY <1>1, <1>3, <1>4, TakeSpareType
  <1> HIDE DEF after
  <1>7. /\ rt_rq' \in [CPU -> RqType]
        /\ \A d \in CPU : SameButRuntime(rt_rq'[d], rt_rq[d])
    BY <1>1, <1>2, <1>3, <1>4, <1>6 DEF SameButRuntime
  <1>8. TypeOK'
    <2>1. rt_b_lock' \in Actor \cup {NONE}
      BY <1>2
    <2> QED
      BY <1>2, <1>5, <1>7, <2>1 DEF IInv, TypeOK, RqType, AtType
  <1>9. \A b \in Actor : b # a => at[b].pc \notin {"bal", "reclaim", "disable"}
    BY <1>3 DEF IInv, ActorsExact
  <1>10. ActorsExact'
    <2>1. \A d \in CPU :
            /\ at'[d].pc \in {"idle", "bal_lock", "bal", "exceeded", "reclaim", "disable"}
            /\ at'[d].q = IF at'[d].pc = "idle" THEN NONE ELSE d
      BY <1>1, <1>2, <1>5 DEF IInv, ActorsExact
    <2>2. /\ at'[TIMER].pc \in {"idle", "timer", "bal_lock", "bal", "replenish"}
          /\ at'[TIMER].q = at[TIMER].q /\ at'[TIMER].todo = at[TIMER].todo
          /\ at'[TIMER].pc \in {"idle", "timer"} <=> at[TIMER].pc \in {"idle", "timer"}
          /\ timer' = "run" <=> at'[TIMER].pc # "idle"
      BY <1>1, <1>2, <1>5 DEF IInv, ActorsExact
    <2>3. at'[TIMER].pc \notin {"idle", "timer"} =>
            at'[TIMER].q \in at'[TIMER].todo /\ at'[at'[TIMER].q].pc = "idle"
      <3>1. at[TIMER].todo \subseteq CPU
        BY <1>1 DEF AtType
      <3> QED
        BY <1>1, <1>2, <1>5, <2>2, <3>1 DEF IInv, ActorsExact
    <2>4. \A b \in Actor :
            /\ at'[b].pc \in {"bal", "reclaim", "disable"} => rt_b_lock' = b
            /\ at'[b].pc \in {"bal", "reclaim"} => at'[b].scan # {}
      BY <1>1, <1>2, <1>5, <1>9
    <2> QED
      BY <2>1, <2>2, <2>3, <2>4 DEF IInv, ActorsExact
  <1>11. QueuesExact'
    <2>1. \A d \in CPU :
            /\ at'[d].pc # "idle" => at[d].pc # "idle"
            /\ at'[d].pc \in {"bal_lock", "bal", "exceeded"} =>
                 at[d].pc \in {"bal_lock", "bal", "exceeded"}
      BY <1>1, <1>2, <1>5
    <2>2. /\ at'[TIMER].q = at[TIMER].q
          /\ at'[TIMER].pc \in {"bal_lock", "bal", "replenish"} =>
               at[TIMER].pc \in {"bal_lock", "bal", "replenish"} /\ at[TIMER].q \in CPU
      <3>1. at[TIMER].todo \subseteq CPU
        BY <1>1 DEF AtType
      <3> QED
        BY <1>1, <1>2, <1>5, <3>1 DEF IInv, ActorsExact
    <2> QED
      BY <1>7, <2>1, <2>2 DEF IInv, QueuesExact, SameButRuntime
  <1>12. Watched'
    <2>1. at'[TIMER].idle = at[TIMER].idle /\ at'[TIMER].todo = at[TIMER].todo
      BY <1>1, <1>5
    <2> QED
      BY <1>2, <1>7, <2>1 DEF IInv, Watched, SameButRuntime
  <1>13. \A d \in CPU : ~ Leaving(d) /\ ~ Leaving(d)'
    BY <1>1, <1>2, <1>5, <1>9 DEF Leaving
  <1>14. LimitsValid'
    BY <1>2, <1>7, <1>13 DEF IInv, LimitsValid, SameButRuntime, Leaving
  <1>15. SharesExact'
    <2>1. CASE ~ lends
      <3>1. rt_rq' = rt_rq
        BY <1>2, <2>1
      <3> QED
        BY <1>2, <1>13, <3>1, SharesFrame DEF IInv
    <2>2. CASE lends /\ settled # "no"
      <3>1. /\ rt_rq'[c] = after[1] /\ rt_rq'[i] = after[2] /\ i # c
            /\ \A d \in CPU : d # c /\ d # i => rt_rq'[d] = rt_rq[d]
        BY <1>1, <1>2, <1>3, <1>4, <2>2
      <3>2. Share # INF /\ i \in Sharing
        BY <1>4, <2>2 DEF IInv, SharesExact, Sharing
      <3>3. c \in Sharing
        <4>1. rt_rq[c].online
          <5>1. CASE a \in CPU
            BY <1>2, <1>3, <5>1 DEF IInv, QueuesExact
          <5>2. CASE a = TIMER
            BY <1>2, <1>3, <5>2 DEF IInv, QueuesExact, c
          <5> QED
            BY <5>1, <5>2 DEF Actor
        <4> QED
          BY <1>3, <2>2, <3>2, <4>1 DEF IInv, SharesExact, Sharing
      <3>4. /\ IsFiniteSet(Sharing) /\ Sharing \subseteq CPU
            /\ \A d \in CPU : rt_rq[d].runtime \in Nat
            /\ Share * Cardinality(Sharing) \in 0 .. N * PERIOD /\ N * PERIOD \in Nat
            /\ N * PERIOD < INF
        <4>1. N * PERIOD < INF /\ N * PERIOD \in Nat
          BY Sizes
        <4> QED
          BY <2>2, <3>2, <4>1, SharingFacts
      <3>5. Total(rt_rq, Sharing) = Share * Cardinality(Sharing)
        BY <1>13, <2>2, <3>2 DEF IInv, SharesExact
      <3> DEFINE R == (Sharing \ {c}) \ {i}
      <3>6. /\ Total(rt_rq, Sharing) = rt_rq[c].runtime + rt_rq[i].runtime + Total(rt_rq, R)
            /\ Total(rt_rq, R) \in Nat
        <4>1. /\ Total(rt_rq, Sharing) = rt_rq[c].runtime + Total(rt_rq, Sharing \ {c})
          BY <3>3, <3>4, TotalSplit
        <4>2. IsFiniteSet(Sharing \ {c}) /\ i \in Sharing \ {c}
          BY <3>1, <3>2, <3>4, FS_RemoveElement
        <4>3. \A d \in Sharing \ {c} : rt_rq[d].runtime \in Nat
          BY <3>4
        <4>4. /\ Total(rt_rq, Sharing \ {c}) = rt_rq[i].runtime + Total(rt_rq, R)
              /\ Total(rt_rq, R) \in Nat
          BY <4>2, <4>3, TotalSplit
        <4> QED
          BY <1>3, <1>4, <3>4, <4>1, <4>4
      <3>7. /\ after[1].runtime \in 0 .. N * PERIOD /\ after[2].runtime \in 0 .. N * PERIOD
            /\ after[1].runtime + after[2].runtime = rt_rq[c].runtime + rt_rq[i].runtime
        <4>1. rt_rq[c].runtime + rt_rq[i].runtime <= N * PERIOD
          BY <1>3, <1>4, <3>4, <3>5, <3>6
        <4>2. rt_rq[i].time <= MAX_TIME
          BY <1>4 DEF IInv, QueuesExact
        <4> QED
          BY <1>1, <1>3, <1>4, <2>2, <4>1, <4>2, TakeSpareKeeps DEF after
      <3>8. /\ \A d \in CPU : Finite(rt_rq'[d]) <=> Finite(rt_rq[d])
            /\ Sharing' = Sharing
        <4>1. Finite(rt_rq'[c]) /\ Finite(rt_rq'[i])
          BY <3>1, <3>4, <3>7 DEF Finite
        <4>2. Finite(rt_rq[c]) /\ Finite(rt_rq[i])
          BY <3>2, <3>3 DEF Sharing
        <4> QED
          BY <3>1, <4>1, <4>2 DEF Sharing
      <3>9. Total(rt_rq', Sharing) = Total(rt_rq, Sharing)
        <4>1. \A d \in CPU : rt_rq'[d].runtime \in Nat
          BY <3>1, <3>4, <3>7
        <4>2. Total(rt_rq', Sharing) = rt_rq'[c].runtime + Total(rt_rq', Sharing \ {c})
          BY <3>3, <3>4, <4>1, TotalSplit
        <4>3. IsFiniteSet(Sharing \ {c}) /\ i \in Sharing \ {c}
          BY <3>1, <3>2, <3>4, FS_RemoveElement
        <4>4. \A d \in Sharing \ {c} : rt_rq'[d].runtime \in Nat
          BY <3>4, <4>1
        <4>5. Total(rt_rq', Sharing \ {c}) = rt_rq'[i].runtime + Total(rt_rq', R)
          BY <4>3, <4>4, TotalSplit
        <4>6. Total(rt_rq', R) = Total(rt_rq, R)
          <5>1. \A d \in R : rt_rq'[d].runtime = rt_rq[d].runtime
            BY <3>1, <3>4
          <5> QED
            BY <5>1, TotalSame
        <4> QED
          BY <1>3, <1>4, <3>1, <3>4, <3>6, <3>7, <4>2, <4>5, <4>6
      <3>10. Share' = Share
        BY <1>2 DEF Share
      <3>11. \A d \in CPU : rt_rq'[d].online = rt_rq[d].online
        BY <1>7 DEF SameButRuntime
      <3> QED
        BY <1>2, <1>13, <2>2, <3>5, <3>8, <3>9, <3>10, <3>11 DEF IInv, SharesExact
    <2>3. CASE settled = "no"
      BY <1>2, <2>3 DEF SharesExact
    <2> QED
      BY <2>1, <2>2, <2>3
  <1> QED
    BY <1>8, <1>10, <1>11, <1>12, <1>14, <1>15 DEF IInv

-----------------------------------------------------------------------------
(* sched_rt_period_timer() *)

LEMMA SmallerOfTwo ==
    ASSUME NEW m \in Nat, NEW n \in Nat
    PROVE  Min({m, n}) = IF m <= n THEN m ELSE n
  <1>1. {m, n} \in SUBSET Nat /\ {m, n} # {}
    OBVIOUS
  <1>2. Min({m, n}) \in {m, n} /\ \A y \in {m, n} : Min({m, n}) <= y
    BY <1>1, MinFacts
  <1> QED
    BY <1>2

\* What is replenished stays consistent, and is not throttled if nothing is left of
\* the time it had used.
LEMMA ReplenishFacts ==
    ASSUME NEW r \in RqType, NEW overrun \in Nat,
           r.queued <=> r.nr > 0 /\ ~ r.throttled,
           r.curr # r.queued => r.resched,
           r.throttled => r.time > 0
    PROVE  LET s == replenish(r, overrun) IN
           /\ s \in RqType /\ s.runtime = r.runtime /\ s.nr = r.nr /\ s.curr = r.curr
           /\ s.online = r.online /\ s.time <= r.time
           /\ s.throttled => r.throttled /\ s.time > 0
           /\ s.queued <=> s.nr > 0 /\ ~ s.throttled
           /\ s.curr # s.queued => s.resched
  <1> DEFINE refill == Refill(r, overrun)
             time == r.time - refill
             freed == r.throttled /\ time < r.runtime
             after == [r EXCEPT !.time = time, !.throttled = @ /\ ~ freed]
  <1>1. /\ r.time \in Nat /\ r.runtime \in Nat /\ r.nr \in Nat /\ overrun * r.runtime \in Int
        /\ r.throttled \in BOOLEAN /\ r.queued \in BOOLEAN /\ r.curr \in BOOLEAN
    BY Sizes DEF RqType
  <1>2. Wrap(overrun * r.runtime) \in Nat /\ (r.runtime = 0 => Wrap(overrun * r.runtime) = 0)
    <2>1. Wrap(overrun * r.runtime) \in 0 .. MOD - 1 /\ MOD \in Nat /\ 0 \in 0 .. MOD - 1
      BY <1>1, WrapFacts, Sizes
    <2>2. r.runtime = 0 => overrun * r.runtime = 0
      BY <1>1
    <2>3. Wrap(0) = 0
      BY <2>1, WrapFacts
    <2> QED
      BY <2>1, <2>2, <2>3
  <1>3. refill \in 0 .. r.time /\ (r.runtime = 0 => refill = 0)
    <2>1. refill = IF r.time <= Wrap(overrun * r.runtime) THEN r.time
                   ELSE Wrap(overrun * r.runtime)
      BY <1>1, <1>2, SmallerOfTwo DEF Refill
    <2> QED
      BY <1>1, <1>2, <2>1
  <1> HIDE DEF refill
  <1>4. time \in Nat /\ time <= r.time /\ (r.throttled /\ ~ freed => time > 0)
    BY <1>1, <1>3
  <1>5. replenish(r, overrun) = IF freed THEN sched_rt_rq_enqueue(after) ELSE after
    BY DEF replenish, refill
  <1> HIDE DEF time
  <1>6. CASE freed
    <2>1. /\ after \in RqType /\ after.time = time /\ after.runtime = r.runtime
          /\ after.nr = r.nr /\ after.curr = r.curr /\ after.online = r.online
          /\ ~ after.throttled /\ after.queued = r.queued /\ after.resched = r.resched
      BY <1>4, <1>6 DEF RqType
    <2> HIDE DEF after
    <2>2. CASE r.nr = 0
      <3>1. replenish(r, overrun) = after
        BY <1>5, <1>6, <2>1, <2>2 DEF sched_rt_rq_enqueue
      <3> QED
        BY <1>1, <1>4, <2>1, <2>2, <3>1
    <2>3. CASE r.nr # 0
      <3>1. replenish(r, overrun)
              = [after EXCEPT !.queued = @ \/ ~ after.throttled, !.resched = TRUE]
        BY <1>5, <1>6, <2>1, <2>3 DEF sched_rt_rq_enqueue
      <3>2. /\ replenish(r, overrun) \in RqType
            /\ replenish(r, overrun).queued /\ replenish(r, overrun).resched
            /\ replenish(r, overrun).throttled = after.throttled
            /\ replenish(r, overrun).time = time /\ replenish(r, overrun).runtime = r.runtime
            /\ replenish(r, overrun).nr = r.nr /\ replenish(r, overrun).curr = r.curr
            /\ replenish(r, overrun).online = r.online
        BY <2>1, <3>1 DEF RqType
      <3> QED
        BY <1>1, <1>4, <2>1, <2>3, <3>2
    <2> QED
      BY <2>2, <2>3
  <1>7. CASE ~ freed
    <2>1. /\ after \in RqType /\ after.time = time /\ after.runtime = r.runtime
          /\ after.nr = r.nr /\ after.curr = r.curr /\ after.online = r.online
          /\ after.throttled = r.throttled /\ after.queued = r.queued
          /\ after.resched = r.resched
      BY <1>1, <1>4, <1>7 DEF RqType
    <2>2. replenish(r, overrun) = after
      BY <1>5, <1>7
    <2> QED
      BY <1>1, <1>4, <1>7, <2>1, <2>2
  <1> QED
    BY <1>6, <1>7

LEMMA TimerFiresInv ==
    ASSUME IInv, NEW overrun \in 1 .. MAX_OVERRUN, TimerFires(overrun)
    PROVE  IInv'
  <1> DEFINE f == [Idle EXCEPT !.pc = "timer", !.todo = CPU, !.overrun = overrun]
  <1>1. /\ at \in [Actor -> AtType] /\ TIMER \in Actor /\ overrun \in Nat
        /\ \A d \in CPU : d \in Actor /\ d # TIMER
    BY Typed, Sizes, BandwidthAssumption DEF IInv, Actor
  <1>2. /\ timer' = "run" /\ at' = [at EXCEPT ![TIMER] = f]
        /\ rt_rq' = rt_rq /\ rt_b_lock' = rt_b_lock /\ limit' = limit /\ sysctl' = sysctl
        /\ settled' = settled /\ unwatched' = unwatched
        /\ timer = "on" \/ (timer = "run" /\ at[TIMER].pc = "timer" /\ at[TIMER].todo = {})
    BY DEF TimerFires, others
  <1>3. f \in AtType /\ f.pc = "timer" /\ f.todo = CPU /\ f.q = NONE /\ f.idle
    <2>1. Idle \in AtType /\ Idle.q = NONE /\ Idle.idle
      BY Sizes DEF Idle, AtType
    <2> QED
      BY <1>1, <2>1 DEF AtType
  <1> HIDE DEF f
  <1>4. /\ at' \in [Actor -> AtType] /\ at'[TIMER] = f
        /\ \A b \in Actor : b # TIMER => at'[b] = at[b]
        /\ \A d \in CPU : at'[d] = at[d]
    BY <1>1, <1>2, <1>3
  <1>5. TypeOK'
    BY <1>2, <1>4 DEF IInv, TypeOK, AtType
  <1>6. ActorsExact'
    BY <1>1, <1>2, <1>3, <1>4 DEF IInv, ActorsExact
  <1>7. QueuesExact'
    BY <1>1, <1>2, <1>3, <1>4 DEF IInv, QueuesExact
  <1>8. Watched'
    BY <1>2, <1>3, <1>4 DEF IInv, Watched
  <1>9. LimitsValid'
    BY <1>2, <1>4 DEF IInv, LimitsValid
  <1>10. SharesExact'
    BY <1>2, <1>4, SharesFrame DEF IInv, Leaving
  <1> QED
    BY <1>5, <1>6, <1>7, <1>8, <1>9, <1>10 DEF IInv

\* The handler has finished with a queue.  If that had tasks, or is still throttled,
\* the handler knows that it has to run again.
LEMMA TimerVisitedInv ==
    ASSUME IInv, NEW c \in CPU, NEW r \in RqType, NEW busy \in BOOLEAN,
           c \in at[TIMER].todo, at[c].pc = "idle",
           at[TIMER].pc = "timer" \/ (at[TIMER].pc = "replenish" /\ at[TIMER].q = c),
           r.runtime = rt_rq[c].runtime, r.nr = rt_rq[c].nr, r.curr = rt_rq[c].curr,
           r.online = rt_rq[c].online, r.time <= rt_rq[c].time,
           r.throttled => rt_rq[c].throttled /\ r.time > 0,
           r.queued <=> r.nr > 0 /\ ~ r.throttled,
           r.curr # r.queued => r.resched,
           ~ busy => r.nr = 0 /\ ~ r.throttled,
           TimerVisited(c, r, busy)
    PROVE  IInv'
  <1>1. /\ rt_rq \in [CPU -> RqType] /\ at \in [Actor -> AtType] /\ TIMER \in Actor
        /\ \A d \in CPU : d \in Actor /\ d # TIMER
    BY Typed, Sizes DEF IInv, Actor
  <1>2. /\ rt_rq' = [rt_rq EXCEPT ![c] = r]
        /\ at' = [at EXCEPT ![TIMER].pc = "timer", ![TIMER].q = NONE,
                            ![TIMER].todo = @ \ {c}, ![TIMER].idle = @ /\ ~ busy,
                            ![TIMER].throttled = @ \/ r.throttled]
        /\ rt_b_lock' = rt_b_lock /\ timer' = timer /\ limit' = limit /\ sysctl' = sysctl
        /\ settled' = settled /\ unwatched' = unwatched
    BY DEF TimerVisited, others
  <1> DEFINE f == [at[TIMER] EXCEPT !.pc = "timer", !.q = NONE,
                     !.todo = @ \ {c}, !.idle = @ /\ ~ busy, !.throttled = @ \/ r.throttled]
  <1>3. at[TIMER] \in AtType /\ at' = [at EXCEPT ![TIMER] = f]
    BY <1>1, <1>2
  <1>4. /\ f \in AtType /\ f.pc = "timer" /\ f.q = NONE /\ f.todo = at[TIMER].todo \ {c}
        /\ f.idle <=> at[TIMER].idle /\ ~ busy
    BY <1>3 DEF AtType
  <1> HIDE DEF f
  <1>5. /\ at' \in [Actor -> AtType] /\ at'[TIMER] = f
        /\ \A b \in Actor : b # TIMER => at'[b] = at[b]
        /\ \A d \in CPU : at'[d] = at[d]
    BY <1>1, <1>3, <1>4
  <1>6. /\ rt_rq' \in [CPU -> RqType] /\ rt_rq'[c] = r
        /\ \A d \in CPU : d # c => rt_rq'[d] = rt_rq[d]
    BY <1>1, <1>2
  <1>7. TypeOK'
    BY <1>2, <1>5, <1>6 DEF IInv, TypeOK, RqType, AtType
  <1>8. ActorsExact'
    BY <1>1, <1>2, <1>4, <1>5, ZenonT(60) DEF IInv, ActorsExact
  <1>9. QueuesExact'
    <2>1. r.time <= MAX_TIME
      BY <1>1, Sizes DEF IInv, QueuesExact, RqType
    <2>2. /\ r.curr => r.nr > 0
          /\ ~ r.online => r.nr = 0 /\ ~ r.throttled
      BY DEF IInv, QueuesExact
    <2> QED
      BY <1>4, <1>5, <1>6, <2>1, <2>2 DEF IInv, QueuesExact
  <1>10. Watched'
    <2>1. timer = "run"
      BY DEF IInv, ActorsExact
    <2>2. \A d \in CPU : d # c => (d \in f.todo <=> d \in at[TIMER].todo)
      BY <1>4
    <2>3. r.nr > 0 \/ r.throttled => ~ f.idle
      BY <1>4
    <2> QED
      BY <1>2, <1>4, <1>5, <1>6, <2>1, <2>2, <2>3 DEF IInv, Watched
  <1>11. LimitsValid'
    BY <1>2, <1>5, <1>6 DEF IInv, LimitsValid
  <1>12. SharesExact'
    BY <1>2, <1>5, <1>6, SharesFrame DEF IInv, Leaving
  <1> QED
    BY <1>7, <1>8, <1>9, <1>10, <1>11, <1>12 DEF IInv

LEMMA TimerVisitInv ==
    ASSUME IInv, TimerVisit
    PROVE  IInv'
  <1> DEFINE c == Min(at[TIMER].todo)
             r == rt_rq[c]
             after == replenish(r, at[TIMER].overrun)
             woken == IF r.throttled THEN r ELSE sched_rt_rq_enqueue(r)
  <1>1. /\ rt_rq \in [CPU -> RqType] /\ at \in [Actor -> AtType] /\ TIMER \in Actor
        /\ \A d \in CPU : d \in Actor /\ d # TIMER
        /\ at[TIMER].todo \subseteq CPU /\ at[TIMER].overrun \in Nat
        /\ at[TIMER].todo \in SUBSET Nat
    BY Typed, Sizes, BandwidthAssumption DEF IInv, Actor, AtType
  <1>2. /\ at[TIMER].pc = "timer" /\ at[TIMER].todo # {} /\ RqFree(c)
        /\ \/ /\ r.time > 0 /\ r.throttled /\ r.time > r.runtime
              /\ at' = [at EXCEPT ![TIMER].pc = "bal_lock", ![TIMER].q = c]
              /\ UNCHANGED <<rt_rq, rt_b_lock, timer, others>>
           \/ TimerVisited(c, after, after.time > 0 \/ r.nr > 0)
           \/ r.time = 0 /\ TimerVisited(c, woken, r.nr > 0)
    BY DEF TimerVisit
  <1>3. c \in at[TIMER].todo /\ c \in CPU /\ r \in RqType
    BY <1>1, <1>2, MinFacts
  <1> HIDE DEF c
  <1>4. at[c].pc = "idle"
    BY <1>1, <1>2, <1>3 DEF IInv, ActorsExact, RqFree
  <1>5. /\ r.queued <=> r.nr > 0 /\ ~ r.throttled
        /\ r.curr # r.queued => r.resched
        /\ r.throttled => r.time > 0
        /\ r.nr \in Nat /\ r.time \in Nat
    BY <1>3, Sizes DEF IInv, QueuesExact, RqType
  <1>6. ASSUME at' = [at EXCEPT ![TIMER].pc = "bal_lock", ![TIMER].q = c], r.throttled,
               UNCHANGED <<rt_rq, rt_b_lock, timer, others>>
        PROVE  IInv'
    <2>1. /\ rt_rq' = rt_rq /\ rt_b_lock' = rt_b_lock /\ timer' = timer /\ limit' = limit
          /\ sysctl' = sysctl /\ settled' = settled /\ unwatched' = unwatched
      BY <1>6 DEF others
    <2>2. /\ at' \in [Actor -> AtType]
          /\ at'[TIMER].pc = "bal_lock" /\ at'[TIMER].q = c
          /\ at'[TIMER].todo = at[TIMER].todo /\ at'[TIMER].idle = at[TIMER].idle
          /\ \A b \in Actor : b # TIMER => at'[b] = at[b]
          /\ \A d \in CPU : at'[d] = at[d]
      <3> DEFINE f == [at[TIMER] EXCEPT !.pc = "bal_lock", !.q = c]
      <3>1. at[TIMER] \in AtType /\ at' = [at EXCEPT ![TIMER] = f]
        BY <1>1, <1>6
      <3>2. /\ f \in AtType /\ f.pc = "bal_lock" /\ f.q = c
            /\ f.todo = at[TIMER].todo /\ f.idle = at[TIMER].idle
        BY <1>3, <3>1 DEF AtType
      <3> HIDE DEF f
      <3> QED
        BY <1>1, <3>1, <3>2
    <2>3. TypeOK'
      BY <2>1, <2>2 DEF IInv, TypeOK, AtType
    <2>4. ActorsExact'
      <3>1. at[TIMER].pc = "timer" /\ timer' = "run"
        BY <1>2, <2>1 DEF IInv, ActorsExact
      <3>2. c \in at'[TIMER].todo /\ at'[c].pc = "idle"
        BY <1>3, <1>4, <2>2
      <3> QED
        BY <1>1, <2>1, <2>2, <3>1, <3>2 DEF IInv, ActorsExact
    <2>5. QueuesExact'
      BY <1>3, <1>6, <2>1, <2>2 DEF IInv, QueuesExact
    <2>6. Watched'
      BY <2>1, <2>2 DEF IInv, Watched
    <2>7. LimitsValid'
      BY <2>1, <2>2 DEF IInv, LimitsValid
    <2>8. SharesExact'
      BY <2>1, <2>2, SharesFrame DEF IInv, Leaving
    <2> QED
      BY <2>3, <2>4, <2>5, <2>6, <2>7, <2>8 DEF IInv
  <1>7. ASSUME TimerVisited(c, after, after.time > 0 \/ r.nr > 0) PROVE IInv'
    <2>1. /\ after \in RqType /\ after.runtime = r.runtime /\ after.nr = r.nr
          /\ after.curr = r.curr /\ after.online = r.online /\ after.time <= r.time
          /\ after.throttled => r.throttled /\ after.time > 0
          /\ after.queued <=> after.nr > 0 /\ ~ after.throttled
          /\ after.curr # after.queued => after.resched
      BY <1>1, <1>3, <1>5, ReplenishFacts
    <2> HIDE DEF after
    <2> DEFINE busy == after.time > 0 \/ r.nr > 0
    <2>2. busy \in BOOLEAN /\ (~ busy => after.nr = 0 /\ ~ after.throttled)
      BY <1>5, <2>1
    <2> HIDE DEF busy
    <2>3. TimerVisited(c, after, busy)
      BY <1>7 DEF busy
    <2> QED
      BY <1>2, <1>3, <1>4, <2>1, <2>2, <2>3, TimerVisitedInv
  <1>8. ASSUME TimerVisited(c, woken, r.nr > 0), r.time = 0 PROVE IInv'
    <2>1. ~ r.throttled /\ woken = sched_rt_rq_enqueue(r)
      BY <1>5, <1>8
    <2>2. /\ woken \in RqType /\ woken.runtime = r.runtime /\ woken.nr = r.nr
          /\ woken.curr = r.curr /\ woken.online = r.online /\ woken.time = r.time
          /\ woken.throttled = r.throttled
          /\ woken.queued <=> woken.nr > 0 /\ ~ woken.throttled
          /\ woken.curr # woken.queued => woken.resched
      <3>1. CASE r.nr = 0
        BY <1>3, <1>5, <2>1, <3>1 DEF sched_rt_rq_enqueue
      <3>2. CASE r.nr # 0
        <4>1. woken = [r EXCEPT !.queued = @ \/ ~ r.throttled, !.resched = TRUE]
          BY <2>1, <3>2 DEF sched_rt_rq_enqueue
        <4> HIDE DEF woken
        <4>2. /\ woken \in RqType /\ woken.runtime = r.runtime /\ woken.nr = r.nr
              /\ woken.curr = r.curr /\ woken.online = r.online /\ woken.time = r.time
              /\ woken.throttled = r.throttled /\ woken.queued /\ woken.resched
          BY <1>3, <2>1, <4>1 DEF RqType
        <4> QED
          BY <1>5, <2>1, <3>2, <4>2
      <3> QED
        BY <3>1, <3>2
    <2> HIDE DEF woken
    <2> DEFINE busy == r.nr > 0
    <2>3. busy \in BOOLEAN /\ (~ busy => woken.nr = 0 /\ ~ woken.throttled)
      BY <1>5, <2>1, <2>2
    <2>4. woken.time <= r.time /\ (woken.throttled => r.throttled /\ woken.time > 0)
      BY <1>5, <2>1, <2>2
    <2> HIDE DEF busy
    <2>5. TimerVisited(c, woken, busy)
      BY <1>8 DEF busy
    <2> QED
      BY <1>2, <1>3, <1>4, <2>2, <2>3, <2>4, <2>5, TimerVisitedInv
  <1> QED
    BY <1>2, <1>6, <1>7, <1>8

LEMMA TimerReplenishInv ==
    ASSUME IInv, TimerReplenish
    PROVE  IInv'
  <1> DEFINE c == at[TIMER].q
             r == rt_rq[c]
             after == replenish(r, at[TIMER].overrun)
             busy == after.time > 0 \/ after.nr > 0
  <1>1. /\ rt_rq \in [CPU -> RqType] /\ at[TIMER].todo \subseteq CPU /\ at[TIMER].overrun \in Nat
    BY Typed, Sizes DEF IInv, Actor, AtType
  <1>2. at[TIMER].pc = "replenish" /\ TimerVisited(c, after, busy)
    BY DEF TimerReplenish
  <1>3. c \in at[TIMER].todo /\ c \in CPU /\ r \in RqType /\ at[c].pc = "idle"
    BY <1>1, <1>2 DEF IInv, ActorsExact
  <1>4. /\ r.queued <=> r.nr > 0 /\ ~ r.throttled
        /\ r.curr # r.queued => r.resched
        /\ r.throttled => r.time > 0
        /\ r.nr \in Nat
    BY <1>3, Sizes DEF IInv, QueuesExact, RqType
  <1>5. /\ after \in RqType /\ after.runtime = r.runtime /\ after.nr = r.nr
        /\ after.curr = r.curr /\ after.online = r.online /\ after.time <= r.time
        /\ after.throttled => r.throttled /\ after.time > 0
        /\ after.queued <=> after.nr > 0 /\ ~ after.throttled
        /\ after.curr # after.queued => after.resched
    BY <1>1, <1>3, <1>4, ReplenishFacts
  <1> HIDE DEF after
  <1>6. busy \in BOOLEAN /\ (~ busy => after.nr = 0 /\ ~ after.throttled)
    BY <1>4, <1>5
  <1> HIDE DEF busy
  <1> QED
    BY <1>2, <1>3, <1>5, <1>6, TimerVisitedInv

\* The handler stops the timer only when it has left nothing behind, or says so.
LEMMA TimerReturnsInv ==
    ASSUME IInv, TimerReturns
    PROVE  IInv'
  <1> DEFINE f == at[TIMER]
             unwanted == ~ f.throttled /\ (~ rt_bandwidth_enabled \/ limit = INF)
  <1>1. /\ at \in [Actor -> AtType] /\ TIMER \in Actor /\ Idle \in AtType
        /\ \A d \in CPU : d \in Actor /\ d # TIMER
        /\ unwatched \in BOOLEAN
    BY Typed, Sizes DEF IInv, Actor, Idle, AtType
  <1>2. /\ f.pc = "timer" /\ f.todo = {} /\ at' = [at EXCEPT ![TIMER] = Idle]
        /\ timer' = IF f.idle \/ unwanted THEN "off" ELSE "on"
        /\ unwatched' = (timer' = "off" /\ (unwatched \/ unwanted))
        /\ rt_rq' = rt_rq /\ rt_b_lock' = rt_b_lock /\ limit' = limit /\ sysctl' = sysctl
        /\ settled' = settled
    BY DEF TimerReturns
  <1> HIDE DEF unwanted
  <1>3. /\ at' \in [Actor -> AtType] /\ at'[TIMER].pc = "idle" /\ at'[TIMER].q = NONE
        /\ \A b \in Actor : b # TIMER => at'[b] = at[b]
        /\ \A d \in CPU : at'[d] = at[d]
    BY <1>1, <1>2 DEF Idle
  <1>4. unwatched' \in BOOLEAN /\ timer' \in {"on", "off"}
    BY <1>2
  <1>5. TypeOK'
    BY <1>2, <1>3, <1>4 DEF IInv, TypeOK, AtType
  <1>6. ActorsExact'
    BY <1>1, <1>2, <1>3, <1>4 DEF IInv, ActorsExact
  <1>7. QueuesExact'
    BY <1>2, <1>3 DEF IInv, QueuesExact
  <1>8. Watched'
    <2>1. timer = "run"
      BY <1>2 DEF IInv, ActorsExact
    <2>2. CASE timer' = "on"
      BY <2>2 DEF Watched
    <2>3. CASE timer' = "off" /\ unwanted
      BY <1>2, <2>3 DEF Watched
    <2>4. CASE timer' = "off" /\ f.idle
      BY <1>2, <2>1, <2>4 DEF IInv, Watched
    <2> QED
      BY <1>2, <2>2, <2>3, <2>4
  <1>9. LimitsValid'
    BY <1>2, <1>3 DEF IInv, LimitsValid
  <1>10. SharesExact'
    BY <1>2, <1>3, SharesFrame DEF IInv, Leaving
  <1> QED
    BY <1>5, <1>6, <1>7, <1>8, <1>9, <1>10 DEF IInv

-----------------------------------------------------------------------------
(* CPUs come and go *)

\* What a CPU that leaves wants back is what it lent, or minus what it borrowed.
LEMMA WantExact ==
    ASSUME NEW n \in 0 .. N * PERIOD, NEW m \in 0 .. N * PERIOD
    PROVE  Signed(Wrap(n - m)) = n - m
  <1>1. /\ MOD \in Nat /\ N * PERIOD \in Nat /\ 2 * (N * PERIOD) < MOD
        /\ N * PERIOD < MOD \div 2
    BY Sizes
  <1> DEFINE d == n - m
  <1>2. d \in Int /\ d <= N * PERIOD /\ d >= -(N * PERIOD)
    BY <1>1
  <1> HIDE DEF d
  <1>3. CASE d >= 0
    <2>1. Wrap(d) = d /\ d \in 0 .. MOD - 1 /\ d < MOD \div 2
      BY <1>1, <1>2, <1>3, WrapFacts
    <2> QED
      BY <2>1, SignedFacts DEF d
  <1>4. CASE d < 0
    <2>1. Wrap(d) = d + MOD /\ d + MOD \in 0 .. MOD - 1 /\ d + MOD >= MOD \div 2
      BY <1>1, <1>2, <1>4, WrapFacts
    <2>2. Signed(d + MOD) = (d + MOD) - MOD
      BY <2>1, SignedFacts
    <2> QED
      BY <1>1, <1>2, <2>1, <2>2 DEF d
  <1> QED
    BY <1>2, <1>3, <1>4

\* Each share is a part of the total.
LEMMA PartOfTotal ==
    ASSUME NEW S, IsFiniteSet(S), NEW rqs, \A c \in S : rqs[c].runtime \in Nat,
           NEW c \in S
    PROVE  rqs[c].runtime <= Total(rqs, S)
  <1>1. Total(rqs, S) = rqs[c].runtime + Total(rqs, S \ {c}) /\ Total(rqs, S \ {c}) \in Nat
    BY TotalSplit
  <1> QED
    BY <1>1

\* One CPU less has its share less.
LEMMA ProductLess ==
    ASSUME NEW S, IsFiniteSet(S), NEW c \in S, NEW n \in Nat
    PROVE  /\ IsFiniteSet(S \ {c}) /\ Cardinality(S \ {c}) \in Nat
           /\ n * Cardinality(S) = n * Cardinality(S \ {c}) + n
           /\ n * Cardinality(S \ {c}) \in Nat
  <1>1. /\ IsFiniteSet(S \ {c}) /\ Cardinality(S \ {c}) = Cardinality(S) - 1
        /\ Cardinality(S) \in Nat /\ Cardinality(S \ {c}) \in Nat
    BY FS_RemoveElement, FS_CardinalityType
  <1> DEFINE k == Cardinality(S \ {c})
  <1>2. k \in Nat /\ Cardinality(S) = k + 1
    BY <1>1
  <1> HIDE DEF k
  <1>3. n * (k + 1) = n * k + n /\ n * k \in Nat
    BY <1>2
  <1> QED
    BY <1>1, <1>2, <1>3 DEF k

LEMMA GoOfflineInv ==
    ASSUME IInv, NEW c \in CPU, GoOffline(c)
    PROVE  IInv'
  <1> DEFINE want == IF unbalanced(c) THEN Signed(Wrap(limit - rt_rq[c].runtime)) ELSE 0
             pc == IF unbalanced(c) THEN "reclaim" ELSE "disable"
             f == [at[c] EXCEPT !.q = c, !.scan = CPU, !.want = want, !.pc = pc]
  <1>1. /\ rt_rq \in [CPU -> RqType] /\ at \in [Actor -> AtType] /\ TIMER \in Actor
        /\ at[c] \in AtType /\ c \in Actor /\ limit \in 0 .. MOD - 1
        /\ \A d \in CPU : d \in Actor /\ d # TIMER
        /\ \A d \in Actor : d # NONE
    BY Typed, Sizes DEF IInv, Actor
  <1>2. /\ rt_rq[c].online /\ RqFree(c) /\ rt_b_lock = NONE /\ rt_b_lock' = c
        /\ at' = [at EXCEPT ![c] = f]
        /\ settled' = IF settled = "pending" THEN "no" ELSE settled
        /\ rt_rq' = rt_rq /\ timer' = timer /\ limit' = limit /\ sysctl' = sysctl
        /\ unwatched' = unwatched
    BY <1>1 DEF GoOffline, Unsettle
  <1>3. want \in Int /\ pc \in {"reclaim", "disable"}
    <2>1. limit - rt_rq[c].runtime \in Int
      BY <1>1, Sizes DEF RqType
    <2> QED
      BY <2>1, WrapFacts, SignedFacts
  <1> HIDE DEF want, pc
  <1>4. f \in AtType /\ f.q = c /\ f.scan = CPU /\ f.want = want /\ f.pc = pc
    BY <1>1, <1>3 DEF AtType
  <1> HIDE DEF f
  <1>5. /\ at' \in [Actor -> AtType] /\ at'[c] = f /\ at'[TIMER] = at[TIMER]
        /\ \A b \in Actor : b # c => at'[b] = at[b]
        /\ \A d \in CPU : d # c => at'[d] = at[d]
    BY <1>1, <1>2, <1>4
  <1>6. /\ at[c].pc = "idle" /\ at[TIMER].q # c
        /\ \A b \in Actor : at[b].pc \notin {"bal", "reclaim", "disable"}
    BY <1>1, <1>2 DEF IInv, ActorsExact, RqFree
  <1>7. TypeOK'
    <2>1. settled' \in {"yes", "no", "pending"}
      BY <1>2 DEF IInv, TypeOK
    <2> QED
      BY <1>1, <1>2, <1>5, <2>1 DEF IInv, TypeOK, AtType
  <1>8. ActorsExact'
    <2>1. \A d \in CPU :
            /\ at'[d].pc \in {"idle", "bal_lock", "bal", "exceeded", "reclaim", "disable"}
            /\ at'[d].q = IF at'[d].pc = "idle" THEN NONE ELSE d
      BY <1>3, <1>4, <1>5 DEF IInv, ActorsExact
    <2>2. IF at'[TIMER].pc \in {"idle", "timer"} THEN at'[TIMER].q = NONE
          ELSE at'[TIMER].q \in at'[TIMER].todo /\ at'[at'[TIMER].q].pc = "idle"
      <3>1. at[TIMER].todo \subseteq CPU
        BY <1>1 DEF AtType
      <3> QED
        BY <1>1, <1>5, <1>6, <3>1 DEF IInv, ActorsExact
    <2>3. \A b \in Actor :
            /\ at'[b].pc \in {"bal", "reclaim", "disable"} => rt_b_lock' = b
            /\ at'[b].pc \in {"bal", "reclaim"} => at'[b].scan # {}
      BY <1>1, <1>2, <1>4, <1>5, <1>6
    <2> QED
      BY <1>2, <1>5, <2>1, <2>2, <2>3 DEF IInv, ActorsExact
  <1>9. QueuesExact'
    BY <1>2, <1>3, <1>4, <1>5 DEF IInv, QueuesExact
  <1>10. Watched'
    BY <1>2, <1>5 DEF IInv, Watched
  <1>11. LimitsValid'
    BY <1>2 DEF IInv, LimitsValid
  <1>12. SharesExact'
    <2> SUFFICES ASSUME settled = "yes" PROVE SharesExact'
      BY <1>2 DEF IInv, TypeOK, SharesExact
    <2>1. settled' = "yes" /\ Share = limit /\ Share' = limit /\ Sharing' = Sharing
      BY <1>2 DEF Share, Sharing
    <2>2. \A d \in CPU : ~ Leaving(d)
      BY <1>1, <1>6 DEF Leaving
    <2>3. \A d \in CPU : Leaving(d)' <=> d = c
      BY <1>3, <1>4, <1>5, <2>2 DEF Leaving
    <2>4. \A d \in CPU : Finite(rt_rq[d]) <=> rt_rq[d].online /\ limit # INF
      BY <2>1 DEF IInv, SharesExact
    <2>5. /\ limit # INF => Total(rt_rq, Sharing \ {c})
                              = limit * Cardinality(Sharing \ {c}) + want
          /\ pc = "disable" <=> want = 0
          /\ want # 0 => limit # INF
      <3>1. CASE limit = INF
        <4>1. ~ unbalanced(c)
          BY <2>4, <3>1 DEF unbalanced
        <4> QED
          BY <3>1, <4>1 DEF want, pc
      <3>2. CASE limit # INF
        <4> DEFINE m == rt_rq[c].runtime
                   T == Total(rt_rq, Sharing \ {c})
                   P == limit * Cardinality(Sharing \ {c})
                   B == N * PERIOD
        <4>1. /\ Sharing \subseteq CPU /\ IsFiniteSet(Sharing) /\ limit \in 1 .. PERIOD
              /\ limit * Cardinality(Sharing) \in 0 .. B
              /\ \A d \in Sharing : rt_rq[d].runtime \in Nat
          BY <2>1, <3>2, SharingFacts
        <4>2. c \in Sharing /\ Total(rt_rq, Sharing) = limit * Cardinality(Sharing)
          BY <1>2, <2>1, <2>2, <2>4, <3>2 DEF IInv, SharesExact, Sharing
        <4>3. /\ limit * Cardinality(Sharing) = P + limit /\ P \in Nat
              /\ Total(rt_rq, Sharing) = m + T /\ T \in Nat /\ m \in Nat
          <5>1. limit \in Nat
            BY <4>1, Sizes
          <5>2. limit * Cardinality(Sharing) = P + limit /\ P \in Nat
            BY <4>1, <4>2, <5>1, ProductLess
          <5>3. Total(rt_rq, Sharing) = m + T /\ T \in Nat /\ m \in Nat
            BY <4>1, <4>2, TotalSplit
          <5> QED
            BY <5>2, <5>3
        <4>4. B \in Nat /\ PERIOD <= B /\ PERIOD \in Nat
          BY Sizes
        <4> HIDE DEF m, T, P, B
        <4>5. m \in 0 .. B /\ limit \in 0 .. B /\ T = P + (limit - m)
          BY <4>1, <4>2, <4>3, <4>4
        <4>6. Signed(Wrap(limit - m)) = limit - m
          BY <4>5, WantExact DEF B
        <4>7. unbalanced(c) <=> m # limit
          BY <1>2, <2>4, <3>2 DEF unbalanced, m
        <4>8. CASE m = limit
          BY <3>2, <4>1, <4>3, <4>5, <4>7, <4>8 DEF want, pc, T, P
        <4>9. CASE m # limit
          <5>1. want = limit - m /\ pc = "reclaim"
            BY <4>6, <4>7, <4>9 DEF want, pc, m
          <5> QED
            BY <3>2, <4>1, <4>3, <4>5, <4>9, <5>1 DEF T, P
        <4> QED
          BY <4>8, <4>9
      <3> QED
        BY <3>1, <3>2
    <2>6. Sharing \subseteq CPU
      BY DEF Sharing
    <2> QED
      BY <1>2, <1>4, <1>5, <2>1, <2>3, <2>4, <2>5, <2>6 DEF SharesExact
  <1> QED
    BY <1>7, <1>8, <1>9, <1>10, <1>11, <1>12 DEF IInv

\* What a CPU that leaves has asked of one more CPU is what that CPU has less.
LEMMA ReclaimStep ==
    ASSUME NEW S, IsFiniteSet(S), NEW i \in S, NEW rqs, NEW rqs2, NEW diff \in Int,
           \A d \in S : rqs[d].runtime \in Nat,
           \A d \in S : d # i => rqs2[d].runtime = rqs[d].runtime,
           rqs2[i].runtime = rqs[i].runtime - diff, rqs2[i].runtime \in Nat
    PROVE  Total(rqs2, S) = Total(rqs, S) - diff
  <1>1. Total(rqs, S) = rqs[i].runtime + Total(rqs, S \ {i}) /\ Total(rqs, S \ {i}) \in Nat
    BY TotalSplit
  <1>2. Total(rqs2, S) = rqs2[i].runtime + Total(rqs2, S \ {i})
    BY TotalSplit
  <1>3. Total(rqs2, S \ {i}) = Total(rqs, S \ {i})
    BY TotalSame
  <1>4. rqs[i].runtime \in Nat
    OBVIOUS
  <1> QED
    BY <1>1, <1>2, <1>3, <1>4

LEMMA ReclaimInv ==
    ASSUME IInv, NEW c \in CPU, Reclaim(c)
    PROVE  IInv'
  <1> DEFINE i == Min(at[c].scan)
             skip == i = c \/ ~ Finite(rt_rq[i])
             diff == IF skip THEN 0 ELSE reclaimed(rt_rq[i], at[c].want)
             want == at[c].want - diff
             rest == IF want = 0 THEN {} ELSE at[c].scan \ {i}
             pc == IF rest = {} THEN "disable" ELSE "reclaim"
             f == [at[c] EXCEPT !.want = want, !.scan = rest, !.pc = pc]
  <1>1. /\ rt_rq \in [CPU -> RqType] /\ at \in [Actor -> AtType] /\ TIMER \in Actor
        /\ at[c] \in AtType /\ at[c].scan \subseteq CPU /\ at[c].want \in Int
        /\ at[c].scan \in SUBSET Nat
        /\ c \in Actor /\ limit \in 0 .. MOD - 1
        /\ \A d \in CPU : d \in Actor /\ d # TIMER
        /\ \A d \in Actor : d # NONE
    BY Typed, Sizes, BandwidthAssumption DEF IInv, Actor, AtType
  <1>2. /\ at[c].pc = "reclaim"
        /\ rt_rq' = IF skip THEN rt_rq ELSE [rt_rq EXCEPT ![i].runtime = Wrap(@ - diff)]
        /\ at' = [at EXCEPT ![c] = f]
        /\ rt_b_lock' = rt_b_lock /\ timer' = timer /\ limit' = limit /\ sysctl' = sysctl
        /\ settled' = settled /\ unwatched' = unwatched
    BY <1>1 DEF Reclaim, others
  <1>3. /\ at[c].q = c /\ rt_b_lock = c /\ at[c].scan # {}
        /\ \A b \in Actor : b # c => at[b].pc \notin {"bal", "reclaim", "disable"}
        /\ at[TIMER].pc \notin {"idle", "timer"} => at[TIMER].q \in CPU /\ at[TIMER].q # c
    <2>1. at[TIMER].todo \subseteq CPU
      BY <1>1 DEF AtType
    <2> QED
      BY <1>1, <1>2, <2>1 DEF IInv, ActorsExact
  <1>4. i \in at[c].scan /\ i \in CPU /\ rt_rq[i] \in RqType
    BY <1>1, <1>3, MinFacts
  <1> HIDE DEF i
  <1>5. rt_rq[i].runtime \in Nat /\ rt_rq[i].runtime < MOD /\ MOD \in Nat
    BY <1>4, Sizes DEF RqType
  <1>6. /\ skip => diff = 0
        /\ ~ skip /\ at[c].want <= 0 => diff = at[c].want
        /\ ~ skip /\ at[c].want > 0 =>
             /\ diff \in Nat /\ diff <= rt_rq[i].runtime /\ diff <= at[c].want
             /\ diff = rt_rq[i].runtime \/ diff = at[c].want
    <2>1. at[c].want > 0 => at[c].want \in Nat
      BY <1>1
    <2> QED
      BY <1>1, <1>5, <2>1, SmallerOfTwo DEF reclaimed
  <1>7. diff \in Int /\ want \in Int
    BY <1>1, <1>5, <1>6
  <1> HIDE DEF diff, want
  <1>8. rest \in SUBSET CPU /\ pc \in {"reclaim", "disable"} /\ (pc = "reclaim" => rest # {})
    BY <1>1
  <1> HIDE DEF rest, pc
  <1>9. /\ f \in AtType /\ f.q = c /\ f.scan = rest /\ f.want = want /\ f.pc = pc
    BY <1>1, <1>3, <1>7, <1>8 DEF AtType
  <1> HIDE DEF f
  <1>10. /\ at' \in [Actor -> AtType] /\ at'[c] = f /\ at'[TIMER] = at[TIMER]
         /\ \A b \in Actor : b # c => at'[b] = at[b]
         /\ \A d \in CPU : d # c => at'[d] = at[d]
    BY <1>1, <1>2, <1>9
  <1>11. /\ rt_rq' \in [CPU -> RqType]
         /\ \A d \in CPU : SameButRuntime(rt_rq'[d], rt_rq[d])
         /\ \A d \in CPU : d # i => rt_rq'[d] = rt_rq[d]
         /\ skip => rt_rq' = rt_rq
         /\ ~ skip => rt_rq'[i].runtime = Wrap(rt_rq[i].runtime - diff)
    <2>1. CASE skip
      BY <1>1, <1>2, <2>1 DEF SameButRuntime
    <2>2. CASE ~ skip
      <3> DEFINE r == [rt_rq[i] EXCEPT !.runtime = Wrap(rt_rq[i].runtime - diff)]
      <3>1. Wrap(rt_rq[i].runtime - diff) \in 0 .. MOD - 1
        BY <1>5, <1>7, WrapFacts
      <3>2. /\ r \in RqType /\ SameButRuntime(r, rt_rq[i])
            /\ r.runtime = Wrap(rt_rq[i].runtime - diff)
        BY <1>4, <3>1 DEF RqType, SameButRuntime
      <3>3. rt_rq' = [rt_rq EXCEPT ![i] = r]
        BY <1>2, <1>4, <1>1, <2>2
      <3> HIDE DEF r
      <3>4. /\ rt_rq' \in [CPU -> RqType] /\ rt_rq'[i] = r
            /\ \A d \in CPU : d # i => rt_rq'[d] = rt_rq[d]
        BY <1>1, <1>4, <3>2, <3>3
      <3>5. \A d \in CPU : SameButRuntime(rt_rq'[d], rt_rq[d])
        BY <3>2, <3>4 DEF SameButRuntime
      <3> QED
        BY <2>2, <3>2, <3>4, <3>5
    <2> QED
      BY <2>1, <2>2
  <1>12. TypeOK'
    BY <1>1, <1>2, <1>10, <1>11 DEF IInv, TypeOK, AtType, RqType
  <1>13. ActorsExact'
    <2>1. \A d \in CPU :
            /\ at'[d].pc \in {"idle", "bal_lock", "bal", "exceeded", "reclaim", "disable"}
            /\ at'[d].q = IF at'[d].pc = "idle" THEN NONE ELSE d
      BY <1>8, <1>9, <1>10 DEF IInv, ActorsExact
    <2>2. IF at'[TIMER].pc \in {"idle", "timer"} THEN at'[TIMER].q = NONE
          ELSE at'[TIMER].q \in at'[TIMER].todo /\ at'[at'[TIMER].q].pc = "idle"
      BY <1>3, <1>10 DEF IInv, ActorsExact
    <2>3. \A b \in Actor :
            /\ at'[b].pc \in {"bal", "reclaim", "disable"} => rt_b_lock' = b
            /\ at'[b].pc \in {"bal", "reclaim"} => at'[b].scan # {}
      BY <1>2, <1>3, <1>8, <1>9, <1>10
    <2> QED
      BY <1>2, <1>10, <2>1, <2>2, <2>3 DEF IInv, ActorsExact
  <1>14. QueuesExact'
    <2>1. rt_rq[c].online
      BY <1>2 DEF IInv, QueuesExact
    <2>2. at'[TIMER].pc \in {"bal_lock", "bal", "replenish"} => rt_rq'[at'[TIMER].q].throttled
      BY <1>3, <1>10, <1>11 DEF IInv, QueuesExact, SameButRuntime
    <2> QED
      BY <1>8, <1>9, <1>10, <1>11, <2>1, <2>2 DEF IInv, QueuesExact, SameButRuntime
  <1>15. Watched'
    BY <1>2, <1>10, <1>11 DEF IInv, Watched, SameButRuntime
  <1>16. LimitsValid'
    BY <1>2 DEF IInv, LimitsValid
  <1>17. SharesExact'
    <2> SUFFICES ASSUME settled = "yes" PROVE SharesExact'
      <3>1. settled # "pending"
        BY <1>2 DEF IInv, LimitsValid
      <3> QED
        BY <1>2, <3>1 DEF IInv, TypeOK, SharesExact
    <2> DEFINE S == Sharing \ {c}
               P == limit * Cardinality(S)
    <2>1. settled' = "yes" /\ Share = limit /\ Share' = limit
      BY <1>2 DEF Share
    <2>2. \A d \in CPU : (Leaving(d) <=> d = c) /\ (Leaving(d)' <=> d = c)
      BY <1>1, <1>2, <1>3, <1>8, <1>9, <1>10 DEF Leaving
    <2>3. /\ at[c].want # 0 /\ limit # INF
          /\ \A d \in CPU : Finite(rt_rq[d]) <=> rt_rq[d].online
          /\ Total(rt_rq, S) = P + at[c].want
          /\ at[c].want > 0 => \A j \in S : j \notin at[c].scan => rt_rq[j].runtime = 0
          /\ at[c].want < 0 => S \subseteq at[c].scan
      BY <1>2, <2>1, <2>2 DEF IInv, SharesExact
    <2>4. /\ Sharing \subseteq CPU /\ IsFiniteSet(Sharing) /\ limit \in Nat
          /\ limit * Cardinality(Sharing) \in 0 .. N * PERIOD
          /\ \A d \in CPU : rt_rq[d].runtime \in Nat
      BY <2>1, <2>3, SharingFacts, Sizes
    <2>5. c \in Sharing
      BY <1>2, <2>3 DEF IInv, QueuesExact, Sharing
    <2>6. /\ IsFiniteSet(S) /\ P \in Nat /\ P < INF /\ S \subseteq CPU /\ c \notin S
          /\ Cardinality(S) \in Nat
      <3>1. N * PERIOD < INF /\ N * PERIOD \in Nat /\ INF \in Nat
        BY Sizes
      <3>2. /\ IsFiniteSet(S) /\ P \in Nat /\ limit * Cardinality(Sharing) = P + limit
            /\ Cardinality(S) \in Nat
        BY <2>4, <2>5, ProductLess
      <3> HIDE DEF P
      <3> QED
        BY <2>4, <3>1, <3>2
    <2> HIDE DEF P
    <2>7. ~ skip => i \in S
      BY <1>4 DEF Sharing
    <2>8. ASSUME ~ skip
          PROVE  /\ rt_rq'[i].runtime = rt_rq[i].runtime - diff
                 /\ rt_rq'[i].runtime \in Nat /\ rt_rq'[i].runtime # INF
      <3>1. rt_rq[i].runtime <= P + at[c].want
        BY <2>3, <2>4, <2>6, <2>7, <2>8, PartOfTotal
      <3>2. rt_rq[i].runtime < INF
        BY <1>5, <2>8, Sizes DEF Finite
      <3>3. rt_rq[i].runtime - diff \in 0 .. INF - 1
        <4>1. CASE at[c].want > 0
          BY <1>5, <1>6, <2>8, <3>2, <4>1, Sizes
        <4>2. CASE at[c].want < 0
          <5>1. diff = at[c].want
            BY <1>1, <1>6, <2>8, <4>2
          <5>2. rt_rq[i].runtime - at[c].want <= P
            BY <1>1, <1>5, <2>6, <3>1
          <5> QED
            BY <1>1, <1>5, <2>6, <4>2, <5>1, <5>2, Sizes
        <4> QED
          BY <1>1, <2>3, <4>1, <4>2
      <3>4. Wrap(rt_rq[i].runtime - diff) = rt_rq[i].runtime - diff
        BY <1>5, <1>7, <3>3, WrapFacts, Sizes
      <3> QED
        BY <1>11, <2>8, <3>3, <3>4, Sizes
    <2>9. /\ \A d \in CPU : Finite(rt_rq'[d]) <=> Finite(rt_rq[d])
          /\ \A d \in CPU : rt_rq'[d].online = rt_rq[d].online
          /\ Sharing' = Sharing
      <3>1. \A d \in CPU : Finite(rt_rq'[d]) <=> Finite(rt_rq[d])
        BY <1>11, <2>8 DEF Finite
      <3> QED
        BY <1>11, <3>1 DEF SameButRuntime, Sharing
    <2>10. /\ \A d \in S : rt_rq'[d].runtime \in Nat
           /\ Total(rt_rq', S) = P + want
      <3>1. CASE skip
        BY <1>1, <1>6, <1>11, <2>3, <2>4, <2>6, <3>1 DEF want
      <3>2. CASE ~ skip
        <4>1. \A d \in S : d # i => rt_rq'[d].runtime = rt_rq[d].runtime
          BY <1>11, <2>6
        <4>2. \A d \in S : rt_rq[d].runtime \in Nat
          BY <2>4
        <4>3. Total(rt_rq', S) = Total(rt_rq, S) - diff
          <5>1. /\ IsFiniteSet(S) /\ i \in S /\ diff \in Int
                /\ rt_rq'[i].runtime = rt_rq[i].runtime - diff /\ rt_rq'[i].runtime \in Nat
            BY <1>7, <2>6, <2>7, <2>8, <3>2
          <5> HIDE DEF S
          <5> QED
            BY <4>1, <4>2, <5>1, ReclaimStep
        <4> QED
          BY <1>1, <1>7, <2>3, <2>6, <2>8, <3>2, <4>1, <4>2, <4>3 DEF want
      <3> QED
        BY <3>1, <3>2
    <2>11. /\ want > 0 =>
                \A j \in S : j \notin at[c].scan \ {i} => rt_rq'[j].runtime = 0
           /\ want < 0 => S \subseteq at[c].scan \ {i}
      <3>1. CASE skip
        <4>1. i \notin S /\ want = at[c].want
          BY <1>1, <1>6, <3>1 DEF Sharing, want
        <4> QED
          BY <1>11, <2>3, <3>1, <4>1
      <3>2. CASE ~ skip /\ at[c].want > 0
        <4>1. want >= 0 /\ (want > 0 => rt_rq'[i].runtime = 0)
          BY <1>1, <1>5, <1>6, <2>8, <3>2 DEF want
        <4> QED
          BY <1>7, <1>11, <2>3, <2>6, <3>2, <4>1
      <3>3. CASE ~ skip /\ at[c].want < 0
        BY <1>1, <1>6, <3>3 DEF want
      <3> QED
        BY <1>1, <2>3, <3>1, <3>2, <3>3
    <2>12. want # 0 => at[c].scan \ {i} # {}
      <3> SUFFICES ASSUME want # 0, at[c].scan \ {i} = {} PROVE FALSE
        OBVIOUS
      <3>1. CASE want > 0
        <4>1. \A j \in S : rt_rq'[j].runtime = 0
          BY <2>11, <3>1
        <4>2. Total(rt_rq', S) = 0 * Cardinality(S)
          BY <2>6, <4>1, TotalEqual
        <4> QED
          BY <1>7, <2>6, <2>10, <3>1, <4>2
      <3>2. CASE want < 0
        <4>1. S = {}
          BY <2>11, <3>2
        <4>2. Cardinality(S) = 0
          BY <4>1, FS_EmptySet
        <4>3. Total(rt_rq', S) = 0 * Cardinality(S)
          BY <2>6, <4>1, TotalEqual
        <4>4. P = 0
          BY <2>4, <4>2 DEF P
        <4> QED
          BY <1>7, <2>6, <2>10, <3>2, <4>2, <4>3, <4>4
      <3> QED
        BY <1>7, <3>1, <3>2
    <2>13. /\ pc = "disable" <=> want = 0
           /\ want # 0 => rest = at[c].scan \ {i}
      BY <2>12 DEF pc, rest
    <2>14. at'[c].want = want /\ at'[c].pc = pc /\ at'[c].scan = rest
      BY <1>9, <1>10
    <2>15. Sharing' \ {c} = S /\ P = limit * Cardinality(S)
      BY <2>9 DEF P
    <2> HIDE DEF S
    <2>16. /\ Share' # INF => Total(rt_rq', Sharing' \ {c})
                               = Share' * Cardinality(Sharing' \ {c}) + at'[c].want
           /\ at'[c].pc = "disable" <=> at'[c].want = 0
           /\ at'[c].want # 0 => Share' # INF
      BY <2>1, <2>3, <2>10, <2>13, <2>14, <2>15
    <2>17. /\ at'[c].want > 0 =>
                \A j \in Sharing' \ {c} : j \notin at'[c].scan => rt_rq'[j].runtime = 0
           /\ at'[c].want < 0 => Sharing' \ {c} \subseteq at'[c].scan
      BY <1>7, <2>11, <2>13, <2>14, <2>15
    <2>18. \A d \in CPU : Finite(rt_rq'[d]) <=> rt_rq'[d].online /\ Share' # INF
      BY <2>1, <2>3, <2>9
    <2> QED
      BY <2>2, <2>16, <2>17, <2>18 DEF SharesExact
  <1> QED
    BY <1>12, <1>13, <1>14, <1>15, <1>16, <1>17 DEF IInv

\* The CPU has left: it shares no more, and the others have what is theirs.
LEMMA DisableInv ==
    ASSUME IInv, NEW c \in CPU, Disable(c)
    PROVE  IInv'
  <1> DEFINE r == [rt_rq[c] EXCEPT !.runtime = INF, !.throttled = FALSE, !.nr = 0,
                     !.queued = FALSE, !.curr = FALSE, !.resched = FALSE, !.online = FALSE]
  <1>1. /\ rt_rq \in [CPU -> RqType] /\ at \in [Actor -> AtType] /\ TIMER \in Actor
        /\ Idle \in AtType /\ Idle.pc = "idle" /\ Idle.q = NONE
        /\ \A d \in CPU : d \in Actor /\ d # TIMER
        /\ \A d \in Actor : d # NONE
    BY Typed, Sizes DEF IInv, Actor, AtType, Idle
  <1>2. /\ at[c].pc = "disable" /\ rt_rq' = [rt_rq EXCEPT ![c] = r]
        /\ at' = [at EXCEPT ![c] = Idle] /\ rt_b_lock' = NONE
        /\ timer' = timer /\ limit' = limit /\ sysctl' = sysctl
        /\ settled' = settled /\ unwatched' = unwatched
    BY <1>1 DEF Disable, others
  <1>3. /\ r \in RqType /\ r.time = rt_rq[c].time /\ r.runtime = INF /\ ~ r.throttled
        /\ r.nr = 0 /\ ~ r.queued /\ ~ r.curr /\ ~ r.resched /\ ~ r.online
    <2>1. rt_rq[c] \in RqType /\ INF \in 0 .. MOD - 1 /\ 0 \in 0 .. MAX_TASKS
      BY <1>1, Sizes
    <2> QED
      BY <2>1 DEF RqType
  <1> HIDE DEF r
  <1>4. /\ rt_rq' \in [CPU -> RqType] /\ rt_rq'[c] = r
        /\ \A d \in CPU : d # c => rt_rq'[d] = rt_rq[d]
    BY <1>1, <1>2, <1>3
  <1>5. /\ at' \in [Actor -> AtType] /\ at'[c] = Idle /\ at'[TIMER] = at[TIMER]
        /\ \A b \in Actor : b # c => at'[b] = at[b]
        /\ \A d \in CPU : d # c => at'[d] = at[d]
    BY <1>1, <1>2
  <1>6. /\ rt_b_lock = c
        /\ \A b \in Actor : b # c => at[b].pc \notin {"bal", "reclaim", "disable"}
        /\ at[TIMER].pc \notin {"idle", "timer"} => at[TIMER].q \in CPU /\ at[TIMER].q # c
    <2>1. at[TIMER].todo \subseteq CPU
      BY <1>1 DEF AtType
    <2> QED
      BY <1>1, <1>2, <2>1 DEF IInv, ActorsExact
  <1>7. TypeOK'
    BY <1>1, <1>2, <1>4, <1>5 DEF IInv, TypeOK, AtType, RqType
  <1>8. ActorsExact'
    <2>1. \A d \in CPU :
            /\ at'[d].pc \in {"idle", "bal_lock", "bal", "exceeded", "reclaim", "disable"}
            /\ at'[d].q = IF at'[d].pc = "idle" THEN NONE ELSE d
      BY <1>1, <1>5 DEF IInv, ActorsExact
    <2>2. IF at'[TIMER].pc \in {"idle", "timer"} THEN at'[TIMER].q = NONE
          ELSE at'[TIMER].q \in at'[TIMER].todo /\ at'[at'[TIMER].q].pc = "idle"
      BY <1>5, <1>6 DEF IInv, ActorsExact
    <2>3. \A b \in Actor :
            /\ at'[b].pc \in {"bal", "reclaim", "disable"} => rt_b_lock' = b
            /\ at'[b].pc \in {"bal", "reclaim"} => at'[b].scan # {}
      BY <1>1, <1>5, <1>6
    <2> QED
      BY <1>2, <1>5, <2>1, <2>2, <2>3 DEF IInv, ActorsExact
  <1>9. QueuesExact'
    <2>1. at'[TIMER].pc \in {"bal_lock", "bal", "replenish"} => rt_rq'[at'[TIMER].q].throttled
      BY <1>4, <1>5, <1>6 DEF IInv, QueuesExact
    <2>2. /\ rt_rq'[c].queued <=> rt_rq'[c].nr > 0 /\ ~ rt_rq'[c].throttled
          /\ ~ rt_rq'[c].curr /\ ~ rt_rq'[c].queued /\ ~ rt_rq'[c].throttled
          /\ rt_rq'[c].nr = 0 /\ at'[c].pc = "idle"
          /\ rt_rq'[c].time <= MAX_TIME
      <3>1. rt_rq[c].time <= MAX_TIME
        BY DEF IInv, QueuesExact
      <3> QED
        BY <1>1, <1>3, <1>4, <1>5, <3>1
    <2>3. rt_rq'[c].curr = rt_rq'[c].queued
      <3>1. r.curr \in BOOLEAN /\ r.queued \in BOOLEAN
        BY <1>3 DEF RqType
      <3> QED
        BY <1>3, <1>4, <3>1
    <2>4. \A d \in CPU : d # c => at'[d] = at[d] /\ rt_rq'[d] = rt_rq[d]
      BY <1>4, <1>5
    <2> QED
      BY <2>1, <2>2, <2>3, <2>4 DEF IInv, QueuesExact
  <1>10. Watched'
    BY <1>2, <1>3, <1>4, <1>5 DEF IInv, Watched
  <1>11. settled # "pending"
    BY <1>2 DEF IInv, LimitsValid
  <1>12. LimitsValid'
    BY <1>2, <1>11 DEF IInv, LimitsValid
  <1>13. SharesExact'
    <2> SUFFICES ASSUME settled = "yes" PROVE SharesExact'
      BY <1>2, <1>11 DEF IInv, TypeOK, SharesExact
    <2>1. settled' = "yes" /\ Share = limit /\ Share' = limit
      BY <1>2 DEF Share
    <2>2. Leaving(c) /\ \A d \in CPU : ~ Leaving(d)'
      BY <1>1, <1>2, <1>5, <1>6 DEF Leaving
    <2>3. /\ \A d \in CPU : Finite(rt_rq[d]) <=> rt_rq[d].online /\ limit # INF
          /\ at[c].want = 0
          /\ limit # INF => Total(rt_rq, Sharing \ {c})
                               = limit * Cardinality(Sharing \ {c}) + 0
      BY <1>2, <2>1, <2>2 DEF IInv, SharesExact
    <2>4. Sharing' = Sharing \ {c}
      BY <1>3, <1>4 DEF Sharing, Finite
    <2>5. Total(rt_rq', Sharing \ {c}) = Total(rt_rq, Sharing \ {c})
      BY <1>4, TotalSame DEF Sharing
    <2>6. \A d \in CPU : Finite(rt_rq'[d]) <=> rt_rq'[d].online /\ limit # INF
      BY <1>3, <1>4, <2>3 DEF Finite
    <2>7. limit # INF => limit * Cardinality(Sharing \ {c}) \in Int
      <3> SUFFICES ASSUME limit # INF PROVE limit * Cardinality(Sharing \ {c}) \in Int
        OBVIOUS
      <3>1. IsFiniteSet(Sharing \ {c}) /\ limit \in Int
        <4>1. IsFiniteSet(Sharing) /\ limit \in 1 .. PERIOD /\ PERIOD \in Nat
          BY <2>1, SharingFacts, Sizes
        <4>2. IsFiniteSet(Sharing \ {c})
          BY <4>1, FS_RemoveElement
        <4> QED
          BY <4>1, <4>2
      <3>2. Cardinality(Sharing \ {c}) \in Nat
        BY <3>1, FS_CardinalityType
      <3> QED
        BY <3>1, <3>2
    <2> QED
      BY <2>1, <2>2, <2>3, <2>4, <2>5, <2>6, <2>7 DEF SharesExact
  <1> QED
    BY <1>7, <1>8, <1>9, <1>10, <1>12, <1>13 DEF IInv

\* A CPU that comes has the limit, and nothing used.
LEMMA GoOnlineInv ==
    ASSUME IInv, NEW c \in CPU, GoOnline(c)
    PROVE  IInv'
  <1> DEFINE r == [rt_rq[c] EXCEPT !.runtime = limit, !.time = 0, !.throttled = FALSE,
                                   !.online = TRUE]
  <1>1. /\ rt_rq \in [CPU -> RqType] /\ at \in [Actor -> AtType] /\ TIMER \in Actor
        /\ limit \in 0 .. MOD - 1
        /\ \A d \in CPU : d \in Actor /\ d # TIMER
        /\ \A d \in Actor : d # NONE
    BY Typed, Sizes DEF IInv, Actor
  <1>2. /\ RqFree(c) /\ rt_b_lock = NONE /\ ~ rt_rq[c].online
        /\ rt_rq' = [rt_rq EXCEPT ![c] = r]
        /\ settled' = IF settled = "pending" THEN "no" ELSE settled
        /\ at' = at /\ rt_b_lock' = rt_b_lock
        /\ timer' = timer /\ limit' = limit /\ sysctl' = sysctl /\ unwatched' = unwatched
    BY <1>1 DEF GoOnline, Unsettle
  <1>3. /\ r \in RqType /\ r.time = 0 /\ r.runtime = limit /\ ~ r.throttled
        /\ r.nr = rt_rq[c].nr /\ r.queued = rt_rq[c].queued /\ r.curr = rt_rq[c].curr
        /\ r.resched = rt_rq[c].resched /\ r.online
    <2>1. rt_rq[c] \in RqType
      BY <1>1
    <2> QED
      BY <1>1, <2>1 DEF RqType
  <1> HIDE DEF r
  <1>4. /\ rt_rq' \in [CPU -> RqType] /\ rt_rq'[c] = r
        /\ \A d \in CPU : d # c => rt_rq'[d] = rt_rq[d]
    BY <1>1, <1>2, <1>3
  <1>5. /\ rt_rq[c].nr = 0 /\ ~ rt_rq[c].throttled /\ at[c].pc = "idle"
        /\ \A d \in CPU : at[d].pc \notin {"reclaim", "disable"}
        /\ at[TIMER].pc \in {"bal_lock", "bal", "replenish"} =>
              at[TIMER].q \in CPU /\ at[TIMER].q # c
    <2>1. at[TIMER].todo \subseteq CPU
      BY <1>1 DEF AtType
    <2> QED
      BY <1>1, <1>2, <2>1 DEF IInv, ActorsExact, QueuesExact, RqFree
  <1>6. TypeOK'
    <2>1. settled' \in {"yes", "no", "pending"}
      BY <1>2 DEF IInv, TypeOK
    <2> QED
      BY <1>2, <1>4, <2>1 DEF IInv, TypeOK, RqType
  <1>7. ActorsExact'
    BY <1>2 DEF IInv, ActorsExact
  <1>8. QueuesExact'
    <2>1. at'[TIMER].pc \in {"bal_lock", "bal", "replenish"} => rt_rq'[at'[TIMER].q].throttled
      BY <1>2, <1>4, <1>5 DEF IInv, QueuesExact
    <2>2. 0 <= MAX_TIME
      BY Sizes
    <2> QED
      BY <1>2, <1>3, <1>4, <1>5, <2>1, <2>2 DEF IInv, QueuesExact
  <1>9. Watched'
    BY <1>2, <1>3, <1>4, <1>5 DEF IInv, Watched
  <1>10. LimitsValid'
    BY <1>2 DEF IInv, LimitsValid
  <1>11. SharesExact'
    <2> SUFFICES ASSUME settled = "yes" PROVE SharesExact'
      BY <1>2 DEF IInv, TypeOK, SharesExact
    <2>1. settled' = "yes" /\ Share = limit /\ Share' = limit
      BY <1>2 DEF Share
    <2>2. \A d \in CPU : ~ Leaving(d) /\ ~ Leaving(d)'
      BY <1>2, <1>5 DEF Leaving
    <2>3. /\ \A d \in CPU : Finite(rt_rq[d]) <=> rt_rq[d].online /\ limit # INF
          /\ limit # INF => Total(rt_rq, Sharing) = limit * Cardinality(Sharing)
      BY <2>1, <2>2 DEF IInv, SharesExact
    <2>4. \A d \in CPU : Finite(rt_rq'[d]) <=> rt_rq'[d].online /\ limit # INF
      BY <1>3, <1>4, <2>3 DEF Finite
    <2>5. ASSUME limit # INF
          PROVE  Total(rt_rq', Sharing') = limit * Cardinality(Sharing')
      <3>1. c \notin Sharing
        BY <1>2, <2>3 DEF Sharing
      <3>2. Sharing' = Sharing \cup {c}
        BY <1>3, <1>4, <2>5 DEF Sharing, Finite
      <3>3. /\ IsFiniteSet(Sharing) /\ limit \in Nat /\ Sharing \subseteq CPU
            /\ \A d \in CPU : rt_rq[d].runtime \in Nat
        BY <2>1, <2>5, SharingFacts, Sizes
      <3> DEFINE S == Sharing \cup {c}
      <3>4. IsFiniteSet(S) /\ c \in S /\ S \ {c} = Sharing
        BY <3>1, <3>3, FS_AddElement
      <3>5. \A d \in S : rt_rq'[d].runtime \in Nat
        BY <1>3, <1>4, <3>3
      <3> HIDE DEF S
      <3>6. /\ Total(rt_rq', S) = limit + Total(rt_rq', Sharing)
            /\ Total(rt_rq', Sharing) \in Nat
        BY <1>3, <1>4, <3>4, <3>5, TotalSplit
      <3>7. limit * Cardinality(S) = limit * Cardinality(Sharing) + limit
        BY <3>3, <3>4, ProductLess
      <3>8. Total(rt_rq', Sharing) = Total(rt_rq, Sharing)
        BY <1>4, <3>1, <3>3, TotalSame
      <3>9. Total(rt_rq', S) = limit * Cardinality(S)
        BY <2>3, <2>5, <3>3, <3>6, <3>7, <3>8
      <3> QED
        BY <3>2, <3>9 DEF S
    <2> QED
      BY <2>1, <2>2, <2>4, <2>5 DEF SharesExact
  <1> QED
    BY <1>6, <1>7, <1>8, <1>9, <1>10, <1>11 DEF IInv

-----------------------------------------------------------------------------
(* A write to sched_rt_runtime_us *)

LEMMA SysctlStoresInv ==
    ASSUME IInv, NEW value \in Limits, SysctlStores(value)
    PROVE  IInv'
  <1>1. value \in Valid /\ value \in 0 .. MOD - 1 /\ MAX_WRITES \in Nat
    BY BandwidthAssumption, Sizes DEF Valid, INF
  <1>2. /\ sysctl.pc = "idle" /\ sysctl.writes < MAX_WRITES
        /\ sysctl' = [pc |-> "stored", value |-> value, old |-> sysctl.value,
                      writes |-> sysctl.writes + 1]
        /\ rt_rq' = rt_rq /\ rt_b_lock' = rt_b_lock /\ timer' = timer /\ at' = at
        /\ limit' = limit /\ settled' = settled /\ unwatched' = unwatched
    BY DEF SysctlStores
  <1>3. settled # "pending"
    BY <1>2 DEF IInv, LimitsValid
  <1>4. TypeOK'
    <2>1. sysctl.value \in 0 .. MOD - 1 /\ sysctl.writes + 1 \in 0 .. MAX_WRITES
      BY <1>1, <1>2 DEF IInv, TypeOK
    <2>2. sysctl' \in [pc : {"idle", "stored", "shared"}, value : 0 .. MOD - 1,
                       old : 0 .. MOD - 1, writes : 0 .. MAX_WRITES]
      BY <1>1, <1>2, <2>1
    <2> QED
      BY <1>2, <2>2 DEF IInv, TypeOK
  <1>5. ActorsExact'
    BY <1>2 DEF IInv, ActorsExact
  <1>6. QueuesExact'
    BY <1>2 DEF IInv, QueuesExact
  <1>7. Watched'
    BY <1>2 DEF IInv, Watched
  <1>8. LimitsValid'
    BY <1>1, <1>2, <1>3 DEF IInv, LimitsValid
  <1>9. SharesExact'
    <2>1. Share' = Share
      BY <1>2, <1>3 DEF Share
    <2>2. Sharing' = Sharing /\ \A c \in CPU : Leaving(c)' = Leaving(c)
      BY <1>2 DEF Sharing, Leaving
    <2> QED
      BY <1>2, <2>1, <2>2 DEF IInv, SharesExact
  <1> QED
    BY <1>4, <1>5, <1>6, <1>7, <1>8, <1>9 DEF IInv

\* Loans are forgotten: all CPUs have the same share.
LEMMA GlobalConstraintsInv ==
    ASSUME IInv, GlobalConstraints
    PROVE  IInv'
  <1> DEFINE value == sysctl.value
  <1>1. /\ rt_rq \in [CPU -> RqType] /\ TIMER \in Actor /\ at \in [Actor -> AtType]
        /\ \A d \in CPU : d \in Actor
        /\ \A d \in Actor : d # NONE
        /\ sysctl \in [pc : {"idle", "stored", "shared"}, value : 0 .. MOD - 1,
                       old : 0 .. MOD - 1, writes : 0 .. MAX_WRITES]
    BY Typed, Sizes DEF IInv, Actor
  <1>2. /\ sysctl.pc = "stored" /\ rt_b_lock = NONE
        /\ rt_rq' = [c \in CPU |-> [rt_rq[c] EXCEPT !.runtime = value]]
        /\ sysctl' = [sysctl EXCEPT !.pc = "shared"]
        /\ settled' = IF \E c \in CPU : ~ rt_rq[c].online THEN "no"
                      ELSE IF value = limit THEN "yes" ELSE "pending"
        /\ rt_b_lock' = rt_b_lock /\ timer' = timer /\ at' = at
        /\ limit' = limit /\ unwatched' = unwatched
    BY DEF GlobalConstraints
  <1>3. value \in 0 .. MOD - 1 /\ value \in Nat
    BY <1>1, Sizes
  <1>4. /\ rt_rq' \in [CPU -> RqType]
        /\ \A d \in CPU : rt_rq'[d].runtime = value /\ SameButRuntime(rt_rq'[d], rt_rq[d])
    <2>1. ASSUME NEW d \in CPU
          PROVE  /\ [rt_rq[d] EXCEPT !.runtime = value] \in RqType
                 /\ [rt_rq[d] EXCEPT !.runtime = value].runtime = value
                 /\ SameButRuntime([rt_rq[d] EXCEPT !.runtime = value], rt_rq[d])
      <3>1. rt_rq[d] \in RqType
        BY <1>1
      <3> QED
        BY <1>3, <3>1 DEF RqType, SameButRuntime
    <2> QED
      BY <1>2, <2>1
  <1>5. /\ sysctl'.pc = "shared" /\ sysctl'.value = value /\ sysctl'.old = sysctl.old
        /\ sysctl' \in [pc : {"idle", "stored", "shared"}, value : 0 .. MOD - 1,
                        old : 0 .. MOD - 1, writes : 0 .. MAX_WRITES]
    BY <1>1, <1>2
  <1>6. \A d \in CPU : at[d].pc \notin {"reclaim", "disable"}
    BY <1>1, <1>2 DEF IInv, ActorsExact
  <1> HIDE DEF value
  <1>7. TypeOK'
    <2>1. settled' \in {"yes", "no", "pending"}
      BY <1>2
    <2> QED
      BY <1>2, <1>4, <1>5, <2>1 DEF IInv, TypeOK, RqType
  <1>8. ActorsExact'
    BY <1>2 DEF IInv, ActorsExact
  <1>9. QueuesExact'
    <2>1. at[TIMER].pc \in {"bal_lock", "bal", "replenish"} => at[TIMER].q \in CPU
      BY <1>1 DEF IInv, ActorsExact, AtType
    <2> QED
      BY <1>2, <1>4, <2>1 DEF IInv, QueuesExact, SameButRuntime
  <1>10. Watched'
    BY <1>2, <1>4 DEF IInv, Watched, SameButRuntime
  <1>11. LimitsValid'
    BY <1>2, <1>4, <1>5, <1>6 DEF IInv, LimitsValid, SameButRuntime, value
  <1>12. SharesExact'
    <2> SUFFICES ASSUME settled' # "no" PROVE SharesExact'
      BY DEF SharesExact
    <2>1. \A d \in CPU : rt_rq[d].online /\ rt_rq'[d].online
      BY <1>2, <1>4 DEF SameButRuntime
    <2>2. Share' = value
      BY <1>2, <1>5 DEF Share
    <2>3. Sharing' = IF value = INF THEN {} ELSE CPU
      BY <1>4 DEF Sharing, Finite
    <2>4. \A d \in CPU : ~ Leaving(d)'
      BY <1>2, <1>6 DEF Leaving
    <2>5. value # INF => Total(rt_rq', CPU) = value * Cardinality(CPU)
      BY <1>3, <1>4, TotalEqual, BandwidthAssumption
    <2>6. \A d \in CPU : Finite(rt_rq'[d]) <=> value # INF
      BY <1>4 DEF Finite
    <2> QED
      BY <2>1, <2>2, <2>3, <2>4, <2>5, <2>6 DEF SharesExact
  <1> QED
    BY <1>7, <1>8, <1>9, <1>10, <1>11, <1>12 DEF IInv

\* The old limit comes back, the new shares stay.
LEMMA DlRefusesInv ==
    ASSUME IInv, DlRefuses
    PROVE  IInv'
  <1>1. /\ sysctl.pc = "shared" /\ sysctl' = [sysctl EXCEPT !.pc = "idle", !.value = sysctl.old]
        /\ settled' = IF settled = "pending" THEN "no" ELSE settled
        /\ rt_rq' = rt_rq /\ rt_b_lock' = rt_b_lock /\ timer' = timer /\ at' = at
        /\ limit' = limit /\ unwatched' = unwatched
    BY DEF DlRefuses, Unsettle
  <1>2. /\ sysctl'.pc = "idle" /\ sysctl'.value = sysctl.old /\ sysctl'.old = sysctl.old
        /\ sysctl' \in [pc : {"idle", "stored", "shared"}, value : 0 .. MOD - 1,
                        old : 0 .. MOD - 1, writes : 0 .. MAX_WRITES]
    BY <1>1 DEF IInv, TypeOK
  <1>3. TypeOK'
    <2>1. settled' \in {"yes", "no", "pending"}
      BY <1>1 DEF IInv, TypeOK
    <2> QED
      BY <1>1, <1>2, <2>1 DEF IInv, TypeOK
  <1>4. ActorsExact'
    BY <1>1 DEF IInv, ActorsExact
  <1>5. QueuesExact'
    BY <1>1 DEF IInv, QueuesExact
  <1>6. Watched'
    BY <1>1 DEF IInv, Watched
  <1>7. LimitsValid'
    BY <1>1, <1>2 DEF IInv, LimitsValid
  <1>8. SharesExact'
    <2> SUFFICES ASSUME settled = "yes" PROVE SharesExact'
      BY <1>1 DEF IInv, TypeOK, SharesExact
    <2>1. settled' = "yes" /\ Share' = Share
      BY <1>1 DEF Share
    <2>2. Sharing' = Sharing /\ \A c \in CPU : Leaving(c)' = Leaving(c)
      BY <1>1 DEF Sharing, Leaving
    <2> QED
      BY <1>1, <2>1, <2>2 DEF IInv, SharesExact
  <1> QED
    BY <1>3, <1>4, <1>5, <1>6, <1>7, <1>8 DEF IInv

\* The shares and the limit go together again.
LEMMA DoGlobalInv ==
    ASSUME IInv, DoGlobal
    PROVE  IInv'
  <1>1. /\ sysctl.pc = "shared" /\ limit' = sysctl.value
        /\ sysctl' = [sysctl EXCEPT !.pc = "idle", !.old = sysctl.value]
        /\ settled' = IF settled = "pending" THEN "yes" ELSE settled
        /\ rt_rq' = rt_rq /\ rt_b_lock' = rt_b_lock /\ timer' = timer /\ at' = at
        /\ unwatched' = unwatched
    BY DEF DoGlobal
  <1>2. /\ sysctl'.pc = "idle" /\ sysctl'.value = sysctl.value /\ sysctl'.old = sysctl.value
        /\ sysctl' \in [pc : {"idle", "stored", "shared"}, value : 0 .. MOD - 1,
                        old : 0 .. MOD - 1, writes : 0 .. MAX_WRITES]
        /\ limit' \in 0 .. MOD - 1
    BY <1>1 DEF IInv, TypeOK
  <1>3. TypeOK'
    <2>1. settled' \in {"yes", "no", "pending"}
      BY <1>1 DEF IInv, TypeOK
    <2> QED
      BY <1>1, <1>2, <2>1 DEF IInv, TypeOK
  <1>4. ActorsExact'
    BY <1>1 DEF IInv, ActorsExact
  <1>5. QueuesExact'
    BY <1>1 DEF IInv, QueuesExact
  <1>6. Watched'
    BY <1>1 DEF IInv, Watched
  <1>7. LimitsValid'
    BY <1>1, <1>2 DEF IInv, LimitsValid
  <1>8. SharesExact'
    <2> SUFFICES ASSUME settled # "no" PROVE SharesExact'
      BY <1>1 DEF SharesExact
    <2>1. settled' = "yes" /\ Share' = Share
      BY <1>1, <1>2 DEF IInv, TypeOK, LimitsValid, Share
    <2>2. Sharing' = Sharing /\ \A c \in CPU : Leaving(c)' = Leaving(c)
      BY <1>1 DEF Sharing, Leaving
    <2> QED
      BY <1>1, <2>1, <2>2 DEF IInv, SharesExact
  <1> QED
    BY <1>3, <1>4, <1>5, <1>6, <1>7, <1>8 DEF IInv

-----------------------------------------------------------------------------
(* The theorems *)

LEMMA StutterInv ==
    ASSUME IInv, UNCHANGED vars
    PROVE  IInv'
  <1>1. /\ rt_rq' = rt_rq /\ rt_b_lock' = rt_b_lock /\ timer' = timer /\ at' = at
        /\ limit' = limit /\ sysctl' = sysctl /\ settled' = settled /\ unwatched' = unwatched
    BY DEF vars
  <1>2. TypeOK' /\ ActorsExact'
    BY <1>1 DEF IInv, TypeOK, ActorsExact
  <1>3. QueuesExact' /\ Watched' /\ LimitsValid'
    BY <1>1 DEF IInv, QueuesExact, Watched, LimitsValid
  <1>4. SharesExact'
    BY <1>1, SharesFrame DEF IInv, Leaving
  <1> QED
    BY <1>2, <1>3, <1>4 DEF IInv

LEMMA StepInv == IInv /\ [Next]_vars => IInv'
  <1> SUFFICES ASSUME IInv, [Next]_vars PROVE IInv'
    OBVIOUS
  <1>1. CASE \E c \in CPU :
               \/ Enqueue(c) \/ Dequeue(c) \/ Schedule(c)
               \/ \E delta \in Deltas : UpdateCurr(c, delta)
               \/ Exceeded(c)
               \/ GoOffline(c) \/ Reclaim(c) \/ Disable(c) \/ GoOnline(c)
    BY <1>1, EnqueueInv, DequeueInv, ScheduleInv, UpdateCurrInv, ExceededInv,
       GoOfflineInv, ReclaimInv, DisableInv, GoOnlineInv
  <1>2. CASE \E a \in Actor : BalanceLock(a) \/ BalanceStep(a)
    BY <1>2, BalanceLockInv, BalanceStepInv
  <1>3. CASE \E overrun \in 1 .. MAX_OVERRUN : TimerFires(overrun)
    BY <1>3, TimerFiresInv
  <1>4. CASE TimerVisit \/ TimerReplenish \/ TimerReturns
    BY <1>4, TimerVisitInv, TimerReplenishInv, TimerReturnsInv
  <1>5. CASE \E value \in Limits : SysctlStores(value)
    BY <1>5, SysctlStoresInv
  <1>6. CASE GlobalConstraints \/ DlRefuses \/ DoGlobal
    BY <1>6, GlobalConstraintsInv, DlRefusesInv, DoGlobalInv
  <1>7. CASE UNCHANGED vars
    BY <1>7, StutterInv
  <1> QED
    BY <1>1, <1>2, <1>3, <1>4, <1>5, <1>6, <1>7 DEF Next

LEMMA Invariance == Spec => []IInv
  BY InitInv, StepInv, PTL DEF Spec

\* The fields of struct rt_rq, the locks, the timer and the limits keep their types:
\* runtimes stay within the width of an unsigned 64-bit number, and no queue counts
\* fewer than no tasks.
THEOREM TypeCorrect == Spec => []TypeOK
  <1>1. IInv => TypeOK
    BY DEF IInv
  <1> QED
    BY <1>1, Invariance, PTL

\* Whatever loans do_balance_runtime() makes, and whatever __disable_runtime(),
\* __enable_runtime() and a new limit do to them, the CPUs on line have the limit
\* each on average: no runtime is made or lost.
THEOREM RuntimeConservedCorrect == Spec => []RuntimeConserved
  <1>1. IInv => RuntimeConserved
    <2> SUFFICES ASSUME IInv, settled = "yes",
                        \A c \in CPU : at[c].pc \notin {"reclaim", "disable"}
                 PROVE  Total(rt_rq, Sharing) = limit * Cardinality(Sharing)
      BY DEF RuntimeConserved
    <2>1. Share = limit /\ \A c \in CPU : ~ Leaving(c)
      BY DEF Share, Leaving
    <2>2. CASE limit # INF
      BY <2>1, <2>2 DEF IInv, SharesExact
    <2>3. CASE limit = INF
      <3>1. Sharing = {}
        BY <2>1, <2>3 DEF IInv, SharesExact, Sharing
      <3>2. Cardinality(Sharing) = 0 /\ IsFiniteSet(Sharing)
        BY <3>1, FS_EmptySet
      <3>3. Total(rt_rq, Sharing) = 0 * Cardinality(Sharing)
        BY <3>1, <3>2, TotalEqual
      <3>4. limit \in Int
        BY <2>3, Sizes
      <3> QED
        BY <3>2, <3>3, <3>4
    <2> QED
      BY <2>2, <2>3
  <1> QED
    BY <1>1, Invariance, PTL

\* BUG_ON(want) in __disable_runtime() does not fire: the loop over the other CPUs
\* finds all that the CPU has lent, and room for all that it has borrowed.
THEOREM NotLeftWantingCorrect == Spec => []NotLeftWanting
  <1>1. IInv => NotLeftWanting
    BY DEF IInv, SharesExact, NotLeftWanting, Leaving
  <1> QED
    BY <1>1, Invariance, PTL

\* sched_rt_rq_enqueue() and sched_rt_rq_dequeue() are called wherever rt_throttled
\* or the number of tasks changes: a queue counts in its run queue exactly when it has
\* tasks and is not throttled, and a CPU that runs the wrong class has been told.
THEOREM ThrottleEffectiveCorrect == Spec => []ThrottleEffective
  <1>1. IInv => ThrottleEffective
    BY DEF IInv, QueuesExact, ThrottleEffective
  <1> QED
    BY <1>1, Invariance, PTL

\* A throttled queue waits for rt_period_timer, which is on its way: it stops only
\* when all queues were seen to be empty, or while there is no limit, or after a task
\* came behind its back (the race that unwatched records).
THEOREM ThrottledIsServedCorrect == Spec => []ThrottledIsServed
  <1>1. IInv => ThrottledIsServed
    BY DEF IInv, Watched, ThrottledIsServed
  <1> QED
    BY <1>1, Invariance, PTL
=============================================================================
