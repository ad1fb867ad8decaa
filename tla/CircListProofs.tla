---------------------------- MODULE CircListProofs ----------------------------
(***************************************************************************)
(* For every set of nodes, and whatever the uninitialised pointers hold:   *)
(* the pointers of circlist.c always form the ring of the nodes that are   *)
(* on the list, oldest first, and the list implements a FIFO queue.        *)
(***************************************************************************)
EXTENDS CircListHistory, TLAPS

\* RingIsQueue is inductive once the cursors are known to stay on the ring.
IInv ==
    /\ TypeOK
    /\ q \in Seq(Node)
    /\ RingIsQueue
    /\ CursorOnRing

-----------------------------------------------------------------------------
\* What Append does to a sequence, position by position.
LEMMA AppendFacts ==
    ASSUME NEW S, NEW s \in Seq(S), NEW e \in S
    PROVE  /\ Append(s, e) \in Seq(S)
           /\ Len(Append(s, e)) = Len(s) + 1
           /\ \A i \in 1..Len(s) : Append(s, e)[i] = s[i]
           /\ Append(s, e)[Len(s) + 1] = e
           /\ Append(s, e) # <<>>
  OBVIOUS

\* What taking out position k does to a sequence, position by position.
LEMMA WithoutFacts ==
    ASSUME NEW S, NEW s \in Seq(S), NEW k \in 1..Len(s)
    PROVE  /\ Fifo!WithoutIndex(s, k) \in Seq(S)
           /\ Len(Fifo!WithoutIndex(s, k)) = Len(s) - 1
           /\ \A i \in 1..(Len(s) - 1) :
                Fifo!WithoutIndex(s, k)[i] = IF i < k THEN s[i] ELSE s[i + 1]
  <1>1. Len(s) \in Nat /\ Len(s) >= 1
    OBVIOUS
  <1>2. \A j \in 1..(Len(s) - 1) : (IF j < k THEN s[j] ELSE s[j + 1]) \in S
    BY <1>1
  <1>3. Fifo!WithoutIndex(s, k) \in [1..(Len(s) - 1) -> S]
    BY <1>2 DEF Fifo!WithoutIndex
  <1> QED
    BY <1>1, <1>3 DEF Fifo!WithoutIndex

-----------------------------------------------------------------------------
LEMMA InitInv == InitH => IInv
  <1> SUFFICES ASSUME InitH PROVE IInv
    OBVIOUS
  <1>1. TypeOK
    BY GarbageAssumption DEF InitH, Init, TypeOK, Ptr
  <1>2. q = <<>> /\ Len(q) = 0
    BY DEF InitH
  <1>3. RingIsQueue /\ CursorOnRing
    BY <1>2 DEF InitH, Init, RingIsQueue, Distinct, CursorOnRing
  <1> QED
    BY <1>1, <1>2, <1>3 DEF IInv

\* circularlist_insert extends the ring behind its last node.
LEMMA InsertInv ==
    ASSUME IInv, NEW n \in Node, InsertH(n)
    PROVE  IInv'
  <1> DEFINE L == Len(q)
  <1>1. /\ pc = "ready" /\ n \notin linked /\ linked' = linked \cup {n}
        /\ circularlist_insert(head, n)
        /\ pc' = pc /\ link' = link /\ node' = node
        /\ q' = Append(q, n)
    BY DEF InsertH, Insert
  <1>2. /\ q \in Seq(Node) /\ L \in Nat /\ count = L
        /\ \A i \in 1..L : q[i] \in Node /\ q[i] # n
        /\ \A i, j \in 1..L : q[i] = q[j] => i = j
        /\ linked = {q[i] : i \in 1..L}
        /\ \A i \in 1..L : next[q[i]] = q[Succ(i)] /\ prev[q[i]] = q[Pred(i)]
        /\ next \in [Node -> Ptr] /\ prev \in [Node -> Ptr]
    BY <1>1 DEF IInv, TypeOK, RingIsQueue, Distinct
  <1>3. /\ q' \in Seq(Node)
        /\ Len(q') = L + 1
        /\ \A i \in 1..L : q'[i] = q[i]
        /\ q'[L + 1] = n
        /\ q' # <<>>
    BY <1>1, <1>2, AppendFacts
  <1>4. Distinct'
    BY <1>2, <1>3 DEF Distinct
  <1>5. linked' = {q'[i] : i \in 1..Len(q')}
    BY <1>1, <1>2, <1>3
  <1>6. count' = Len(q')
    BY <1>1, <1>2, <1>3 DEF circularlist_insert
  <1>7. CASE L = 0
    <2>1. q = <<>> /\ head' = n /\ next'[n] = n /\ prev'[n] = n
          /\ next' \in [Node -> Ptr] /\ prev' \in [Node -> Ptr]
      BY <1>1, <1>2, <1>7 DEF circularlist_insert, Ptr
    <2>2. TypeOK'
      BY <1>1, <1>2, <1>6, <1>3, <2>1 DEF IInv, TypeOK, Ptr
    <2>3. \A i \in 1..Len(q') : next'[q'[i]] = q'[Succ(i)'] /\ prev'[q'[i]] = q'[Pred(i)']
      BY <1>3, <1>7, <2>1 DEF Succ, Pred
    <2>4. CursorOnRing'
      BY <1>1 DEF CursorOnRing
    <2> QED
      BY <1>3, <1>4, <1>5, <1>6, <1>7, <2>1, <2>2, <2>3, <2>4 DEF IInv, RingIsQueue
  <1>8. CASE L > 0
    <2>1. /\ head = q[1] /\ head \in Node /\ head # n
          /\ prev[head] = q[L] /\ q[L] \in Node /\ q[L] # n
      BY <1>2, <1>8 DEF IInv, RingIsQueue, Pred
    <2>2. /\ next' = [next EXCEPT ![n] = head, ![q[L]] = n]
          /\ prev' = [prev EXCEPT ![n] = q[L], ![head] = n]
          /\ head' = head
      BY <1>1, <1>2, <1>8, <2>1 DEF circularlist_insert
    <2>3. next' \in [Node -> Ptr] /\ prev' \in [Node -> Ptr]
      BY <1>2, <2>1, <2>2 DEF Ptr
    <2>4. TypeOK'
      BY <1>1, <1>2, <1>3, <1>6, <2>1, <2>2, <2>3 DEF IInv, TypeOK, Ptr
    <2>5. /\ next'[n] = q[1] /\ prev'[n] = q[L]
          /\ next'[q[L]] = n /\ prev'[q[1]] = n
          /\ \A i \in 1..(L - 1) : next'[q[i]] = next[q[i]]
          /\ \A i \in 2..L : prev'[q[i]] = prev[q[i]]
      BY <1>2, <1>8, <2>1, <2>2
    <2>6. \A i \in 1..Len(q') : next'[q'[i]] = q'[Succ(i)']
      <3> SUFFICES ASSUME NEW i \in 1..Len(q')
                   PROVE  next'[q'[i]] = q'[Succ(i)']
        OBVIOUS
      <3>1. CASE i = L + 1
        BY <1>2, <1>3, <1>8, <2>5, <3>1 DEF Succ
      <3>2. CASE i = L
        BY <1>2, <1>3, <1>8, <2>5, <3>2 DEF Succ
      <3>3. CASE i < L
        BY <1>2, <1>3, <1>8, <2>5, <3>3 DEF Succ
      <3> QED
        BY <1>2, <1>3, <3>1, <3>2, <3>3
    <2>7. \A i \in 1..Len(q') : prev'[q'[i]] = q'[Pred(i)']
      <3> SUFFICES ASSUME NEW i \in 1..Len(q')
                   PROVE  prev'[q'[i]] = q'[Pred(i)']
        OBVIOUS
      <3>1. CASE i = L + 1
        BY <1>2, <1>3, <1>8, <2>5, <3>1 DEF Pred
      <3>2. CASE i = 1
        BY <1>2, <1>3, <1>8, <2>5, <3>2 DEF Pred
      <3>3. CASE 1 < i /\ i <= L
        BY <1>2, <1>3, <1>8, <2>5, <3>3 DEF Pred
      <3> QED
        BY <1>2, <1>3, <3>1, <3>2, <3>3
    <2>8. CursorOnRing'
      BY <1>1 DEF CursorOnRing
    <2>9. head' = q'[1]
      BY <1>2, <1>3, <1>8, <2>1, <2>2
    <2> QED
      BY <1>3, <1>4, <1>5, <1>6, <2>4, <2>6, <2>7, <2>8, <2>9 DEF IInv, RingIsQueue
  <1> QED
    BY <1>2, <1>7, <1>8

\* Starting a search puts its cursor on the head, the first position.
LEMMA RemoveBeginInv ==
    ASSUME IInv, NEW n \in Node, RemoveBegin(n), UNCHANGED q
    PROVE  IInv'
  <1>1. q' = q /\ RingIsQueue'
    BY DEF IInv, RingIsQueue, RemoveBegin, Distinct, Succ, Pred
  <1>2. PICK j \in 1..Len(q) : q[j] = n
    BY DEF IInv, RingIsQueue, RemoveBegin
  <1>3. 1 \in 1..Len(q) /\ q[1] = head /\ 1 <= j /\ head \in Ptr
    BY <1>2 DEF IInv, RingIsQueue, RemoveBegin, TypeOK
  <1>4. CursorOnRing'
    BY <1>1, <1>2, <1>3 DEF RemoveBegin, CursorOnRing
  <1>5. TypeOK'
    BY <1>3 DEF IInv, TypeOK, RemoveBegin, Ptr
  <1> QED
    BY <1>1, <1>4, <1>5 DEF IInv

\* The search moves one position towards the node it looks for.
LEMMA RemoveSearchInv ==
    ASSUME IInv, RemoveSearch, UNCHANGED q
    PROVE  IInv'
  <1>1. q' = q /\ RingIsQueue'
    BY DEF IInv, RingIsQueue, RemoveSearch, Distinct, Succ, Pred
  <1>2. PICK i \in 1..Len(q), j \in 1..Len(q) : q[i] = link /\ q[j] = node /\ i <= j
    BY DEF IInv, CursorOnRing, RemoveSearch
  <1>3. i + 1 \in 1..Len(q) /\ i + 1 <= j /\ next[link] = q[i + 1]
    BY <1>2 DEF IInv, RingIsQueue, RemoveSearch, Succ
  <1>4. CursorOnRing'
    BY <1>1, <1>2, <1>3 DEF RemoveSearch, CursorOnRing
  <1>5. q[i] \in Node /\ next[link] \in Ptr
    BY <1>2 DEF IInv, TypeOK
  <1>6. TypeOK'
    BY <1>5 DEF IInv, TypeOK, RemoveSearch
  <1> QED
    BY <1>1, <1>4, <1>6 DEF IInv

\* Starting and continuing the walk keeps its cursor on the ring.
LEMMA TraverseInv ==
    ASSUME IInv, TraverseBegin \/ TraverseStep, UNCHANGED q
    PROVE  IInv'
  <1>1. q' = q /\ RingIsQueue'
    BY DEF IInv, RingIsQueue, TraverseBegin, TraverseStep, Distinct, Succ, Pred
  <1>2. CASE TraverseBegin
    <2>1. 1 \in 1..Len(q) /\ q[1] = head
      BY <1>2 DEF IInv, RingIsQueue, TraverseBegin
    <2>2. CursorOnRing'
      BY <1>1, <1>2, <2>1 DEF TraverseBegin, CursorOnRing
    <2>3. TypeOK'
      BY <1>2 DEF IInv, TypeOK, TraverseBegin, Ptr
    <2> QED
      BY <1>1, <2>2, <2>3 DEF IInv
  <1>3. CASE TraverseStep
    <2>1. PICK i \in 1..Len(q) : q[i] = link
      BY <1>3 DEF IInv, CursorOnRing, TraverseStep
    <2>2. Succ(i) \in 1..Len(q) /\ next[link] = q[Succ(i)] /\ q[Succ(i)] \in Node
      BY <2>1 DEF IInv, RingIsQueue, Succ
    <2>3. CursorOnRing'
      BY <1>1, <1>3, <2>2 DEF TraverseStep, CursorOnRing
    <2>4. TypeOK'
      BY <1>3, <2>2 DEF IInv, TypeOK, TraverseStep, Ptr
    <2> QED
      BY <1>1, <2>3, <2>4 DEF IInv
  <1> QED
    BY <1>2, <1>3

-----------------------------------------------------------------------------
\* Unlinking the k-th node closes the ring over the gap.
LEMMA UnlinkInv ==
    ASSUME IInv, RemoveUnlinkH
    PROVE  IInv'
  <1> DEFINE L == Len(q)
  <1>1. /\ link = node /\ count' = count - 1 /\ linked' = linked \ {node}
        /\ pc' = "ready" /\ link' = NULL /\ node' = NULL
    BY DEF RemoveUnlinkH, RemoveUnlink, unlink_node
  <1>2. PICK k \in 1..L : q[k] = node /\ q' = Fifo!WithoutIndex(q, k)
    BY DEF RemoveUnlinkH
  <1>3. /\ q \in Seq(Node) /\ L \in Nat /\ L >= 1 /\ count = L
        /\ \A i \in 1..L : q[i] \in Node
        /\ \A i, j \in 1..L : q[i] = q[j] => i = j
        /\ linked = {q[i] : i \in 1..L}
        /\ \A i \in 1..L : next[q[i]] = q[Succ(i)] /\ prev[q[i]] = q[Pred(i)]
        /\ next \in [Node -> Ptr] /\ prev \in [Node -> Ptr]
        /\ head = q[1]
    BY <1>2 DEF IInv, TypeOK, RingIsQueue, Distinct
  <1>4. /\ q' \in Seq(Node)
        /\ Len(q') = L - 1
        /\ \A i \in 1..(L - 1) : q'[i] = IF i < k THEN q[i] ELSE q[i + 1]
    BY <1>2, <1>3, WithoutFacts, SMTT(60)
  <1>5. Distinct'
    BY <1>3, <1>4 DEF Distinct
  <1>6. linked' = {q'[i] : i \in 1..Len(q')}
    <2>1. ASSUME NEW x \in linked' PROVE x \in {q'[i] : i \in 1..Len(q')}
      <3>1. PICK m \in 1..L : x = q[m] /\ m # k
        BY <1>1, <1>2, <1>3, <2>1
      <3>2. CASE m < k
        BY <1>2, <1>3, <1>4, <3>1, <3>2, SMTT(60)
      <3>3. CASE m > k
        <4>1. m - 1 \in 1..(L - 1) /\ q'[m - 1] = q[m]
          BY <1>2, <1>3, <1>4, <3>1, <3>3
        <4> QED
          BY <1>4, <3>1, <4>1
      <3> QED
        BY <3>1, <3>2, <3>3
    <2>2. ASSUME NEW i \in 1..Len(q') PROVE q'[i] \in linked'
      BY <1>1, <1>2, <1>3, <1>4, <2>2, SMTT(60)
    <2> QED
      BY <2>1, <2>2
  <1>7. count' = Len(q') /\ CursorOnRing'
    BY <1>1, <1>3, <1>4 DEF CursorOnRing
  <1>8. CASE L = 1
    <2>1. head' = NULL /\ next' = next /\ prev' = prev
      BY <1>3, <1>8 DEF RemoveUnlinkH, RemoveUnlink, unlink_node
    <2>2. Len(q') = 0 /\ q' = <<>>
      BY <1>4, <1>8
    <2>3. TypeOK'
      BY <1>1, <1>3, <1>7, <1>8, <2>1, <2>2 DEF IInv, TypeOK, Ptr
    <2>4. \A i \in 1..Len(q') : next'[q'[i]] = q'[Succ(i)'] /\ prev'[q'[i]] = q'[Pred(i)']
      BY <2>2
    <2>5. head' = IF q' = <<>> THEN NULL ELSE q'[1]
      BY <2>1, <2>2
    <2>6. RingIsQueue'
      BY <1>5, <1>6, <1>7, <2>4, <2>5 DEF RingIsQueue
    <2> QED
      BY <1>4, <1>7, <2>3, <2>6 DEF IInv
  <1>9. CASE L > 1
    <2> DEFINE back == Pred(k)
               front == Succ(k)
    <2>1. /\ back \in 1..L /\ front \in 1..L /\ back # k /\ front # k
          /\ prev[node] = q[back] /\ next[node] = q[front]
      BY <1>2, <1>3, <1>9 DEF Pred, Succ
    <2>2. /\ next' = [next EXCEPT ![q[back]] = q[front]]
          /\ prev' = [prev EXCEPT ![q[front]] = q[back]]
          /\ head' = IF k = 1 THEN q[front] ELSE q[1]
      <3>1. q[back] \in Node /\ q[back] # node
        BY <1>2, <1>3, <2>1
      <3>2. [next EXCEPT ![q[back]] = q[front]][node] = q[front]
        BY <1>2, <1>3, <2>1, <3>1
      <3>3. (node = head) <=> (k = 1)
        BY <1>2, <1>3
      <3> QED
        BY <1>1, <1>3, <1>9, <2>1, <3>2, <3>3 DEF RemoveUnlinkH, RemoveUnlink, unlink_node
    <2>3. /\ next' \in [Node -> Ptr] /\ prev' \in [Node -> Ptr] /\ head' \in Ptr
      BY <1>3, <2>1, <2>2 DEF Ptr
    <2>4. TypeOK'
      BY <1>1, <1>3, <1>4, <1>7, <2>3 DEF IInv, TypeOK, Ptr
    <2>5. /\ \A i \in 1..L : next'[q[i]] = IF i = back THEN q[front] ELSE q[Succ(i)]
          /\ \A i \in 1..L : prev'[q[i]] = IF i = front THEN q[back] ELSE q[Pred(i)]
      BY <1>3, <2>1, <2>2
    <2>6. \A i \in 1..Len(q') : next'[q'[i]] = q'[Succ(i)']
      <3> SUFFICES ASSUME NEW i \in 1..(L - 1)
                   PROVE  next'[q'[i]] = q'[IF i = L - 1 THEN 1 ELSE i + 1]
        BY <1>4 DEF Succ
      <3>1. CASE i < k
        BY <1>2, <1>3, <1>4, <1>9, <2>1, <2>5, <3>1, SMTT(60) DEF Succ, Pred
      <3>2. CASE i >= k
        BY <1>2, <1>3, <1>4, <1>9, <2>1, <2>5, <3>2, SMTT(60) DEF Succ, Pred
      <3> QED
        BY <1>2, <1>3, <3>1, <3>2
    <2>7. \A i \in 1..Len(q') : prev'[q'[i]] = q'[Pred(i)']
      <3> SUFFICES ASSUME NEW i \in 1..(L - 1)
                   PROVE  prev'[q'[i]] = q'[IF i = 1 THEN L - 1 ELSE i - 1]
        BY <1>4 DEF Pred
      <3>1. CASE i < k
        BY <1>2, <1>3, <1>4, <1>9, <2>1, <2>5, <3>1, SMTT(60) DEF Succ, Pred
      <3>2. CASE i >= k
        BY <1>2, <1>3, <1>4, <1>9, <2>1, <2>5, <3>2 DEF Succ, Pred
      <3> QED
        BY <1>2, <1>3, <3>1, <3>2
    <2>8. head' = q'[1] /\ q' # <<>>
      BY <1>2, <1>3, <1>4, <1>9, <2>2 DEF Succ
    <2> QED
      BY <1>4, <1>5, <1>6, <1>7, <2>4, <2>6, <2>7, <2>8 DEF IInv, RingIsQueue
  <1> QED
    BY <1>3, <1>8, <1>9

-----------------------------------------------------------------------------
LEMMA StepInv == IInv /\ [NextH]_hvars => IInv'
  <1> SUFFICES ASSUME IInv, [NextH]_hvars PROVE IInv'
    OBVIOUS
  <1>1. CASE UNCHANGED hvars
    BY <1>1 DEF hvars, IInv, TypeOK, RingIsQueue, CursorOnRing, Distinct, Succ, Pred
  <1>2. CASE NextH
    BY <1>2, InsertInv, RemoveBeginInv, RemoveSearchInv, UnlinkInv, TraverseInv DEF NextH
  <1> QED
    BY <1>1, <1>2

LEMMA Invariance == SpecH => []IInv
  BY InitInv, StepInv, PTL DEF SpecH

(***************************************************************************)
(* circlist.c never leaves a type: in particular count is never negative,  *)
(* although circularlist_remove decrements it without a test.              *)
(***************************************************************************)
THEOREM TypeCorrect == SpecH => []TypeOK
  <1>1. IInv => TypeOK
    BY DEF IInv
  <1> QED
    BY <1>1, Invariance, PTL

\* At any time the pointers form one ring, the nodes in insertion order.
THEOREM RingCorrect == SpecH => []RingIsQueue
  <1>1. IInv => RingIsQueue
    BY DEF IInv
  <1> QED
    BY <1>1, Invariance, PTL

\* No loop of circlist.c ever leaves the ring or passes the node it seeks.
THEOREM CursorCorrect == SpecH => []CursorOnRing
  <1>1. IInv => CursorOnRing
    BY DEF IInv
  <1> QED
    BY <1>1, Invariance, PTL

(***************************************************************************)
(* circlist.c implements the FIFO queue: circularlist_insert is Enqueue,   *)
(* the unlinking of circularlist_remove is Dequeue, every other step is    *)
(* invisible to the users of ->head and ->count.                           *)
(***************************************************************************)
THEOREM FifoRefinement == SpecH => ImplementsFifo
  <1>1. InitH => Fifo!Init
    BY DEF InitH, Init, Fifo!Init, Fifo!Shows
  <1>2. ASSUME IInv, IInv', [NextH]_hvars PROVE [Fifo!Next]_(Fifo!qvars)
    <2>1. ASSUME NEW n \in Node, InsertH(n) PROVE Fifo!Enqueue(n)
      BY <1>2, <2>1 DEF IInv, RingIsQueue, InsertH, Insert, Fifo!Enqueue, Fifo!Shows
    <2>2. ASSUME RemoveUnlinkH PROVE \E i \in 1..Len(q) : Fifo!Dequeue(i)
      BY <1>2, <2>2 DEF IInv, RingIsQueue, RemoveUnlinkH, Fifo!Dequeue, Fifo!Shows
    <2>3. CASE UNCHANGED hvars
      BY <2>3 DEF hvars, Fifo!qvars
    <2>4. CASE NextH
      BY <2>1, <2>2, <2>4 DEF NextH, Fifo!Next, Fifo!qvars,
           RemoveBegin, RemoveSearch, TraverseBegin, TraverseStep
    <2> QED
      BY <1>2, <2>3, <2>4
  <1> QED
    BY <1>1, <1>2, Invariance, PTL DEF SpecH, ImplementsFifo, Fifo!Spec
=============================================================================
