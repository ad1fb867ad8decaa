------------------------------ MODULE CircQueue ------------------------------
(***************************************************************************)
(* What the run queue of the circular scheduling class relies on: a FIFO   *)
(* queue of distinct nodes.  Its users see two things only, the node that  *)
(* is served next (`first', circular_list.head) and the number of nodes    *)
(* (`len', circular_list.count); the order `q' is internal.  A node is     *)
(* added behind all others and may be taken out from any position.         *)
(* CircListHistory shows that the pointer code of circlist.c implements    *)
(* this specification.                                                     *)
(***************************************************************************)
EXTENDS Naturals, Sequences

CONSTANTS Node, NULL

VARIABLES q, first, len

qvars == <<q, first, len>>

\* The sequence s without the element at position i.
WithoutIndex(s, i) ==
    [j \in 1..(Len(s) - 1) |-> IF j < i THEN s[j] ELSE s[j + 1]]

\* What a user of the queue can observe of the order s.
Shows(s, f, l) ==
    /\ f = IF s = <<>> THEN NULL ELSE s[1]
    /\ l = Len(s)

Init ==
    /\ q = <<>>
    /\ Shows(q, first, len)

Enqueue(n) ==
    /\ \A i \in 1..Len(q) : q[i] # n
    /\ q' = Append(q, n)
    /\ Shows(q', first', len')

Dequeue(i) ==
    /\ q' = WithoutIndex(q, i)
    /\ Shows(q', first', len')

Next ==
    \/ \E n \in Node : Enqueue(n)
    \/ \E i \in 1..Len(q) : Dequeue(i)

Spec == Init /\ [][Next]_qvars
=============================================================================
