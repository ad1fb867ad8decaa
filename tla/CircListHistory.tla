--------------------------- MODULE CircListHistory ---------------------------
(***************************************************************************)
(* CircList with a history variable: q is the order in which the nodes now *)
(* on the list were inserted.  q is written and never read by the list     *)
(* code; it lets the pointers be compared with the queue they stand for.   *)
(***************************************************************************)
EXTENDS CircList, Sequences

VARIABLE q

hvars == <<head, count, next, prev, linked, pc, link, node, q>>

Fifo == INSTANCE CircQueue WITH first <- head, len <- count

InitH == Init /\ q = <<>>

InsertH(n) == Insert(n) /\ q' = Append(q, n)

RemoveUnlinkH ==
    /\ RemoveUnlink
    /\ \E i \in 1..Len(q) : q[i] = node /\ q' = Fifo!WithoutIndex(q, i)

NextH ==
    \/ \E n \in Node : InsertH(n)
    \/ \E n \in Node : RemoveBegin(n) /\ UNCHANGED q
    \/ RemoveSearch /\ UNCHANGED q
    \/ RemoveUnlinkH
    \/ TraverseBegin /\ UNCHANGED q
    \/ TraverseStep /\ UNCHANGED q

SpecH == InitH /\ [][NextH]_hvars

FairSpecH == SpecH /\ WF_hvars(RemoveSearch /\ UNCHANGED q)
                   /\ WF_hvars(RemoveUnlinkH)
                   /\ WF_hvars(TraverseStep /\ UNCHANGED q)

-----------------------------------------------------------------------------
Distinct == \A i, j \in 1..Len(q) : q[i] = q[j] => i = j

Succ(i) == IF i = Len(q) THEN 1 ELSE i + 1
Pred(i) == IF i = 1 THEN Len(q) ELSE i - 1

(***************************************************************************)
(* The pointers form exactly one ring, and it is the insertion order:      *)
(* following ->next from ->head visits the linked nodes oldest first and   *)
(* comes back to the head, ->prev is its inverse, and ->count is its       *)
(* length.  A wrong pointer assignment in circularlist_insert or in the    *)
(* unlinking of circularlist_remove splits or short-circuits the ring only *)
(* some operations later, for some positions of the node.                  *)
(***************************************************************************)
RingIsQueue ==
    /\ Distinct
    /\ linked = {q[i] : i \in 1..Len(q)}
    /\ count = Len(q)
    /\ head = IF q = <<>> THEN NULL ELSE q[1]
    /\ \A i \in 1..Len(q) : next[q[i]] = q[Succ(i)] /\ prev[q[i]] = q[Pred(i)]

(***************************************************************************)
(* While a loop runs, its cursor is on the ring: it is never NULL, nor a   *)
(* node that is off the list.  The search is moreover never past the node  *)
(* it looks for, which is why its while loop needs no second exit.         *)
(***************************************************************************)
CursorOnRing ==
    /\ pc \in {"remove", "traverse"} => \E i \in 1..Len(q) : q[i] = link
    /\ pc = "remove" =>
         \E i, j \in 1..Len(q) : q[i] = link /\ q[j] = node /\ i <= j

\* The loops of circularlist_remove and circularlist_traverse_debug end.
LoopsEnd == pc # "ready" ~> pc = "ready"

(***************************************************************************)
(* What the user of the list sees of it, ->head and ->count, is what a     *)
(* FIFO queue would show: circlist.c implements CircQueue.                 *)
(***************************************************************************)
ImplementsFifo == Fifo!Spec

=============================================================================
