------------------------------- MODULE CircList -------------------------------
(***************************************************************************)
(* The doubly linked circular list of circlist.c, pointer by pointer.      *)
(*                                                                         *)
(* Every operation runs under rq->lock, so the assignments of an insertion *)
(* or of the final unlinking are one step.  The two loops of the file (the *)
(* search of circularlist_remove and the walk of                           *)
(* circularlist_traverse_debug) have no bound of their own: they end only  *)
(* when the pointers lead them to the node they look for.  They are        *)
(* therefore modelled one iteration per step.  numSeenHead, which is       *)
(* counted and never read, is left out; so is last_chosen, which is never  *)
(* accessed.                                                               *)
(*                                                                         *)
(* The callers are in circular.c: __enqueue_entity always passes the       *)
(* list's head as after_node, __dequeue_entity passes the node to remove.  *)
(* `linked' is the callers' knowledge of which nodes they have put on the  *)
(* list; that they insert only nodes that are off the list and remove only *)
(* nodes that are on it is what RoundRobin shows of them (NoListFault).    *)
(***************************************************************************)
EXTENDS Naturals

CONSTANTS
    Node,     \* the run_circular_node of every task
    NULL,
    Garbage   \* what an uninitialised list_head may contain

ASSUME NullAssumption == NULL \notin Node
ASSUME GarbageAssumption == Garbage \subseteq Node \cup {NULL}

VARIABLES
    head,    \* circular_list.head
    count,   \* circular_list.count
    next,    \* list_head.next of every node
    prev,    \* list_head.prev of every node
    linked,  \* the nodes the callers have put on the list
    pc,      \* "ready", or the loop that is running
    link,    \* the cursor of that loop
    node     \* the argument of circularlist_remove

lvars == <<head, count, next, prev, linked, pc, link, node>>

Ptr == Node \cup {NULL}

TypeOK ==
    /\ head \in Ptr
    /\ count \in Nat
    /\ next \in [Node -> Ptr]
    /\ prev \in [Node -> Ptr]
    /\ linked \in SUBSET Node
    /\ pc \in {"ready", "remove", "traverse"}
    /\ link \in Ptr
    /\ node \in Ptr

(***************************************************************************)
(* run_circular_node is never initialised: a task starts with the pointers *)
(* its parent had when task_struct was copied, so any value is possible.   *)
(***************************************************************************)
Init ==
    /\ head = NULL
    /\ count = 0
    /\ next \in [Node -> Garbage]
    /\ prev \in [Node -> Garbage]
    /\ linked = {}
    /\ pc = "ready"
    /\ link = NULL
    /\ node = NULL

\* Mutant: after_node->prev is not updated.
InsertForgetsBack(after_node, new_node) ==
    /\ IF count > 0
       THEN /\ next' = [next EXCEPT ![new_node] = after_node,
                                    ![prev[after_node]] = new_node]
            /\ prev' = [prev EXCEPT ![new_node] = prev[after_node]]
            /\ UNCHANGED head
       ELSE /\ head' = new_node
            /\ next' = [next EXCEPT ![new_node] = new_node]
            /\ prev' = [prev EXCEPT ![new_node] = new_node]
    /\ count' = count + 1

circularlist_insert(after_node, new_node) ==
    /\ IF count > 0
       THEN LET back == prev[after_node] IN
            /\ next' = [next EXCEPT ![new_node] = after_node, ![back] = new_node]
            /\ prev' = [prev EXCEPT ![new_node] = back, ![after_node] = new_node]
            /\ UNCHANGED head
       ELSE /\ head' = new_node
            /\ next' = [next EXCEPT ![new_node] = new_node]
            /\ prev' = [prev EXCEPT ![new_node] = new_node]
    /\ count' = count + 1

\* __enqueue_entity: "before the head" of a ring is its tail.
Insert(n) ==
    /\ pc = "ready"
    /\ n \notin linked
    /\ circularlist_insert(head, n)
    /\ linked' = linked \cup {n}
    /\ UNCHANGED <<pc, link, node>>

\* circularlist_remove up to its loop; it returns at once on an empty list.
RemoveBegin(n) ==
    /\ pc = "ready"
    /\ n \in linked
    /\ head # NULL
    /\ pc' = "remove"
    /\ link' = head
    /\ node' = n
    /\ UNCHANGED <<head, count, next, prev, linked>>

RemoveSearch ==
    /\ pc = "remove"
    /\ link # node
    /\ link' = next[link]
    /\ UNCHANGED <<head, count, next, prev, linked, pc, node>>

\* Mutant: the head moves on whichever node is removed.
UnlinkMovesHead ==
    /\ next' = IF count > 1 THEN [next EXCEPT ![prev[link]] = next[link]] ELSE next
    /\ prev' = IF count > 1 THEN [prev EXCEPT ![next[link]] = prev[link]] ELSE prev
    /\ head' = IF count > 1 THEN next[link] ELSE NULL
    /\ count' = count - 1

\* The end of circularlist_remove; the second assignment reads what the first wrote.
unlink_node ==
    /\ IF count > 1
       THEN LET nx == [next EXCEPT ![prev[link]] = next[link]] IN
            /\ next' = nx
            /\ prev' = [prev EXCEPT ![nx[link]] = prev[link]]
            /\ head' = IF link = head THEN nx[link] ELSE head
       ELSE /\ head' = NULL
            /\ UNCHANGED <<next, prev>>
    /\ count' = count - 1

\* The loop has found the node: take it out.
RemoveUnlink ==
    /\ pc = "remove"
    /\ link = node
    /\ unlink_node
    /\ linked' = linked \ {node}
    /\ pc' = "ready"
    /\ link' = NULL
    /\ node' = NULL

\* circularlist_traverse_debug walks the ring once, from head to head.
TraverseBegin ==
    /\ pc = "ready"
    /\ head # NULL
    /\ pc' = "traverse"
    /\ link' = head
    /\ UNCHANGED <<head, count, next, prev, linked, node>>

TraverseStep ==
    /\ pc = "traverse"
    /\ IF next[link] = head
       THEN pc' = "ready" /\ link' = NULL
       ELSE pc' = pc /\ link' = next[link]
    /\ UNCHANGED <<head, count, next, prev, linked, node>>

Next ==
    \/ \E n \in Node : Insert(n)
    \/ \E n \in Node : RemoveBegin(n)
    \/ RemoveSearch
    \/ RemoveUnlink
    \/ TraverseBegin
    \/ TraverseStep

\* The code of a loop is never left by anything but its own exit condition.
Fairness == WF_lvars(RemoveSearch) /\ WF_lvars(RemoveUnlink) /\ WF_lvars(TraverseStep)

Spec == Init /\ [][Next]_lvars /\ Fairness
=============================================================================
