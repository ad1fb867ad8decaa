------------------------------- MODULE Lists -------------------------------
(***************************************************************************)
(* Lists in which nothing occurs twice, such as run queues.                *)
(***************************************************************************)
EXTENDS Integers, Sequences

Elems(s) == {s[i] : i \in 1..Len(s)}

Distinct(s) == \A i, j \in 1..Len(s) : s[i] = s[j] => i = j

\* The sequence s, in which p occurs at most once, without p.
Delete(s, p) ==
    IF p \in Elems(s)
    THEN LET k == CHOOSE i \in 1..Len(s) : s[i] = p
         IN  [i \in 1..(Len(s) - 1) |-> IF i < k THEN s[i] ELSE s[i + 1]]
    ELSE s

\* The sequence s with p at position k, between its neighbours.
Insert(s, k, p) ==
    [i \in 1..(Len(s) + 1) |-> IF i < k THEN s[i] ELSE IF i = k THEN p ELSE s[i - 1]]
=============================================================================
