------------------------------- MODULE Sorted -------------------------------
(* Time stamps in the order of time. *)
EXTENDS Integers, FiniteSets

\* How many of the numbers of S are less than x.
Rank(S, x) == Cardinality({y \in S : y < x})

\* The numbers of the finite set S, ascending: the i-th has i - 1 below it.
Ascending(S) == [i \in 1..Cardinality(S) |-> CHOOSE x \in S : Rank(S, x) = i - 1]

\* The n newest of the times in S, or all of them.
Newest(S, n) == {x \in S : Cardinality({y \in S : y > x}) < n}

============================================================================
