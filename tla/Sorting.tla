------------------------------- MODULE Sorting -------------------------------
(***************************************************************************)
(* The rows of a query with an ORDER BY.  SortSeq of the TLC module        *)
(* defines no list when two different rows tie; here they stay in the      *)
(* order they had.                                                         *)
(***************************************************************************)
EXTENDS Naturals, FiniteSets, Sequences

\* The numbers 1..n in the order R, a set of pairs: each has as many before it
\* as its place says.
Arrangement(n, R) ==
    [k \in 1..n |-> CHOOSE i \in 1..n : Cardinality({j \in 1..n : <<j, i>> \in R}) = k - 1]

Sorted(list, Before(_, _)) ==
    LET n == Len(list)
        R == {p \in (1..n) \X (1..n) :
                 \/ Before(list[p[1]], list[p[2]])
                 \/ ~Before(list[p[2]], list[p[1]]) /\ p[1] < p[2]}
        order == Arrangement(n, R)
    IN [k \in 1..n |-> list[order[k]]]
=============================================================================
