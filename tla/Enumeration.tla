---------------------------- MODULE Enumeration ----------------------------
(* Finite sets of numbers in increasing order.                             *)
EXTENDS Naturals, FiniteSets

\* The elements of S from the least to the greatest, as a function of 1..Cardinality(S).
Ascending(S) ==
    CHOOSE f \in [1..Cardinality(S) -> S] :
        \A j, k \in 1..Cardinality(S) : j < k => f[j] < f[k]

=============================================================================
