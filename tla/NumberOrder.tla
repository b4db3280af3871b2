------------------------------ MODULE NumberOrder ------------------------------
(* Numbers in their order: what is kept of a list keeps the order of its       *)
(* positions (the comprehensions and loops that filter a list), and codes are  *)
(* written in increasing order. SelectSeq and SetToSortSeq would say the same; *)
(* they are written without recursion here so that it can be proved about.     *)
EXTENDS Integers, FiniteSets

\* The members of a finite set of numbers, from the least to the greatest: the
\* n-th is the one with n - 1 members below it.
Ascending(S) ==
    [n \in 1..Cardinality(S) |->
        CHOOSE i \in S : Cardinality({j \in S : j < i}) = n - 1]
=============================================================================
