------------------------------ MODULE Enumeration ------------------------------
(***************************************************************************)
(* Sets of numbers in order, and the elements of a sequence that a loop    *)
(* keeps, in their order.                                                  *)
(***************************************************************************)
EXTENDS Integers, Sequences, FiniteSets

\* The elements of S in order: the k-th is the one that k - 1 are below of.
InOrder(S) ==
    [k \in 1 .. Cardinality(S) |-> CHOOSE n \in S : Cardinality({m \in S : m < n}) = k - 1]

\* The elements of s at the places of D.
Picked(s, D) == [k \in DOMAIN InOrder(D) |-> s[InOrder(D)[k]]]
================================================================================
