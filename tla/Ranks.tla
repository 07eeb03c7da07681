------------------------------- MODULE Ranks -------------------------------
(***************************************************************************)
(* The elements of a finite set of numbers in their order, by counting:    *)
(* the k-th is the one up to which there are k.  SetToSortSeq gives the    *)
(* same sequence, by an operator of TLC's that has no definition to prove  *)
(* anything from.                                                          *)
(***************************************************************************)
EXTENDS Integers, FiniteSets

Ranked(S, k) == {x \in S : Cardinality({y \in S : y <= x}) = k}
InOrder(S) == [k \in 1..Cardinality(S) |-> CHOOSE x \in Ranked(S, k) : TRUE]
=============================================================================
