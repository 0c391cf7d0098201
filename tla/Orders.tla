-------------------------------- MODULE Orders --------------------------------
(***************************************************************************)
(* A finite set in a given order, which is a set of pairs.  It says in one *)
(* definition, without recursion, what a sort leaves: the k-th element is  *)
(* the one that k - 1 others come before.                                  *)
(***************************************************************************)
EXTENDS Naturals, FiniteSets

InOrder(S, R) ==
  [k \in 1..Cardinality(S) |->
     CHOOSE x \in S : Cardinality({y \in S : <<y, x>> \in R}) = k - 1]
=============================================================================
