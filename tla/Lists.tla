-------------------------------- MODULE Lists --------------------------------
(***************************************************************************)
(* Rows listed in an order, for the components that answer with a sorted   *)
(* list: an order is a set of pairs, and each row of a list is in the      *)
(* place that the number of those before it gives it.                      *)
(***************************************************************************)
EXTENDS Naturals, FiniteSets

\* The members of S that R puts before k.
Preceding(S, R, k) == {j \in S : <<j, k>> \in R}

\* ORDER BY, sorted: the members of S in the order R.
InOrder(S, R) ==
  [n \in 1..Cardinality(S) |->
     CHOOSE k \in S : Cardinality(Preceding(S, R, k)) = n - 1]

\* ORDER BY id ASC
Ascending(ids) == InOrder(ids, {p \in ids \X ids : p[1] < p[2]})
=============================================================================
