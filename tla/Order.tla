-------------------------------- MODULE Order --------------------------------
(***************************************************************************)
(* Numbers by their rank in a finite set: what std::remove_if keeps, in    *)
(* its order, and what the kernel gives, the lowest first.                 *)
(***************************************************************************)
EXTENDS Integers, FiniteSets

Lower(S, n) == {m \in S : m < n}

\* The number that has k lower ones, as a set; none if S is too small.
Nth(S, k) == {n \in S : Cardinality(Lower(S, n)) = k}

\* All of S, the lowest first.
InOrder(S) == [k \in 1..Cardinality(S) |-> CHOOSE n \in Nth(S, k - 1) : TRUE]
=============================================================================
