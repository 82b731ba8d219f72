---------------------------- MODULE MCClientList ----------------------------
(***************************************************************************)
(* Small instances of ClientList.                                          *)
(***************************************************************************)
EXTENDS ClientList, TLC

CONSTANTS c1, c2, c3      \* connections: the second is another user's

MCUser == [c \in Conns |-> IF c = c2 THEN "bob" ELSE "ann"]

\* The connections of one user may be exchanged.
Symmetry == Permutations({c1, c3})
=============================================================================
