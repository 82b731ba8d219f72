------------------------------ MODULE MCServer ------------------------------
(***************************************************************************)
(* A small instance of Server.                                             *)
(***************************************************************************)
EXTENDS Server
CONSTANTS p1, c1, c2

OnePort == <<p1>>

\* Two connections for which descriptors run out with the first file; one with a
\* script and a file.
Tight == [maxFd |-> 5, conns |-> {c1, c2}]
Roomy == [maxFd |-> 9, conns |-> {c1}]
TightAndRoomy == {Tight, Roomy}
=============================================================================
