-------------------------- MODULE MCConnectionPool --------------------------
(***************************************************************************)
(* Instances of ConnectionPool small enough for TLC.                       *)
(***************************************************************************)
EXTENDS ConnectionPool, TLC

\* The clients, and the descriptors, are interchangeable.
Symmetry == Permutations(Clients) \cup Permutations(Fds)
=============================================================================
