---------------------------- MODULE MCSendQueue ----------------------------
(***************************************************************************)
(* Instances of SendQueue small enough for TLC.                            *)
(***************************************************************************)
EXTENDS SendQueue

\* The pool threads, and the Connections, are interchangeable.
Symmetry == Permutations(Workers) \cup Permutations(Connections)
=============================================================================
