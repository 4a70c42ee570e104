----------------------------- MODULE MCMinHeap ------------------------------
(***************************************************************************)
(* Small instances of MinHeap for TLC.                                     *)
(***************************************************************************)
EXTENDS MinHeap, TLC

Symmetry == Permutations(Events)

=============================================================================
