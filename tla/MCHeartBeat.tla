---------------------------- MODULE MCHeartBeat -----------------------------
(***************************************************************************)
(* Small instances of HeartBeat for TLC.                                   *)
(***************************************************************************)
EXTENDS HeartBeat, TLC

Symmetry == Permutations(Conns) \cup Permutations(Events)
=============================================================================
