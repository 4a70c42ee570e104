------------------------------ MODULE MCBuffer ------------------------------
(***************************************************************************)
(* An instance of Buffer small enough for TLC.                             *)
(***************************************************************************)
EXTENDS Buffer

TheBytes == {CR, LF}
=============================================================================
