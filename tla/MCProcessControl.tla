-------------------------- MODULE MCProcessControl --------------------------
(***************************************************************************)
(* Small instances of ProcessControl for TLC.                              *)
(***************************************************************************)
EXTENDS ProcessControl

=============================================================================
