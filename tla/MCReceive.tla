----------------------------- MODULE MCReceive ------------------------------
(***************************************************************************)
(* A small instance of Logic for TLC: a header of two bytes, a client that *)
(* sends up to ten and is closed for a run of three packets too soon, the  *)
(* lengths of a header alone, a Login and a Register, and one too short.   *)
(***************************************************************************)
EXTENDS Logic

TheFields == {1, HeaderLen, HeaderLen + BodyLen(CMD_LOGIN), HeaderLen + BodyLen(CMD_REGISTER)}

=============================================================================
