---------------------------- MODULE ReplyStream ----------------------------
(***************************************************************************)
(* What a client may rely on, whatever threads do behind its socket: the   *)
(* bytes it receives are replies to its own requests, each reply at most   *)
(* once and each whole, one after the other.  Replies may be missing and   *)
(* may come in any order.                                                  *)
(*                                                                         *)
(* A reply is numbered like the request it answers; wire[c] holds, for     *)
(* every unit of data written to c, the number of the reply it is part of. *)
(***************************************************************************)
EXTENDS Naturals, Sequences, Functions

CONSTANTS
  Connections,
  Size          \* units in a reply

VARIABLES
  asked,        \* requests received from the client
  wire          \* units written to the client

Init ==
  /\ asked = [c \in Connections |-> 0]
  /\ wire = [c \in Connections |-> <<>>]

Ask(c) ==
  /\ asked' = [asked EXCEPT ![c] = @ + 1]
  /\ UNCHANGED wire

\* How much of the last reply is still to come.
Missing(c) == IF Len(wire[c]) % Size = 0 THEN 0 ELSE Size - (Len(wire[c]) % Size)

\* k more units of reply n: the last reply goes on, or a new one starts.
Write(c, n, k) ==
  /\ IF Missing(c) > 0
     THEN n = wire[c][Len(wire[c])] /\ k <= Missing(c)
     ELSE n \notin Range(wire[c]) /\ k <= Size
  /\ wire' = [wire EXCEPT ![c] = @ \o [i \in 1 .. k |-> n]]
  /\ UNCHANGED asked

\* The next client.
Accept(c) ==
  /\ asked' = [asked EXCEPT ![c] = 0]
  /\ wire' = [wire EXCEPT ![c] = <<>>]

Next ==
  \E c \in Connections :
    \/ Ask(c)
    \/ \E n \in 1 .. asked[c], k \in 1 .. Size : Write(c, n, k)
    \/ Accept(c)

Spec == Init /\ [][Next]_<<asked, wire>>

=============================================================================
