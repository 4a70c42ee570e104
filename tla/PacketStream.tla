---------------------------- MODULE PacketStream ----------------------------
(***************************************************************************)
(* What receiving promises: the bytes of a client are cut into packets, in *)
(* order and without gaps but for headers skipped whole.  A byte is named  *)
(* by its position in the stream; a packet is its bytes.                   *)
(***************************************************************************)
EXTENDS Naturals, Sequences

CONSTANTS HeaderLen,  \* bytes of a header, which starts every packet
          Lengths     \* lengths of a packet, its header included

VARIABLES
  next,     \* where the next packet starts; 0 when nobody is connected
  packets,  \* the packets handed on
  open      \* the client is connected

vars == <<next, packets, open>>

Init == next = 0 /\ packets = <<>> /\ open = FALSE

Connect == ~open /\ next' = 0 /\ packets' = <<>> /\ open' = TRUE

Packet(start, len) == [i \in 0 .. len - 1 |-> start + i]

Deliver(len) ==
  /\ open
  /\ packets' = Append(packets, Packet(next, len))
  /\ next' = next + len
  /\ UNCHANGED open

\* A header with an illegal length is skipped.
Skip ==
  /\ open
  /\ next' = next + HeaderLen
  /\ UNCHANGED <<packets, open>>

\* The client leaves, or is closed, for instance for a packet too many.
Close == open /\ open' = FALSE /\ next' = 0 /\ UNCHANGED packets

Next ==
  \/ Connect
  \/ \E len \in Lengths : Deliver(len)
  \/ Skip
  \/ Close

Spec == Init /\ [][Next]_vars

=============================================================================
