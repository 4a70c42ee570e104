---------------------------- MODULE ReceiveFlood ----------------------------
(***************************************************************************)
(* Receiving with the flood test switched on (flood_ak_enable_): Receive   *)
(* asks FloodTest for each complete packet, and hands the packet on or     *)
(* closes the client; a new client starts with both sets of fields reset.  *)
(* Module Logic adds the pool that the packets are handed to.              *)
(***************************************************************************)
EXTENDS Receive, FloodTest

ASSUME FloodAssumption ==
  /\ flood_time_interval_ \in Nat \ {0}
  /\ flood_kick_count_ \in Nat \ {0}

allVars == <<vars, floodVars>>

ReadInit == Init /\ FloodInit

Accepted == GetOneToUse /\ ResetFlood

\* ReadRequestHandler: a piece that does not complete a packet.
Piece(r) ==
  /\ \/ HeadPart(r) \/ BodyPart(r)
     \/ \E len \in Fields : HeadIllegal(r, len) \/ HeadBody(r, len)
  /\ UNCHANGED floodVars

\* A piece that does, and the verdict on the packet.
Package(r, flood) ==
  /\ HeadOnly(r, flood) \/ BodyDone(r, flood)
  /\ TestFlood(flood)

Tick == open /\ TimePasses /\ UNCHANGED vars

-----------------------------------------------------------------------------
\* A client that floods the server is closed with the packet that makes it a
\* flood, however its packets are spread over reads.
FloodCaught == open => ~Flood

\* A client is closed by the test only after packets of its own, and not of
\* the client before it, that came each too soon after the other.
KickNeedsRun == flood_attack_count >= flood_kick_count_ => Run /\ ~open

=============================================================================
