------------------------------ MODULE Receive -------------------------------
(***************************************************************************)
(* Receiving on one Connection.  The epoll thread calls ReadRequestHandler *)
(* for every readable event; each call receives what it can of the header  *)
(* or of the body, whichever it is in, so that a packet may come in any    *)
(* number of pieces.  A complete packet is handed to the thread pool.      *)
(*                                                                         *)
(* A byte is its position in the client's stream.  The length a header     *)
(* gives is any number in Fields; the flood test is a verdict, which       *)
(* module FloodTest works out.                                             *)
(***************************************************************************)
EXTENDS Integers, Sequences

CONSTANTS
  HeaderLen,  \* pkg_header_len_
  MaxLength,  \* PKG_MAX_LENGTH
  Fields,     \* values of pkg_len
  Verdicts,   \* results of TestFlood; {FALSE} when flood_ak_enable_ is off
  MaxStream,  \* bound: bytes of one client
  Junk        \* a byte nobody has written

ASSUME ReceiveAssumption ==
  /\ HeaderLen \in Nat \ {0}
  /\ MaxLength \in Nat
  /\ Fields \subseteq Nat
  /\ Verdicts \subseteq BOOLEAN
  /\ MaxStream \in Nat
  /\ Junk \notin Nat

VARIABLES
  used,     \* the Connection is not in the free pool
  open,     \* its client is connected
  pos,      \* bytes received from the client
  curStat,  \* cur_stat
  buf,      \* precv_buf: the array it points into and the index
  recvLen,  \* recv_len
  head,     \* head_info
  mem,      \* what precv_mem_pointer points to, <<>> when it is null
  packets   \* packets handed to the thread pool

vars == <<used, open, pos, curStat, buf, recvLen, head, mem, packets>>

Indices(n) == 0 .. n - 1
NoMem == <<>>

HeadStates == {"Head_Init", "Haed_Recving"}
BodyStates == {"Body_Init", "Body_Recving"}

Legal(len) == len >= HeaderLen /\ len <= MaxLength - HeaderLen

Init ==
  /\ used = FALSE /\ open = FALSE
  /\ pos = 0
  /\ curStat = "Head_Init"
  /\ buf = [in |-> "head", at |-> 0]
  /\ recvLen = HeaderLen
  /\ head = [i \in Indices(HeaderLen) |-> Junk]
  /\ mem = NoMem
  /\ packets = <<>>

\* Ready for the next header.
Restart ==
  /\ curStat' = "Head_Init"
  /\ buf' = [in |-> "head", at |-> 0]
  /\ recvLen' = HeaderLen

\* GetOneToUse, for a new client.
GetOneToUse ==
  /\ ~used
  /\ used' = TRUE /\ open' = TRUE
  /\ pos' = 0 /\ packets' = <<>>
  /\ mem' = NoMem
  /\ Restart
  /\ UNCHANGED head

-----------------------------------------------------------------------------
\* The array after recv has put the next r bytes where precv_buf points.
Stored(array, r) ==
  [i \in DOMAIN array |-> IF i \in buf.at .. buf.at + r - 1
                          THEN pos + (i - buf.at) ELSE array[i]]

\* recv returns r bytes.
Recv(r) ==
  /\ open
  /\ r \in 1 .. recvLen
  /\ pos + r <= MaxStream
  /\ pos' = pos + r
  /\ head' = IF buf.in = "head" THEN Stored(head, r) ELSE head

\* Mutant of Complete: the first piece of a header passes for all of it.
MutComplete(r) == IF curStat = "Head_Init" THEN r <= HeaderLen ELSE r = recvLen

\* All that was asked for.
Complete(r) == IF curStat = "Head_Init" THEN r = HeaderLen ELSE r = recvLen

\* Mutant of Advance: precv_buf stays where it is.
MutAdvance(r) ==
  /\ curStat' = IF curStat \in HeadStates THEN "Haed_Recving" ELSE "Body_Recving"
  /\ recvLen' = recvLen - r
  /\ UNCHANGED buf

\* A part of it.
Advance(r) ==
  /\ curStat' = IF curStat \in HeadStates THEN "Haed_Recving" ELSE "Body_Recving"
  /\ buf' = [buf EXCEPT !.at = @ + r]
  /\ recvLen' = recvLen - r

\* Mutant of WaitRequestHandlerProcPlast: precv_mem_pointer is not reset.
MutPlastNoReset(message, flood) ==
  /\ IF flood
     THEN open' = FALSE /\ UNCHANGED packets
     ELSE packets' = Append(packets, message) /\ UNCHANGED open
  /\ mem' = message
  /\ Restart

\* The message goes to the thread pool, or the client is closed.
WaitRequestHandlerProcPlast(message, flood) ==
  /\ IF flood
     THEN open' = FALSE /\ UNCHANGED packets
     ELSE packets' = Append(packets, message) /\ UNCHANGED open
  /\ mem' = NoMem
  /\ Restart

HeadPart(r) ==
  /\ curStat \in HeadStates
  /\ Recv(r) /\ ~Complete(r)
  /\ Advance(r)
  /\ UNCHANGED <<used, open, mem, packets>>

\* WaitRequestHandlerProcP1, with the length len in the header.
HeadIllegal(r, len) ==
  /\ curStat \in HeadStates
  /\ Recv(r) /\ Complete(r)
  /\ ~Legal(len)
  /\ Restart
  /\ UNCHANGED <<used, open, mem, packets>>

HeadOnly(r, flood) ==
  /\ curStat \in HeadStates
  /\ Recv(r) /\ Complete(r)
  /\ HeaderLen \in Fields /\ Legal(HeaderLen)
  /\ WaitRequestHandlerProcPlast([i \in Indices(HeaderLen) |-> head'[i]], flood)
  /\ UNCHANGED used

\* The buffer for the packet is allocated and the header copied.
HeadBody(r, len) ==
  /\ curStat \in HeadStates
  /\ Recv(r) /\ Complete(r)
  /\ Legal(len) /\ len # HeaderLen
  /\ mem' = [i \in Indices(len) |-> IF i < HeaderLen THEN head'[i] ELSE Junk]
  /\ curStat' = "Body_Init"
  /\ buf' = [in |-> "mem", at |-> HeaderLen]
  /\ recvLen' = len - HeaderLen
  /\ UNCHANGED <<used, open, packets>>

BodyPart(r) ==
  /\ curStat \in BodyStates
  /\ Recv(r) /\ ~Complete(r)
  /\ Advance(r)
  /\ mem' = Stored(mem, r)
  /\ UNCHANGED <<used, open, packets>>

BodyDone(r, flood) ==
  /\ curStat \in BodyStates
  /\ Recv(r) /\ Complete(r)
  /\ WaitRequestHandlerProcPlast(Stored(mem, r), flood)
  /\ UNCHANGED used

-----------------------------------------------------------------------------
\* The client is closed, here or in another thread, and perhaps in the middle
\* of a packet.
Closed ==
  /\ open
  /\ open' = FALSE
  /\ UNCHANGED <<used, pos, curStat, buf, recvLen, head, mem, packets>>

\* Back to the free pool, some time after it was closed.
PutOneToFree ==
  /\ used /\ ~open
  /\ used' = FALSE
  /\ mem' = NoMem
  /\ UNCHANGED <<open, pos, curStat, buf, recvLen, head, packets>>

Next ==
  \/ GetOneToUse
  \/ \E r \in 1 .. MaxStream :
       \/ HeadPart(r) \/ BodyPart(r)
       \/ \E flood \in Verdicts : HeadOnly(r, flood) \/ BodyDone(r, flood)
       \/ \E len \in Fields : HeadIllegal(r, len) \/ HeadBody(r, len)
  \/ Closed
  \/ PutOneToFree

Spec == Init /\ [][Next]_vars

-----------------------------------------------------------------------------
Byte == Nat \cup {Junk}
IsArray(a, lens) == \E n \in lens : a \in [Indices(n) -> Byte]

\* Every variable has its type.
TypeOK ==
  /\ used \in BOOLEAN /\ open \in BOOLEAN
  /\ pos \in 0 .. MaxStream
  /\ curStat \in HeadStates \cup BodyStates
  /\ buf \in [in : {"head", "mem"}, at : Nat]
  /\ recvLen \in Nat
  /\ IsArray(head, {HeaderLen})
  /\ IsArray(mem, 0 .. MaxLength)
  /\ \A k \in DOMAIN packets : IsArray(packets[k], HeaderLen .. MaxLength)

Array == IF buf.in = "head" THEN head ELSE mem

\* recv never writes outside the array: what is still asked for, recv_len, is
\* exactly what is left of it from precv_buf on, and is not nothing, which
\* recv would take for a client that has left.
Fits ==
  open => /\ DOMAIN Array = Indices(buf.at + recvLen)
          /\ recvLen > 0
          /\ buf.in = "head" <=> curStat \in HeadStates

\* precv_mem_pointer owns a buffer exactly while a body is being received, so
\* that PutOneToFree frees what was not handed on, and only that.
BufferOwned == mem # NoMem <=> used /\ curStat \in BodyStates

\* The Connection is a PacketStream: the packets handed on are the client's
\* bytes cut without gaps, in whatever pieces they came.
Stream == INSTANCE PacketStream WITH
  Lengths <- {len \in Fields : Legal(len)},
  next    <- IF open THEN pos - buf.at ELSE 0
CutsPackets == Stream!Spec

=============================================================================
