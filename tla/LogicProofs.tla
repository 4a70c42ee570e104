---------------------------- MODULE LogicProofs ----------------------------
(***************************************************************************)
(* The packets a client sends are received as module Receive says although *)
(* the pool works on them at the same time, every block of memory has one  *)
(* owner, every answer carries the checksum of its own body, and only a    *)
(* run of packets that came too soon closes a client.                      *)
(***************************************************************************)
EXTENDS Logic, SequenceTheorems, FiniteSetTheorems, TLAPS

-----------------------------------------------------------------------------
(* Receiving alone.                                                        *)

\* Types of what receiving depends on.
Numbers ==
  /\ pos \in Nat /\ recvLen \in Nat
  /\ buf \in [in : {"head", "mem"}, at : Nat]
  /\ curStat \in HeadStates \cup BodyStates
  /\ used \in BOOLEAN /\ open \in BOOLEAN
  /\ open => used
  /\ DOMAIN head = Indices(HeaderLen)

\* In Head_Init nothing of the header has come, and the length of a packet in
\* progress is one a header may give.
Progress ==
  open => /\ curStat = "Head_Init" => recvLen = HeaderLen
          /\ curStat \in BodyStates =>
               \E len \in Fields : Legal(len) /\ buf.at + recvLen = len

\* What has been received of a packet are the last bytes of the client.
Contents ==
  open => /\ buf.at <= pos
          /\ \A i \in Indices(buf.at) : Array[i] = (pos - buf.at) + i

RInv == Numbers /\ Fits /\ Progress /\ Contents /\ BufferOwned

-----------------------------------------------------------------------------
LEMMA Places == /\ HeadStates \cap BodyStates = {}
                /\ "Head_Init" \in HeadStates /\ "Haed_Recving" \in HeadStates
                /\ "Body_Init" \in BodyStates /\ "Body_Recving" \in BodyStates
BY DEF HeadStates, BodyStates

\* The field of a legal header holds at least a header.
LEMMA LegalLength ==
  ASSUME NEW len \in Fields, Legal(len)
  PROVE  len \in Nat /\ HeaderLen \in Nat \ {0} /\ len >= HeaderLen
BY ReceiveAssumption DEF Legal

\* An array has one length.
LEMMA Left ==
  ASSUME NEW n \in Nat, NEW m \in Nat, Indices(n) = Indices(m)
  PROVE  n = m
<1>1. n <= m
  <2>1. CASE n = 0
    BY <2>1
  <2>2. CASE n > 0
    <3>1. n - 1 \in Indices(n)
      BY <2>2 DEF Indices
    <3> QED BY <3>1 DEF Indices
  <2> QED BY <2>1, <2>2
<1>2. m <= n
  <2>1. CASE m = 0
    BY <2>1
  <2>2. CASE m > 0
    <3>1. m - 1 \in Indices(m)
      BY <2>2 DEF Indices
    <3> QED BY <3>1 DEF Indices
  <2> QED BY <2>1, <2>2
<1> QED BY <1>1, <1>2

\* A Connection that receives into head_info receives a header: what has come
\* and what is asked for make up its length.
LEMMA HeadLength ==
  ASSUME RInv, open, curStat \in HeadStates
  PROVE  buf.in = "head" /\ Array = head /\ buf.at + recvLen = HeaderLen
<1>1. buf.in = "head" /\ Array = head
  BY DEF RInv, Fits, Array
<1>2. Indices(HeaderLen) = Indices(buf.at + recvLen)
  BY <1>1 DEF RInv, Fits, Numbers
<1> QED BY <1>1, <1>2, Left, ReceiveAssumption DEF RInv, Numbers

\* Complete holds exactly when all that was asked for has come.
LEMMA CompleteAll ==
  ASSUME RInv, open, NEW r \in Nat
  PROVE  Complete(r) <=> r = recvLen
BY DEF Complete, RInv, Progress

\* recv puts the next bytes where the last ones ended.
LEMMA StoredBytes ==
  ASSUME RInv, open, NEW r \in 1 .. recvLen
  PROVE  /\ DOMAIN Stored(Array, r) = Indices(buf.at + recvLen)
         /\ \A i \in Indices(buf.at + r) : Stored(Array, r)[i] = (pos - buf.at) + i
<1>1. DOMAIN Array = Indices(buf.at + recvLen)
  BY DEF RInv, Fits
<1>2. buf.at \in Nat /\ recvLen \in Nat /\ pos \in Nat
  BY DEF RInv, Numbers
<1>3. ASSUME NEW i \in Indices(buf.at + r)
      PROVE  Stored(Array, r)[i] = (pos - buf.at) + i
  <2>1. i \in DOMAIN Array
    BY <1>1, <1>2 DEF Indices
  <2>2. CASE i \in buf.at .. buf.at + r - 1
    BY <2>1, <2>2, <1>2 DEF Stored
  <2>3. CASE i \notin buf.at .. buf.at + r - 1
    <3>1. i \in Indices(buf.at)
      BY <2>3, <1>2 DEF Indices
    <3>2. Array[i] = (pos - buf.at) + i
      BY <3>1 DEF RInv, Contents
    <3> QED BY <2>1, <2>3, <3>2 DEF Stored
  <2> QED BY <2>2, <2>3
<1>4. DOMAIN Stored(Array, r) = DOMAIN Array
  BY DEF Stored
<1> QED BY <1>1, <1>3, <1>4

\* The array that is complete is the packet that starts buf.at before pos.
LEMMA StoredPacket ==
  ASSUME RInv, open, NEW r \in 1 .. recvLen, r = recvLen
  PROVE  Stored(Array, r) = Stream!Packet(pos - buf.at, buf.at + recvLen)
<1>1. /\ DOMAIN Stored(Array, r) = Indices(buf.at + recvLen)
      /\ \A i \in Indices(buf.at + recvLen) : Stored(Array, r)[i] = (pos - buf.at) + i
  BY StoredBytes
<1>2. Stored(Array, r) = [i \in DOMAIN Stored(Array, r) |-> Stored(Array, r)[i]]
  BY DEF Stored
<1> QED BY <1>1, <1>2 DEF Stream!Packet, Indices

-----------------------------------------------------------------------------
(* Each kind of step *)

\* A Connection made ready for the next header has nothing of it yet.
LEMMA Restarted ==
  ASSUME RInv, Restart, mem' = NoMem, pos' \in Nat,
         used' \in BOOLEAN, open' \in BOOLEAN, open' => used',
         DOMAIN head' = Indices(HeaderLen)
  PROVE  RInv'
<1>1. /\ buf' = [in |-> "head", at |-> 0]
      /\ curStat' = "Head_Init" /\ recvLen' = HeaderLen
  BY DEF Restart
<1>2. HeaderLen \in Nat /\ HeaderLen > 0
  BY ReceiveAssumption
<1>3. curStat' \in HeadStates /\ curStat' \notin BodyStates
  BY <1>1, Places
<1>4. Numbers'
  BY <1>1, <1>2, <1>3 DEF Numbers
<1>5. Array' = head'
  BY <1>1 DEF Array
<1>6. Fits'
  BY <1>1, <1>2, <1>3, <1>5 DEF Fits
<1>7. Progress'
  BY <1>1, <1>3 DEF Progress
<1>8. Contents'
  BY <1>1 DEF Contents, Indices
<1>9. BufferOwned'
  BY <1>3 DEF BufferOwned
<1> QED BY <1>4, <1>6, <1>7, <1>8, <1>9 DEF RInv

\* A piece that is not the last one moves the index on.
LEMMA Advanced ==
  ASSUME RInv, open, NEW r \in 1 .. recvLen, ~Complete(r), Advance(r),
         pos' = pos + r, used' = used, open' = open,
         Array' = Stored(Array, r), DOMAIN head' = DOMAIN head,
         mem' = NoMem <=> mem = NoMem
  PROVE  RInv'
<1>1. /\ buf' = [buf EXCEPT !.at = @ + r] /\ recvLen' = recvLen - r
      /\ curStat' = IF curStat \in HeadStates THEN "Haed_Recving" ELSE "Body_Recving"
  BY DEF Advance
<1>2. /\ buf.at \in Nat /\ recvLen \in Nat /\ pos \in Nat /\ r \in Nat /\ r <= recvLen
      /\ buf \in [in : {"head", "mem"}, at : Nat]
  BY DEF RInv, Numbers
<1>3. r # recvLen
  BY CompleteAll, <1>2
<1>4. /\ buf'.at = buf.at + r /\ buf'.in = buf.in /\ buf'.at \in Nat
      /\ buf' \in [in : {"head", "mem"}, at : Nat]
      /\ recvLen' \in Nat /\ recvLen' > 0 /\ buf'.at + recvLen' = buf.at + recvLen
      /\ pos' \in Nat /\ pos' - buf'.at = pos - buf.at
  BY <1>1, <1>2, <1>3
<1>5. /\ curStat' \in HeadStates <=> curStat \in HeadStates
      /\ curStat' \in BodyStates <=> curStat \in BodyStates
      /\ curStat' # "Head_Init"
      /\ curStat' \in HeadStates \cup BodyStates
  BY <1>1, Places DEF RInv, Numbers, HeadStates, BodyStates
<1>6. Numbers'
  BY <1>4, <1>5 DEF RInv, Numbers
<1>7. /\ DOMAIN Array' = Indices(buf'.at + recvLen')
      /\ \A i \in Indices(buf'.at) : Array'[i] = (pos' - buf'.at) + i
  BY <1>4, StoredBytes
<1>8. Fits'
  <2>1. DOMAIN Array' = Indices(buf'.at + recvLen') /\ recvLen' > 0
    BY <1>7, <1>4
  <2>2. buf'.in = "head" <=> curStat' \in HeadStates
    BY <1>4, <1>5 DEF RInv, Fits
  <2> QED BY <2>1, <2>2 DEF Fits
<1>9. Progress'
  BY <1>4, <1>5 DEF RInv, Progress, Legal
<1>10. Contents'
  <2>1. buf'.at <= pos'
    BY <1>2, <1>4 DEF RInv, Contents
  <2> QED BY <2>1, <1>7 DEF Contents
<1>11. BufferOwned'
  BY <1>5 DEF RInv, BufferOwned, NoMem
<1> QED BY <1>6, <1>8, <1>9, <1>10, <1>11 DEF RInv

\* The message is handed on or its client closed: the next header may come.
LEMMA Handed ==
  ASSUME RInv, open, NEW r \in 1 .. recvLen, NEW message, NEW flood \in Verdicts,
         WaitRequestHandlerProcPlast(message, flood), Recv(r), used' = used
  PROVE  RInv'
<1>1. /\ Restart /\ mem' = NoMem
      /\ open' \in BOOLEAN
  BY DEF WaitRequestHandlerProcPlast, RInv, Numbers
<1>2. pos' \in Nat /\ DOMAIN head' = Indices(HeaderLen)
  BY DEF Recv, Stored, RInv, Numbers
<1>3. used' \in BOOLEAN /\ (open' => used')
  BY DEF RInv, Numbers
<1> QED BY <1>1, <1>2, <1>3, Restarted

\* A legal header of a packet with a body: the buffer for the packet is there,
\* with the header in it.
LEMMA Begun ==
  ASSUME RInv, NEW r \in 1 .. MaxStream, NEW len \in Fields, HeadBody(r, len)
  PROVE  RInv'
<1>0. /\ open /\ r \in 1 .. recvLen /\ Complete(r) /\ curStat \in HeadStates
      /\ pos' = pos + r /\ Legal(len) /\ len # HeaderLen
      /\ UNCHANGED <<used, open>>
  BY DEF HeadBody, Recv
<1>1. /\ pos \in Nat /\ recvLen \in Nat /\ buf.at \in Nat /\ buf.at <= pos
      /\ len \in Nat /\ HeaderLen \in Nat \ {0} /\ len > HeaderLen
  BY <1>0, LegalLength DEF RInv, Numbers, Contents
<1>2. r = recvLen
  BY <1>0, <1>1, CompleteAll
<1>3. buf.in = "head" /\ Array = head /\ buf.at + recvLen = HeaderLen
  BY <1>0, HeadLength
<1>4. head' = Stored(Array, r)
  BY <1>3 DEF HeadBody, Recv
<1>5. /\ mem' = [i \in Indices(len) |-> IF i < HeaderLen THEN head'[i] ELSE Junk]
      /\ curStat' = "Body_Init" /\ buf' = [in |-> "mem", at |-> HeaderLen]
      /\ recvLen' = len - HeaderLen
  BY DEF HeadBody
<1>6. /\ DOMAIN head' = Indices(HeaderLen)
      /\ \A i \in Indices(HeaderLen) : head'[i] = (pos - buf.at) + i
  BY <1>0, <1>2, <1>3, <1>4, StoredBytes
<1>7. pos' - HeaderLen = pos - buf.at /\ pos' \in Nat /\ HeaderLen <= pos'
  BY <1>0, <1>1, <1>2, <1>3
<1>8. curStat' \in BodyStates /\ curStat' \notin HeadStates /\ curStat' # "Head_Init"
  BY <1>5, Places
<1>9. Numbers'
  <2>1. recvLen' \in Nat
    BY <1>1, <1>5
  <2>2. used' \in BOOLEAN /\ open' \in BOOLEAN /\ (open' => used')
    BY <1>0 DEF RInv, Numbers
  <2> QED BY <2>1, <2>2, <1>1, <1>5, <1>6, <1>7, <1>8 DEF Numbers
<1>10. Array' = mem'
  BY <1>5 DEF Array
<1>11. HeaderLen + (len - HeaderLen) = len
  BY <1>1
<1>12. Fits'
  <2>1. DOMAIN Array' = Indices(buf'.at + recvLen')
    BY <1>5, <1>10, <1>11
  <2>2. recvLen' > 0
    BY <1>1, <1>5
  <2> QED BY <2>1, <2>2, <1>5, <1>8 DEF Fits
<1>13. Progress'
  <2>1. len \in Fields /\ Legal(len)' /\ buf'.at + recvLen' = len
    BY <1>0, <1>5, <1>11 DEF Legal
  <2> QED BY <2>1, <1>8 DEF Progress
<1>14. Contents'
  <2>1. ASSUME NEW i \in Indices(HeaderLen)
        PROVE  mem'[i] = (pos' - HeaderLen) + i
    <3>1. i \in Indices(len) /\ i < HeaderLen
      BY <1>1 DEF Indices
    <3> QED BY <3>1, <1>5, <1>6, <1>7
  <2> QED BY <2>1, <1>5, <1>7, <1>10 DEF Contents
<1>15. BufferOwned'
  <2>1. DOMAIN mem' # {}
    <3>1. 0 \in Indices(len)
      BY <1>1 DEF Indices
    <3> QED BY <3>1, <1>5
  <2>2. mem' # NoMem
    BY <2>1 DEF NoMem
  <2> QED BY <2>2, <1>0, <1>8 DEF BufferOwned, RInv, Numbers
<1> QED BY <1>9, <1>12, <1>13, <1>14, <1>15 DEF RInv

LEMMA RInvInit == Init => RInv
<1> SUFFICES ASSUME Init PROVE RInv
  OBVIOUS
<1>1. curStat \in HeadStates /\ curStat \notin BodyStates
  BY Places DEF Init
<1>2. Numbers
  BY <1>1, ReceiveAssumption DEF Init, Numbers
<1> QED BY <1>1, <1>2 DEF Init, RInv, Fits, Progress, Contents, BufferOwned

LEMMA RInvStep == RInv /\ [Next]_vars => RInv'
<1> SUFFICES ASSUME RInv, [Next]_vars PROVE RInv'
  OBVIOUS
<1>1. CASE GetOneToUse
  BY <1>1, Restarted DEF GetOneToUse, RInv, Numbers
<1>2. ASSUME NEW r \in 1 .. MaxStream, HeadPart(r)
      PROVE  RInv'
  <2>1. /\ open /\ curStat \in HeadStates /\ r \in 1 .. recvLen /\ ~Complete(r)
        /\ Advance(r) /\ pos' = pos + r /\ UNCHANGED <<used, open, mem>>
    BY <1>2 DEF HeadPart, Recv
  <2>2. buf.in = "head" /\ Array = head
    BY <2>1, HeadLength
  <2>3. buf'.in = "head"
    BY <2>1, <2>2 DEF Advance, RInv, Numbers
  <2>4. head' = Stored(head, r)
    BY <1>2, <2>2 DEF HeadPart, Recv
  <2>5. Array' = Stored(Array, r) /\ DOMAIN head' = DOMAIN head
    BY <2>2, <2>3, <2>4 DEF Array, Stored
  <2> QED BY <2>1, <2>5, Advanced
<1>3. ASSUME NEW r \in 1 .. MaxStream, BodyPart(r)
      PROVE  RInv'
  <2>1. /\ open /\ curStat \in BodyStates /\ r \in 1 .. recvLen /\ ~Complete(r)
        /\ Advance(r) /\ pos' = pos + r /\ UNCHANGED <<used, open>>
        /\ mem' = Stored(mem, r)
    BY <1>3 DEF BodyPart, Recv
  <2>2. buf.in = "mem" /\ Array = mem
    BY <2>1, Places DEF RInv, Fits, Array, Numbers
  <2>3. buf'.in = "mem" /\ head' = head
    BY <1>3, <2>1, <2>2 DEF Advance, RInv, Numbers, BodyPart, Recv
  <2>4. Array' = Stored(Array, r)
    BY <2>1, <2>2, <2>3 DEF Array
  <2>5. mem # NoMem
    BY <2>1 DEF RInv, BufferOwned, Numbers
  <2>6. DOMAIN mem' = Indices(buf.at + recvLen)
    BY <2>1, <2>2, <2>4, StoredBytes DEF Stored
  <2>7. 0 \in DOMAIN mem'
    BY <2>1, <2>6 DEF RInv, Numbers, Indices
  <2>8. mem' # NoMem
    BY <2>7 DEF NoMem
  <2> QED BY <2>1, <2>3, <2>4, <2>5, <2>8, Advanced
<1>4. ASSUME NEW r \in 1 .. MaxStream, NEW flood \in Verdicts,
             HeadOnly(r, flood) \/ BodyDone(r, flood)
      PROVE  RInv'
  <2>1. CASE HeadOnly(r, flood)
    BY <2>1, Handed DEF HeadOnly, Recv
  <2>2. CASE BodyDone(r, flood)
    BY <2>2, Handed DEF BodyDone, Recv
  <2> QED BY <1>4, <2>1, <2>2
<1>5. ASSUME NEW r \in 1 .. MaxStream, NEW len \in Fields, HeadIllegal(r, len)
      PROVE  RInv'
  <2>1. /\ Restart /\ UNCHANGED <<used, open, mem>> /\ curStat \in HeadStates
        /\ pos' \in Nat /\ DOMAIN head' = Indices(HeaderLen)
    BY <1>5 DEF HeadIllegal, Recv, Stored, RInv, Numbers
  <2>2. mem' = NoMem
    BY <2>1, Places DEF RInv, BufferOwned
  <2> QED BY <2>1, <2>2, Restarted DEF RInv, Numbers
<1>6. ASSUME NEW r \in 1 .. MaxStream, NEW len \in Fields, HeadBody(r, len)
      PROVE  RInv'
  BY <1>6, Begun
<1>7. CASE Closed
  <2>1. /\ open' = FALSE /\ UNCHANGED <<used, pos, curStat, buf, recvLen, head, mem>>
    BY <1>7 DEF Closed
  <2>2. Numbers' /\ BufferOwned'
    BY <2>1 DEF RInv, Numbers, BufferOwned, NoMem
  <2> QED BY <2>1, <2>2 DEF RInv, Fits, Progress, Contents
<1>8. CASE PutOneToFree
  <2>1. /\ ~open /\ used' = FALSE /\ mem' = NoMem
        /\ UNCHANGED <<open, pos, curStat, buf, recvLen, head>>
    BY <1>8 DEF PutOneToFree
  <2>2. Numbers' /\ BufferOwned'
    BY <2>1 DEF RInv, Numbers, BufferOwned, NoMem
  <2> QED BY <2>1, <2>2 DEF RInv, Fits, Progress, Contents
<1>9. CASE UNCHANGED vars
  BY <1>9 DEF vars, RInv, Numbers, Fits, Array, Progress, Contents, BufferOwned, NoMem,
              Legal
<1> QED BY <1>1, <1>2, <1>3, <1>4, <1>5, <1>6, <1>7, <1>8, <1>9 DEF Next

LEMMA ReceiveInvariance == Spec => []RInv
BY RInvInit, RInvStep, PTL DEF Spec

\* recv never writes outside the array precv_buf points into.
THEOREM ReceiveFits == Spec => []Fits
<1>1. RInv => Fits
  BY DEF RInv
<1> QED BY <1>1, ReceiveInvariance, PTL

\* The buffer of an unfinished packet has exactly one owner, so that it is
\* freed, and freed once.
THEOREM BufferHasOneOwner == Spec => []BufferOwned
<1>1. RInv => BufferOwned
  BY DEF RInv
<1> QED BY <1>1, ReceiveInvariance, PTL

-----------------------------------------------------------------------------
(* The Connection is a PacketStream *)

\* What is handed on is the packet that starts where the last one ended.
LEMMA HandedOn ==
  ASSUME RInv, NEW r \in 1 .. recvLen, NEW flood \in Verdicts, NEW len \in Fields,
         Recv(r), r = recvLen, len = buf.at + recvLen,
         WaitRequestHandlerProcPlast(Stored(Array, r), flood)
  PROVE  IF flood THEN Stream!Close ELSE Stream!Deliver(len)
<1>1. Stored(Array, r) = Stream!Packet(pos - buf.at, len)
  BY StoredPacket DEF Recv
<1>2. /\ pos' = pos + recvLen /\ open /\ buf'.at = 0
      /\ pos \in Nat /\ recvLen \in Nat /\ buf.at \in Nat
  BY DEF Recv, WaitRequestHandlerProcPlast, Restart, RInv, Numbers
<1>3. CASE flood
  BY <1>2, <1>3 DEF WaitRequestHandlerProcPlast, Stream!Close
<1>4. CASE ~flood
  <2>1. packets' = Append(packets, Stored(Array, r)) /\ open' = open
    BY <1>4 DEF WaitRequestHandlerProcPlast
  <2>2. pos' - buf'.at = (pos - buf.at) + len
    BY <1>2
  <2> QED BY <1>1, <1>2, <1>4, <2>1, <2>2 DEF Stream!Deliver
<1> QED BY <1>3, <1>4

\* A packet that is complete, with a body or without.
LEMMA Packaged ==
  ASSUME RInv, NEW r \in 1 .. MaxStream, NEW flood \in Verdicts,
         HeadOnly(r, flood) \/ BodyDone(r, flood)
  PROVE  \E len \in Fields :
            Legal(len) /\ IF flood THEN Stream!Close ELSE Stream!Deliver(len)
<1>1. CASE HeadOnly(r, flood)
  <2>1. /\ r \in 1 .. recvLen /\ Recv(r) /\ Complete(r) /\ open /\ curStat \in HeadStates
        /\ HeaderLen \in Fields /\ Legal(HeaderLen)
        /\ WaitRequestHandlerProcPlast([i \in Indices(HeaderLen) |-> head'[i]], flood)
    BY <1>1 DEF HeadOnly, Recv
  <2>2. r = recvLen
    BY <2>1, CompleteAll DEF RInv, Numbers
  <2>3. buf.in = "head" /\ Array = head /\ buf.at + recvLen = HeaderLen
    BY <2>1, HeadLength
  <2>4. head' = Stored(Array, r) /\ DOMAIN head' = Indices(HeaderLen)
    BY <2>1, <2>3, StoredBytes DEF Recv
  <2>5. [i \in Indices(HeaderLen) |-> head'[i]] = Stored(Array, r)
    BY <2>4 DEF Stored
  <2> QED BY <2>1, <2>2, <2>3, <2>5, HandedOn
<1>2. CASE BodyDone(r, flood)
  <2>1. /\ r \in 1 .. recvLen /\ Recv(r) /\ Complete(r) /\ open /\ curStat \in BodyStates
        /\ WaitRequestHandlerProcPlast(Stored(mem, r), flood)
    BY <1>2 DEF BodyDone, Recv
  <2>2. r = recvLen
    BY <2>1, CompleteAll DEF RInv, Numbers
  <2>3. Array = mem
    BY <2>1, Places DEF RInv, Fits, Array, Numbers
  <2>4. PICK len \in Fields : Legal(len) /\ buf.at + recvLen = len
    BY <2>1 DEF RInv, Progress
  <2> QED BY <2>1, <2>2, <2>3, <2>4, HandedOn
<1> QED BY <1>1, <1>2

\* A step that receives a part of a packet hands nothing on.
LEMMA PartReceived ==
  ASSUME RInv, NEW r \in 1 .. recvLen, Recv(r), Advance(r), UNCHANGED <<open, packets>>
  PROVE  UNCHANGED Stream!vars
<1>1. /\ pos' = pos + r /\ buf'.at = buf.at + r /\ open
      /\ pos \in Nat /\ buf.at \in Nat /\ r \in Nat
  BY DEF Recv, Advance, RInv, Numbers
<1>2. pos' - buf'.at = pos - buf.at
  BY <1>1
<1> QED BY <1>1, <1>2 DEF Stream!vars

LEMMA StreamInit == Init => Stream!Init
BY DEF Init, Stream!Init

LEMMA StreamStep == RInv /\ [Next]_vars => [Stream!Next]_Stream!vars
<1> SUFFICES ASSUME RInv, [Next]_vars PROVE [Stream!Next]_Stream!vars
  OBVIOUS
<1>1. CASE GetOneToUse
  <2>1. ~open /\ open' = TRUE /\ pos' = 0 /\ buf'.at = 0 /\ packets' = <<>>
    BY <1>1 DEF GetOneToUse, Restart, RInv, Numbers
  <2>2. pos' - buf'.at = 0
    BY <2>1
  <2> QED BY <2>1, <2>2 DEF Stream!Next, Stream!Connect
<1>2. ASSUME NEW r \in 1 .. MaxStream, HeadPart(r) \/ BodyPart(r)
      PROVE  UNCHANGED Stream!vars
  BY <1>2, PartReceived DEF HeadPart, BodyPart, Recv
<1>3. ASSUME NEW r \in 1 .. MaxStream, NEW flood \in Verdicts,
             HeadOnly(r, flood) \/ BodyDone(r, flood)
      PROVE  Stream!Next
  <2>1. PICK len \in Fields :
           Legal(len) /\ IF flood THEN Stream!Close ELSE Stream!Deliver(len)
    BY <1>3, Packaged
  <2> QED BY <2>1 DEF Stream!Next
<1>4. ASSUME NEW r \in 1 .. MaxStream, NEW len \in Fields, HeadIllegal(r, len)
      PROVE  Stream!Next
  <2>1. /\ r \in 1 .. recvLen /\ Complete(r) /\ open /\ curStat \in HeadStates
        /\ pos' = pos + r /\ buf'.at = 0 /\ UNCHANGED <<open, packets>>
    BY <1>4 DEF HeadIllegal, Recv, Restart
  <2>2. r = recvLen /\ pos \in Nat /\ buf.at \in Nat /\ recvLen \in Nat
    BY <2>1, CompleteAll DEF RInv, Numbers
  <2>3. buf.at + recvLen = HeaderLen
    BY <2>1, HeadLength
  <2>4. pos' - buf'.at = (pos - buf.at) + HeaderLen
    BY <2>1, <2>2, <2>3
  <2> QED BY <2>1, <2>4 DEF Stream!Next, Stream!Skip
<1>5. ASSUME NEW r \in 1 .. MaxStream, NEW len \in Fields, HeadBody(r, len)
      PROVE  UNCHANGED Stream!vars
  <2>1. /\ r \in 1 .. recvLen /\ Complete(r) /\ open /\ curStat \in HeadStates
        /\ pos' = pos + r /\ buf'.at = HeaderLen /\ UNCHANGED <<open, packets>>
    BY <1>5 DEF HeadBody, Recv
  <2>2. r = recvLen /\ pos \in Nat /\ buf.at \in Nat /\ recvLen \in Nat
    BY <2>1, CompleteAll DEF RInv, Numbers
  <2>3. buf.at + recvLen = HeaderLen
    BY <2>1, HeadLength
  <2>4. pos' - buf'.at = pos - buf.at
    BY <2>1, <2>2, <2>3
  <2> QED BY <2>1, <2>4 DEF Stream!vars
<1>6. CASE Closed
  BY <1>6 DEF Closed, Stream!Next, Stream!Close
<1>7. CASE PutOneToFree
  BY <1>7 DEF PutOneToFree, Stream!vars
<1>8. CASE UNCHANGED vars
  BY <1>8 DEF vars, Stream!vars
<1> QED BY <1>1, <1>2, <1>3, <1>4, <1>5, <1>6, <1>7, <1>8 DEF Next

\* However a client's bytes come in pieces, what the thread pool is handed are
\* its packets, in order and without gaps.
THEOREM ReceiveCutsPackets == Spec => CutsPackets
<1>1. RInv /\ [Next]_vars => [Stream!Next]_Stream!vars
  BY StreamStep
<1> QED BY <1>1, StreamInit, ReceiveInvariance, PTL DEF Spec, CutsPackets, Stream!Spec

-----------------------------------------------------------------------------
(* Sequences.                                                              *)

IsSeq(s) == \E S : s \in Seq(S)

LEMMA Appending ==
  ASSUME NEW s, IsSeq(s), NEW x
  PROVE  /\ IsSeq(Append(s, x))
         /\ Len(s) \in Nat /\ Len(Append(s, x)) = Len(s) + 1
         /\ DOMAIN Append(s, x) = 1 .. Len(s) + 1
         /\ DOMAIN s = 1 .. Len(s)
         /\ \A n \in DOMAIN s : Append(s, x)[n] = s[n]
         /\ Append(s, x)[Len(s) + 1] = x
<1>1. PICK S : s \in Seq(S)
  BY DEF IsSeq
<1>2. s \in Seq(S \cup {x})
  BY <1>1
<1>3. Append(s, x) \in Seq(S \cup {x})
  BY <1>2
<1> QED BY <1>2, <1>3 DEF IsSeq

LEMMA Popping ==
  ASSUME NEW s, IsSeq(s), s # <<>>
  PROVE  IsSeq(Tail(s)) /\ Len(s) \in Nat /\ Len(Tail(s)) = Len(s) - 1
<1>1. PICK S : s \in Seq(S)
  BY DEF IsSeq
<1>2. Tail(s) \in Seq(S) /\ Len(s) \in Nat /\ Len(Tail(s)) = Len(s) - 1
  BY <1>1
<1> QED BY <1>2 DEF IsSeq

-----------------------------------------------------------------------------
(* Receiving is not disturbed.                                             *)

LEMMA ReceivesOn == [LogicNext]_everything => [Next]_vars
<1> SUFFICES ASSUME [LogicNext]_everything PROVE [Next]_vars
  OBVIOUS
<1> USE DEF allVars
<1>1. CASE Connects
  BY <1>1 DEF Connects, Accepted, Next
<1>2. ASSUME NEW r \in 1 .. MaxStream, Reads(r) PROVE [Next]_vars
  BY <1>2 DEF Reads, Piece, Next
<1>3. ASSUME NEW r \in 1 .. MaxStream, NEW flood \in Verdicts, Hands(r, flood)
      PROVE  [Next]_vars
  BY <1>3 DEF Hands, Package, Next
<1>4. CASE Closes \/ Recycled
  BY <1>4 DEF Closes, Recycled, Next
<1>5. CASE Waits
  BY <1>5 DEF Waits, Tick, Next
<1>6. ASSUME NEW w \in Workers,
             \/ Take(w) \/ Rejects(w) \/ Expired(w) \/ HandlePing(w) \/ IgnoresBody(w) \/ Replies(w)
             \/ \E code \in Codes : Calls(w, code)
      PROVE  UNCHANGED vars
  BY <1>6 DEF Take, Rejects, Expired, HandlePing, IgnoresBody, Replies, Calls, Done
<1>7. CASE UNCHANGED everything
  BY <1>7 DEF everything
<1> QED BY <1>1, <1>2, <1>3, <1>4, <1>5, <1>6, <1>7 DEF LogicNext

\* The composition implements Receive: whatever the pool, the handlers and the
\* flood test do meanwhile, a client's bytes are received as they are without
\* them, so that what is proved of Receive holds here.
THEOREM LogicReceives == LogicSpec => Spec
<1>1. LogicInit => Init
  BY DEF LogicInit, ReadInit
<1> QED BY <1>1, ReceivesOn, PTL DEF LogicSpec, Spec

-----------------------------------------------------------------------------
(* Answers.                                                                *)

AnswersInv == IsSeq(replies) /\ AnswersValid

LEMMA SameSize ==
  ASSUME NEW msg, NEW code
  PROVE  Size(Answer(msg, code).body) = Size(Body(msg))
BY DEF Answer, Swapped, Terminated, Size

LEMMA AnswersStep == AnswersInv /\ [LogicNext]_everything => AnswersInv'
<1> SUFFICES ASSUME AnswersInv, [LogicNext]_everything PROVE AnswersInv'
  OBVIOUS
<1>1. CASE UNCHANGED replies
  BY <1>1 DEF AnswersInv, AnswersValid, GetCRC, Size, BodyLen
<1>2. CASE replies' = <<>>
  BY <1>2 DEF AnswersInv, AnswersValid, IsSeq
<1>3. ASSUME NEW w \in Workers, Replies(w) PROVE AnswersInv'
  <2> DEFINE r == Answer(job[w].msg, job[w].code)
  <2>1. replies' = Append(replies, r) /\ Size(r.body) = BodyLen(job[w].code)
    BY <1>3, SameSize DEF Replies
  <2>2. r.crc = GetCRC(r.body) /\ Size(r.body) = BodyLen(r.code)
    BY <2>1 DEF Answer
  <2> HIDE DEF r
  <2>3. /\ IsSeq(replies') /\ DOMAIN replies = 1 .. Len(replies) /\ Len(replies) \in Nat
        /\ DOMAIN replies' = 1 .. Len(replies) + 1
        /\ \A n \in DOMAIN replies : replies'[n] = replies[n]
        /\ replies'[Len(replies) + 1] = r
    BY <2>1, Appending DEF AnswersInv
  <2>4. ASSUME NEW n \in DOMAIN replies'
        PROVE  replies'[n].crc = GetCRC(replies'[n].body) /\ Size(replies'[n].body) = BodyLen(replies'[n].code)
    <3>1. CASE n \in DOMAIN replies
      BY <3>1, <2>3 DEF AnswersInv, AnswersValid
    <3>2. CASE n = Len(replies) + 1
      BY <3>2, <2>3, <2>2
    <3> QED BY <3>1, <3>2, <2>3
  <2> QED BY <2>3, <2>4 DEF AnswersInv, AnswersValid, GetCRC, Size, BodyLen
<1>4. [LogicNext]_everything => \/ UNCHANGED replies \/ replies' = <<>>
                                \/ \E w \in Workers : Replies(w)
  BY DEF LogicNext, everything, logicVars, Connects, Reads, Hands, Closes, Recycled, Waits, Take,
         Rejects, Expired, Calls, HandlePing, IgnoresBody
<1> QED BY <1>1, <1>2, <1>3, <1>4

LEMMA AnswersInvariance == LogicSpec => []AnswersInv
<1>1. LogicInit => AnswersInv
  BY DEF LogicInit, AnswersInv, AnswersValid, IsSeq
<1> QED BY <1>1, AnswersStep, PTL DEF LogicSpec

\* Every answer a client gets passes the check a server makes of a request: its
\* checksum is that of the body with its strings ended, and the body has the
\* size its code asks for.
THEOREM AnswersAreValid == LogicSpec => []AnswersValid
<1>1. AnswersInv => AnswersValid
  BY DEF AnswersInv
<1> QED BY <1>1, AnswersInvariance, PTL

-----------------------------------------------------------------------------
(* What an answer is made of.                                              *)

\* Where the packet in progress begins.
Begins == IF open THEN pos - buf.at ELSE 0

\* A message has the bytes of a packet of some client: they follow each other
\* in its stream.
Start(msg) == msg.bytes[0]
End(msg)   == Start(msg) + Size(msg.bytes)
Cut(msg) ==
  /\ msg.seq \in Nat
  /\ \E from, len \in Nat :
        /\ HeaderLen <= len /\ from + len <= MaxStream
        /\ msg.bytes = Stream!Packet(from, len)

\* An answer made of the bytes from a place of the stream on.
MadeFrom(r, from) ==
  \A i \in DOMAIN r.body : r.body[i] = IF i \in StringEnds(r.code) THEN Zero ELSE from + i

LEMMA Sizes == \A n \in Nat : Cardinality(Indices(n)) = n
<1> SUFFICES ASSUME NEW n \in Nat PROVE Cardinality(0 .. n - 1) = n
  BY DEF Indices
<1>1. Cardinality(0 .. n - 1) = IF 0 > n - 1 THEN 0 ELSE (n - 1) - 0 + 1
  BY FS_Interval
<1> QED BY <1>1

LEMMA CutBytes ==
  ASSUME NEW msg, Cut(msg)
  PROVE  /\ Start(msg) \in Nat /\ Size(msg.bytes) \in Nat /\ HeaderLen <= Size(msg.bytes)
         /\ End(msg) \in Nat /\ End(msg) <= MaxStream
         /\ DOMAIN msg.bytes = Indices(Size(msg.bytes))
         /\ \A i \in Indices(Size(msg.bytes)) : msg.bytes[i] = Start(msg) + i
<1>1. PICK from \in Nat, len \in Nat :
         /\ HeaderLen <= len /\ from + len <= MaxStream
         /\ msg.bytes = Stream!Packet(from, len)
  BY DEF Cut
<1>2. DOMAIN msg.bytes = Indices(len) /\ \A i \in Indices(len) : msg.bytes[i] = from + i
  BY <1>1 DEF Stream!Packet, Indices
<1>3. Size(msg.bytes) = len
  BY <1>2, Sizes DEF Size
<1>4. Start(msg) = from
  <2>1. 0 \in Indices(len)
    BY <1>1, ReceiveAssumption DEF Indices
  <2> QED BY <1>2, <2>1 DEF Start
<1> QED BY <1>1, <1>2, <1>3, <1>4, ReceiveAssumption DEF End

\* The ends of the strings come after the type, and are not all of a body.
LEMMA Strings ==
  ASSUME NEW code \in {CMD_REGISTER, CMD_LOGIN}
  PROVE  /\ BodyLen(code) \in Nat
         /\ \E i \in Indices(BodyLen(code)) : i \notin StringEnds(code)
         /\ code = CMD_REGISTER =>
              /\ TypeLen <= BodyLen(code)
              /\ \A i \in StringEnds(code) : i >= TypeLen
<1> DEFINE type == IF code = CMD_REGISTER THEN TypeLen ELSE 0
<1>1. /\ type \in Nat /\ NameLen \in Nat /\ PassLen \in Nat /\ TypeLen \in Nat
      /\ NameLen > 0 /\ PassLen > 0 /\ NameLen + PassLen > 2
  BY LogicAssumption
<1>2. BodyLen(code) = type + NameLen + PassLen
  BY <1>1 DEF BodyLen
<1>3. StringEnds(code) = {type + NameLen - 1, type + NameLen + PassLen - 1}
  BY <1>1, <1>2 DEF StringEnds
<1>4. code = CMD_REGISTER => type = TypeLen
  OBVIOUS
<1> HIDE DEF type
<1>5. \E i \in Indices(BodyLen(code)) : i \notin StringEnds(code)
  <2>1. CASE NameLen > 1
    <3>1. type \in Indices(BodyLen(code)) /\ type \notin StringEnds(code)
      BY <2>1, <1>1, <1>2, <1>3 DEF Indices
    <3> QED BY <3>1
  <2>2. CASE NameLen = 1
    <3>1. type + 1 \in Indices(BodyLen(code)) /\ type + 1 \notin StringEnds(code)
      BY <2>2, <1>1, <1>2, <1>3 DEF Indices
    <3> QED BY <3>1
  <2> QED BY <2>1, <2>2, <1>1
<1> QED BY <1>1, <1>2, <1>3, <1>4, <1>5

\* An answer shows which bytes it was made of.
LEMMA OnePlace ==
  ASSUME NEW r, r.code \in {CMD_REGISTER, CMD_LOGIN},
         DOMAIN r.body = Indices(BodyLen(r.code)),
         NEW m \in Nat, NEW n \in Nat, MadeFrom(r, m), MadeFrom(r, n)
  PROVE  m = n
<1>1. PICK i \in Indices(BodyLen(r.code)) : i \notin StringEnds(r.code)
  BY Strings
<1>2. r.body[i] = m + i /\ r.body[i] = n + i /\ i \in Int
  BY <1>1 DEF MadeFrom, Indices
<1> QED BY <1>2

\* A handler's answer is its request's body, byte for byte but for the ends.
LEMMA AnswerEchoes ==
  ASSUME NEW msg, Cut(msg), NEW code \in {CMD_REGISTER, CMD_LOGIN},
         Size(Body(msg)) = BodyLen(code)
  PROVE  /\ Answer(msg, code).seq = msg.seq /\ Answer(msg, code).code = code
         /\ DOMAIN Answer(msg, code).body = Indices(BodyLen(code))
         /\ MadeFrom(Answer(msg, code), Start(msg) + HeaderLen)
         /\ Start(msg) + HeaderLen + BodyLen(code) = End(msg)
<1> DEFINE n == BodyLen(code)
           body == Body(msg)
           r == Answer(msg, code)
<1>1. /\ Start(msg) \in Nat /\ Size(msg.bytes) \in Nat /\ HeaderLen <= Size(msg.bytes)
      /\ DOMAIN msg.bytes = Indices(Size(msg.bytes)) /\ HeaderLen \in Nat
      /\ \A i \in Indices(Size(msg.bytes)) : msg.bytes[i] = Start(msg) + i
  BY CutBytes, ReceiveAssumption
<1>2. DOMAIN body = Indices(Size(msg.bytes) - HeaderLen)
  BY DEF Body
<1>3. n = Size(msg.bytes) - HeaderLen /\ n \in Nat
  <2>1. Size(msg.bytes) - HeaderLen \in Nat
    BY <1>1
  <2> QED BY <1>2, <2>1, Sizes DEF Size
<1>4. DOMAIN body = Indices(n) /\ \A i \in Indices(n) : body[i] = (Start(msg) + HeaderLen) + i
  <2>1. DOMAIN body = Indices(n)
    BY <1>2, <1>3
  <2>2. ASSUME NEW i \in Indices(n) PROVE body[i] = (Start(msg) + HeaderLen) + i
    <3>1. body[i] = msg.bytes[HeaderLen + i]
      BY <2>2, <1>3 DEF Body
    <3>2. HeaderLen + i \in Indices(Size(msg.bytes)) /\ i \in Int
      BY <2>2, <1>1, <1>3 DEF Indices
    <3>3. msg.bytes[HeaderLen + i] = Start(msg) + (HeaderLen + i)
      BY <3>2, <1>1
    <3> QED BY <3>1, <3>2, <3>3, <1>1
  <2> QED BY <2>1, <2>2
<1>5. r.seq = msg.seq /\ r.code = code
      /\ r.body = Swapped(Terminated(Swapped(body, code), code), code)
  BY DEF Answer
<1>6. /\ \A i \in StringEnds(code) : code = CMD_REGISTER => i >= TypeLen
      /\ code = CMD_REGISTER => TypeLen <= n
      /\ TypeLen \in Nat
  BY Strings, LogicAssumption
<1> HIDE DEF body, n, r
<1> DEFINE s == Swapped(body, code)
           t == Terminated(s, code)
<1>7. /\ DOMAIN s = Indices(n)
      /\ \A i \in Indices(n) :
           s[i] = IF code = CMD_REGISTER /\ i < TypeLen THEN body[TypeLen - 1 - i] ELSE body[i]
  BY <1>4 DEF Swapped
<1>8. /\ DOMAIN t = Indices(n)
      /\ \A i \in Indices(n) : t[i] = IF i \in StringEnds(code) THEN Zero ELSE s[i]
  BY <1>7 DEF Terminated
<1>9. /\ DOMAIN r.body = Indices(n)
      /\ \A i \in Indices(n) :
           r.body[i] = IF code = CMD_REGISTER /\ i < TypeLen THEN t[TypeLen - 1 - i] ELSE t[i]
  BY <1>5, <1>8 DEF Swapped
<1> HIDE DEF s, t
<1>10. ASSUME NEW i \in Indices(n)
       PROVE  r.body[i] = IF i \in StringEnds(code) THEN Zero ELSE (Start(msg) + HeaderLen) + i
  <2>1. CASE code = CMD_REGISTER /\ i < TypeLen
    <3> DEFINE k == TypeLen - 1 - i
    <3>1. i \in Int /\ i >= 0
      BY <1>3 DEF Indices
    <3>2. k \in Indices(n) /\ k < TypeLen /\ TypeLen - 1 - k = i /\ k \in Int
      BY <2>1, <3>1, <1>3, <1>6 DEF Indices
    <3>3. i \notin StringEnds(code) /\ k \notin StringEnds(code)
      <4>1. \A j \in StringEnds(code) : j >= TypeLen
        BY <2>1, <1>6
      <4>2. ~(i >= TypeLen) /\ ~(k >= TypeLen)
        BY <2>1, <3>1, <3>2, <1>6
      <4> QED BY <4>1, <4>2
    <3>4. r.body[i] = t[k]
      BY <2>1, <1>9
    <3> HIDE DEF k
    <3>5. t[k] = s[k] /\ s[k] = body[i]
      BY <2>1, <3>2, <3>3, <1>7, <1>8
    <3> QED BY <3>3, <3>4, <3>5, <1>4
  <2>2. CASE ~(code = CMD_REGISTER /\ i < TypeLen)
    <3>1. r.body[i] = t[i] /\ s[i] = body[i]
      BY <2>2, <1>7, <1>9
    <3> QED BY <3>1, <1>4, <1>8
  <2> QED BY <2>1, <2>2
<1>11. MadeFrom(r, Start(msg) + HeaderLen)
  BY <1>5, <1>9, <1>10 DEF MadeFrom
<1>12. Start(msg) + HeaderLen + n = End(msg)
  BY <1>1, <1>3 DEF End
<1> QED BY <1>5, <1>9, <1>11, <1>12 DEF r, n

-----------------------------------------------------------------------------
(* Blocks.                                                                 *)

BlocksInv ==
  /\ IsSeq(tasks)
  /\ DOMAIN job = Workers
  /\ blocks \in Int
  /\ BlocksOwned

Received == IF mem = NoMem THEN 0 ELSE 1

LEMMA WorkingFinite == IsFiniteSet(Working) /\ Cardinality(Working) \in Nat
<1>1. Working \in SUBSET Workers
  BY DEF Working
<1> QED BY <1>1, LogicAssumption, FS_Subset, FS_CardinalityType

\* A thread that takes up a packet.
LEMMA OneMore ==
  ASSUME DOMAIN job = Workers, NEW w \in Workers, job[w] = NoJob, NEW x, x # NoJob,
         job' = [job EXCEPT ![w] = x]
  PROVE  Cardinality(Working') = Cardinality(Working) + 1
<1>1. Working' = Working \cup {w} /\ w \notin Working
  BY DEF Working
<1> QED BY <1>1, WorkingFinite, FS_AddElement

\* A thread that is done with it.
LEMMA OneLess ==
  ASSUME DOMAIN job = Workers, NEW w \in Workers, job[w] # NoJob, Done(w)
  PROVE  Cardinality(Working') = Cardinality(Working) - 1 /\ DOMAIN job' = Workers
<1>1. Working' = Working \ {w} /\ w \in Working
  BY DEF Working, Done
<1> QED BY <1>1, WorkingFinite, FS_RemoveElement DEF Done

LEMMA ThreadDone ==
  ASSUME BlocksInv, NEW w \in Workers, job[w] # NoJob, Done(w)
  PROVE  BlocksInv'
<1>1. Cardinality(Working') = Cardinality(Working) - 1 /\ DOMAIN job' = Workers
  BY OneLess DEF BlocksInv
<1>2. UNCHANGED <<mem, tasks>> /\ blocks' = blocks - 1
  BY DEF Done, allVars, vars
<1>3. Cardinality(Working) \in Nat /\ Len(tasks) \in Nat
  BY WorkingFinite DEF BlocksInv, IsSeq
<1> QED BY <1>1, <1>2, <1>3 DEF BlocksInv, BlocksOwned, NoMem

\* A step that leaves the pool alone.
LEMMA PoolSame ==
  ASSUME BlocksInv, UNCHANGED job, IsSeq(tasks'), blocks' \in Int,
         blocks' = blocks + (Received' - Received) + (Len(tasks') - Len(tasks))
  PROVE  BlocksInv'
<1>1. Cardinality(Working) \in Nat /\ Len(tasks) \in Nat /\ Len(tasks') \in Nat
  BY WorkingFinite DEF BlocksInv, IsSeq
<1>2. Working' = Working
  BY DEF Working
<1>3. Received \in Int /\ Received' \in Int
  BY DEF Received, NoMem
<1>4. blocks = Received + Len(tasks) + Cardinality(Working)
  BY DEF BlocksInv, BlocksOwned, Received
<1>5. blocks' = Received' + Len(tasks') + Cardinality(Working)
  <2>1. PICK b \in Int, k \in Int, t \in Int, n \in Int :
          blocks = b /\ Received = k /\ Len(tasks) = t /\ Cardinality(Working) = n
    BY <1>1, <1>3 DEF BlocksInv
  <2>2. PICK c \in Int, l \in Int, u \in Int :
          blocks' = c /\ Received' = l /\ Len(tasks') = u
    BY <1>1, <1>3
  <2>3. b = k + t + n /\ c = b + (l - k) + (u - t)
    BY <1>4, <2>1, <2>2
  <2>4. c = l + u + n
    BY <2>3
  <2> QED BY <2>1, <2>2, <2>4
<1>6. BlocksOwned'
  BY <1>2, <1>5 DEF BlocksOwned, Received, NoMem
<1>7. DOMAIN job' = Workers
  BY DEF BlocksInv
<1> QED BY <1>6, <1>7 DEF BlocksInv

LEMMA BlocksStep == RInv /\ RInv' /\ BlocksInv /\ [LogicNext]_everything => BlocksInv'
<1> SUFFICES ASSUME RInv, RInv', BlocksInv, [LogicNext]_everything PROVE BlocksInv'
  OBVIOUS
<1>0. /\ IsSeq(tasks) /\ blocks \in Int /\ Len(tasks) \in Nat
      /\ mem # NoMem <=> used /\ curStat \in BodyStates
      /\ mem' # NoMem <=> used' /\ curStat' \in BodyStates
      /\ open => used
  BY DEF BlocksInv, RInv, BufferOwned, Numbers, IsSeq, NoMem, BodyStates
<1>1. CASE Connects
  <2>1. mem = NoMem /\ mem' = NoMem /\ UNCHANGED <<tasks, job, blocks>>
    BY <1>0, <1>1 DEF Connects, Accepted, GetOneToUse
  <2> QED BY <2>1, <1>0, PoolSame DEF Received, NoMem
<1>2. ASSUME NEW r \in 1 .. MaxStream, Reads(r) PROVE BlocksInv'
  <2>1. UNCHANGED <<tasks, job>>
        /\ blocks' = IF mem = NoMem /\ mem' # NoMem THEN blocks + 1 ELSE blocks
    BY <1>2 DEF Reads
  <2>2. mem # NoMem => mem' # NoMem
    <3>1. CASE BodyPart(r)
      BY <3>1, <1>0, Places DEF BodyPart, Advance, Recv
    <3>2. CASE ~BodyPart(r)
      <4>1. UNCHANGED mem \/ (used /\ used' /\ curStat' = "Body_Init")
        BY <1>2, <3>2, <1>0 DEF Reads, Piece, HeadPart, HeadIllegal, HeadBody, Recv
      <4> QED BY <4>1, <1>0, Places DEF NoMem
    <3> QED BY <3>1, <3>2
  <2> QED BY <2>1, <2>2, <1>0, PoolSame DEF Received, NoMem
<1>3. ASSUME NEW r \in 1 .. MaxStream, NEW flood \in Verdicts, Hands(r, flood)
      PROVE  BlocksInv'
  <2> DEFINE task == [seq |-> sequence_num, bytes |-> packets'[Len(packets')]]
  <2>1. /\ UNCHANGED job
        /\ tasks' = IF flood THEN tasks ELSE Append(tasks, task)
        /\ blocks' = blocks + (IF mem = NoMem THEN 1 ELSE 0) - (IF flood THEN 1 ELSE 0)
    BY <1>3 DEF Hands
  <2>2. mem' = NoMem
    BY <1>3 DEF Hands, Package, HeadOnly, BodyDone, WaitRequestHandlerProcPlast
  <2> HIDE DEF task
  <2>3. IsSeq(tasks') /\ Len(tasks') - Len(tasks) = IF flood THEN 0 ELSE 1
    BY <2>1, <1>0, Appending
  <2>4. blocks' \in Int /\ blocks' = blocks + (Received' - Received) + (IF flood THEN 0 ELSE 1)
    BY <2>1, <2>2, <1>0 DEF Received, NoMem
  <2> QED BY <2>1, <2>3, <2>4, PoolSame
<1>4. CASE Recycled
  <2>1. /\ mem' = NoMem /\ UNCHANGED <<tasks, job>>
        /\ blocks' = IF mem = NoMem THEN blocks ELSE blocks - 1
    BY <1>4 DEF Recycled, PutOneToFree
  <2> QED BY <2>1, <1>0, PoolSame DEF Received, NoMem
<1>5. CASE Closes \/ Waits
  <2>1. UNCHANGED <<mem, tasks, job, blocks>>
    BY <1>5 DEF Closes, Waits, Closed, Tick, vars, logicVars
  <2> QED BY <2>1, <1>0, PoolSame DEF Received, NoMem
<1>6. ASSUME NEW w \in Workers, Take(w) PROVE BlocksInv'
  <2>1. UNCHANGED <<mem, blocks>> /\ tasks # <<>> /\ tasks' = Tail(tasks) /\ job[w] = NoJob
        /\ job' = [job EXCEPT ![w] = Taken(Head(tasks))]
    BY <1>6 DEF Take, allVars, vars
  <2>2. Taken(Head(tasks)) # NoJob
    BY DEF Taken, NoJob
  <2>3. Cardinality(Working') = Cardinality(Working) + 1
    BY <2>1, <2>2, OneMore DEF BlocksInv
  <2>4. IsSeq(tasks') /\ Len(tasks') = Len(tasks) - 1
    BY <2>1, <1>0, Popping
  <2>5. Cardinality(Working) \in Nat
    BY WorkingFinite
  <2> QED BY <2>1, <2>3, <2>4, <2>5, <1>0, SMTT(30) DEF BlocksInv, BlocksOwned, NoMem
<1>7. ASSUME NEW w \in Workers,
             Rejects(w) \/ Expired(w) \/ HandlePing(w) \/ IgnoresBody(w) \/ Replies(w)
      PROVE  BlocksInv'
  <2>1. job[w] # NoJob
    BY <1>7 DEF Rejects, Expired, HandlePing, IgnoresBody, Replies, NoJob
  <2>2. Done(w)
    BY <1>7 DEF Rejects, Expired, HandlePing, IgnoresBody, Replies
  <2> QED BY <2>1, <2>2, ThreadDone
<1>8. ASSUME NEW w \in Workers, NEW code \in Codes, Calls(w, code) PROVE BlocksInv'
  <2>1. UNCHANGED <<mem, tasks, blocks>> /\ job[w].stage = "taken"
    BY <1>8 DEF Calls, allVars, vars
  <2>2. Called(job[w].msg, code) # NoJob /\ job[w] # NoJob
    BY <2>1 DEF Called, NoJob
  <2>3. \/ UNCHANGED job
        \/ job' = [job EXCEPT ![w] = Called(job[w].msg, code)]
    BY <1>8 DEF Calls
  <2>4. Working' = Working /\ DOMAIN job' = Workers
    BY <2>2, <2>3 DEF Working, BlocksInv
  <2> QED BY <2>1, <2>4 DEF BlocksInv, BlocksOwned, NoMem
<1>9. CASE UNCHANGED everything
  <2>1. UNCHANGED <<mem, tasks, job, blocks>>
    BY <1>9 DEF everything, allVars, vars, logicVars
  <2> QED BY <2>1, <1>0, PoolSame DEF Received, NoMem
<1> QED BY <1>1, <1>2, <1>3, <1>4, <1>5, <1>6, <1>7, <1>8, <1>9 DEF LogicNext

LEMMA BlocksInvariance == LogicSpec => []BlocksInv
<1>1. LogicInit => BlocksInv
  <2> SUFFICES ASSUME LogicInit PROVE BlocksInv
    OBVIOUS
  <2>1. Working = {}
    BY DEF LogicInit, Working
  <2>2. Cardinality(Working) = 0
    BY <2>1, FS_EmptySet
  <2> QED BY <2>2 DEF ReadInit, LogicInit, Init, BlocksInv, BlocksOwned, IsSeq, NoMem
<1>2. LogicSpec => []RInv
  BY LogicReceives, ReceiveInvariance, PTL
<1> QED BY <1>1, <1>2, BlocksStep, PTL DEF LogicSpec

\* No block is lost or freed twice, with any number of threads and of packets
\* waiting: each of the ways a packet can take gives its block back once.
THEOREM BlocksAreOwned == LogicSpec => []BlocksOwned
<1>1. BlocksInv => BlocksOwned
  BY DEF BlocksInv
<1> QED BY <1>1, BlocksInvariance, PTL

-----------------------------------------------------------------------------
(* Answers, and what they are answers to.                                  *)

\* The messages in the pool's hands, waiting or with a thread, by their place.
Held(t, j) ==
  [p \in ({"task"} \X DOMAIN t) \cup ({"job"} \X {w \in Workers : j[w] # NoJob}) |->
     IF p[1] = "task" THEN t[p[2]] ELSE j[p[2]].msg]

\* How far the stream of the present client has been cut: beyond all packets
\* once it has gone.
Edge == IF open THEN Begins ELSE MaxStream

\* Bytes that were handed on before: of an earlier client, or up to here.
Behind(seq, end, cur, edge) == seq < cur \/ (seq = cur /\ end <= edge)

SameBytes(x, y) == x.seq = y.seq /\ Start(x) = Start(y)
AnswerTo(r, x)  == r.seq = x.seq /\ MadeFrom(r, Start(x) + HeaderLen)

\* Messages M and answers R, made of what was received before: all different,
\* and no message in hand that has been answered.
MessagesCut(M, cur, edge) ==
  \A p \in DOMAIN M : Cut(M[p]) /\ Behind(M[p].seq, End(M[p]), cur, edge)

AnswersMade(R, cur, edge) ==
  \A k \in DOMAIN R :
    /\ Echo(R[k]) /\ R[k].seq \in Nat
    /\ R[k].code \in {CMD_REGISTER, CMD_LOGIN}
    /\ DOMAIN R[k].body = Indices(BodyLen(R[k].code))
    /\ \A from \in Nat :
         MadeFrom(R[k], from) => Behind(R[k].seq, from + BodyLen(R[k].code), cur, edge)

OneEach(M, R) ==
  /\ \A p, q \in DOMAIN M : p # q => ~SameBytes(M[p], M[q])
  /\ \A k \in DOMAIN R, p \in DOMAIN M : ~AnswerTo(R[k], M[p])
  /\ \A k, l \in DOMAIN R : k # l => R[k] # R[l]

Sound(M, R, cur, edge) ==
  MessagesCut(M, cur, edge) /\ AnswersMade(R, cur, edge) /\ OneEach(M, R)

EchoInv ==
  /\ sequence_num \in Nat /\ pos <= MaxStream /\ IsSeq(packets)
  /\ Sound(Held(tasks, job), replies, sequence_num, Edge)

\* A client that receives on, or a new one, leaves what there is behind.
LEMMA SoundLater ==
  ASSUME NEW M, NEW R, NEW c \in Nat, NEW d \in Nat, NEW e \in Nat, NEW g \in Nat,
         Sound(M, R, c, e), c < d \/ (c = d /\ e <= g)
  PROVE  Sound(M, R, d, g)
<1>1. \A s, n \in Nat : Behind(s, n, c, e) => Behind(s, n, d, g)
  BY DEF Behind
<1>2. MessagesCut(M, d, g)
  <2> SUFFICES ASSUME NEW p \in DOMAIN M
               PROVE  Cut(M[p]) /\ Behind(M[p].seq, End(M[p]), d, g)
    BY DEF MessagesCut
  <2>1. Cut(M[p]) /\ Behind(M[p].seq, End(M[p]), c, e)
    BY DEF Sound, MessagesCut
  <2>2. M[p].seq \in Nat /\ End(M[p]) \in Nat
    BY <2>1, CutBytes DEF Cut
  <2> QED BY <2>1, <2>2, <1>1
<1>3. AnswersMade(R, d, g)
  <2> SUFFICES ASSUME NEW k \in DOMAIN R, NEW from \in Nat, MadeFrom(R[k], from)
               PROVE  Behind(R[k].seq, from + BodyLen(R[k].code), d, g)
    BY DEF Sound, AnswersMade
  <2>1. /\ Behind(R[k].seq, from + BodyLen(R[k].code), c, e)
        /\ R[k].seq \in Nat
        /\ R[k].code \in {CMD_REGISTER, CMD_LOGIN}
    BY DEF Sound, AnswersMade
  <2>2. BodyLen(R[k].code) \in Nat
    BY <2>1, Strings
  <2> QED BY <2>1, <2>2, <1>1
<1> QED BY <1>2, <1>3 DEF Sound

\* Messages that change their places, or are dropped.
LEMMA SoundMoved ==
  ASSUME NEW M, NEW N, NEW R, NEW c, NEW e, Sound(M, R, c, e),
         NEW f \in [DOMAIN N -> DOMAIN M],
         \A p, q \in DOMAIN N : p # q => f[p] # f[q],
         \A p \in DOMAIN N : N[p] = M[f[p]]
  PROVE  Sound(N, R, c, e)
<1>1. MessagesCut(N, c, e)
  BY DEF Sound, MessagesCut
<1>2. OneEach(N, R)
  BY DEF Sound, OneEach
<1> QED BY <1>1, <1>2 DEF Sound

\* A packet of the present client that has just been received.
LEMMA SoundHanded ==
  ASSUME NEW M, NEW R, NEW c \in Nat, NEW e \in Nat, NEW g \in Nat, Sound(M, R, c, e),
         NEW x, Cut(x), x.seq = c, Start(x) = e, End(x) <= g,
         NEW N, NEW q, DOMAIN N = DOMAIN M \cup {q}, q \notin DOMAIN M,
         N[q] = x, \A p \in DOMAIN M : N[p] = M[p]
  PROVE  Sound(N, R, c, g)
<1>1. e <= g
  BY CutBytes, ReceiveAssumption DEF End
<1>2. Sound(M, R, c, g)
  BY <1>1, SoundLater
<1>3. MessagesCut(N, c, g)
  <2>1. Cut(x) /\ Behind(x.seq, End(x), c, g)
    BY DEF Behind
  <2> QED BY <1>2, <2>1 DEF Sound, MessagesCut
<1>4. \A p \in DOMAIN M : ~SameBytes(M[p], x)
  <2> SUFFICES ASSUME NEW p \in DOMAIN M, SameBytes(M[p], x) PROVE FALSE
    OBVIOUS
  <2>1. Cut(M[p]) /\ Behind(c, End(M[p]), c, e) /\ Start(M[p]) = e
    BY DEF Sound, MessagesCut, SameBytes
  <2>2. End(M[p]) = e + Size(M[p].bytes) /\ Size(M[p].bytes) \in Nat /\ Size(M[p].bytes) > 0
    BY <2>1, CutBytes, ReceiveAssumption DEF End
  <2> QED BY <2>1, <2>2 DEF Behind
<1>5. \A k \in DOMAIN R : ~AnswerTo(R[k], x)
  <2> SUFFICES ASSUME NEW k \in DOMAIN R, AnswerTo(R[k], x) PROVE FALSE
    OBVIOUS
  <2>1. R[k].seq = c /\ MadeFrom(R[k], e + HeaderLen) /\ HeaderLen \in Nat /\ HeaderLen > 0
    BY ReceiveAssumption DEF AnswerTo
  <2>2. /\ Behind(c, (e + HeaderLen) + BodyLen(R[k].code), c, e)
        /\ R[k].code \in {CMD_REGISTER, CMD_LOGIN}
    BY <2>1 DEF Sound, AnswersMade
  <2>3. BodyLen(R[k].code) \in Nat
    BY <2>2, Strings
  <2> QED BY <2>1, <2>2, <2>3 DEF Behind
<1>6. OneEach(N, R)
  <2>1. ASSUME NEW p \in DOMAIN N, NEW n \in DOMAIN N, p # n
        PROVE  ~SameBytes(N[p], N[n])
    <3>1. CASE p # q /\ n # q
      BY <2>1, <3>1 DEF Sound, OneEach
    <3>2. CASE p = q
      <4>1. n \in DOMAIN M /\ ~SameBytes(M[n], x) /\ N[n] = M[n]
        BY <2>1, <3>2, <1>4
      <4> QED BY <4>1, <3>2 DEF SameBytes
    <3>3. CASE n = q
      <4>1. p \in DOMAIN M /\ ~SameBytes(M[p], x) /\ N[p] = M[p]
        BY <2>1, <3>3, <1>4
      <4> QED BY <4>1, <3>3
    <3> QED BY <3>1, <3>2, <3>3
  <2>2. ASSUME NEW k \in DOMAIN R, NEW p \in DOMAIN N PROVE ~AnswerTo(R[k], N[p])
    BY <1>5 DEF Sound, OneEach
  <2>3. \A k, l \in DOMAIN R : k # l => R[k] # R[l]
    BY DEF Sound, OneEach
  <2> QED BY <2>1, <2>2, <2>3 DEF OneEach
<1> QED BY <1>2, <1>3, <1>6 DEF Sound

\* A message that is answered.
LEMMA SoundAnswered ==
  ASSUME NEW M, NEW R, NEW c \in Nat, NEW e \in Nat, Sound(M, R, c, e), IsSeq(R),
         NEW q \in DOMAIN M, NEW code \in {CMD_REGISTER, CMD_LOGIN},
         Size(Body(M[q])) = BodyLen(code),
         NEW N, DOMAIN N = DOMAIN M \ {q}, \A p \in DOMAIN N : N[p] = M[p]
  PROVE  Sound(N, Append(R, Answer(M[q], code)), c, e)
<1> DEFINE r == Answer(M[q], code)
           S == Append(R, r)
           at == Start(M[q]) + HeaderLen
<1>1. Cut(M[q]) /\ Behind(M[q].seq, End(M[q]), c, e)
  BY DEF Sound, MessagesCut
<1>2. /\ r.seq = M[q].seq /\ r.code = code /\ DOMAIN r.body = Indices(BodyLen(code))
      /\ MadeFrom(r, at) /\ at + BodyLen(code) = End(M[q])
  BY <1>1, AnswerEchoes
<1>3. at \in 0 .. MaxStream /\ BodyLen(code) \in Nat
  BY <1>1, <1>2, CutBytes, Strings, ReceiveAssumption
<1>4. /\ Len(R) \in Nat /\ DOMAIN R = 1 .. Len(R) /\ DOMAIN S = 1 .. Len(R) + 1
      /\ \A k \in DOMAIN R : S[k] = R[k]
      /\ S[Len(R) + 1] = r
  BY Appending
<1>5. \A p \in DOMAIN N : p \in DOMAIN M /\ p # q /\ N[p] = M[p]
  OBVIOUS
<1> HIDE DEF r, S, at
<1>6. MessagesCut(N, c, e)
  BY <1>5 DEF Sound, MessagesCut
<1>7. AnswersMade(S, c, e)
  <2>1. Echo(r) /\ r.seq \in Nat
    BY <1>1, <1>2, <1>3 DEF Echo, MadeFrom, Cut
  <2>2. ASSUME NEW from \in Nat, MadeFrom(r, from)
        PROVE  Behind(r.seq, from + BodyLen(r.code), c, e)
    <3>1. from = at
      BY <2>2, <1>2, <1>3, OnePlace
    <3> QED BY <3>1, <1>1, <1>2
  <2>3. ASSUME NEW k \in DOMAIN S
        PROVE  /\ Echo(S[k]) /\ S[k].seq \in Nat
               /\ S[k].code \in {CMD_REGISTER, CMD_LOGIN}
               /\ DOMAIN S[k].body = Indices(BodyLen(S[k].code))
               /\ \A from \in Nat :
                    MadeFrom(S[k], from) => Behind(S[k].seq, from + BodyLen(S[k].code), c, e)
    <3>1. CASE k \in DOMAIN R
      BY <3>1, <1>4 DEF Sound, AnswersMade
    <3>2. CASE k = Len(R) + 1
      BY <3>2, <1>2, <1>4, <2>1, <2>2
    <3> QED BY <3>1, <3>2, <1>4
  <2> QED BY <2>3 DEF AnswersMade
<1>8. \A k \in DOMAIN R : R[k] # r
  BY <1>2 DEF Sound, OneEach, AnswerTo, at
<1>9. \A p \in DOMAIN N : ~AnswerTo(r, N[p])
  <2> SUFFICES ASSUME NEW p \in DOMAIN N, AnswerTo(r, N[p]) PROVE FALSE
    OBVIOUS
  <2>1. p \in DOMAIN M /\ p # q /\ N[p] = M[p] /\ Cut(M[p])
    BY <1>5 DEF Sound, MessagesCut
  <2>2. Start(M[p]) \in Nat /\ Start(M[q]) \in Nat /\ HeaderLen \in Nat
    BY <2>1, <1>1, CutBytes, ReceiveAssumption
  <2>3. r.seq = M[p].seq /\ MadeFrom(r, Start(M[p]) + HeaderLen)
    BY <2>1 DEF AnswerTo
  <2>4. Start(M[p]) + HeaderLen = at
    BY <2>2, <2>3, <1>2, <1>3, OnePlace
  <2>5. SameBytes(M[p], M[q])
    BY <2>2, <2>3, <2>4, <1>2 DEF SameBytes, at
  <2> QED BY <2>1, <2>5 DEF Sound, OneEach
<1>10. OneEach(N, S)
  <2>1. \A p, n \in DOMAIN N : p # n => ~SameBytes(N[p], N[n])
    BY <1>5 DEF Sound, OneEach
  <2>2. ASSUME NEW k \in DOMAIN S, NEW p \in DOMAIN N PROVE ~AnswerTo(S[k], N[p])
    <3>1. CASE k \in DOMAIN R
      BY <3>1, <1>4, <1>5 DEF Sound, OneEach
    <3>2. CASE k = Len(R) + 1
      BY <3>2, <1>4, <1>9
    <3> QED BY <3>1, <3>2, <1>4
  <2>3. ASSUME NEW k \in DOMAIN S, NEW l \in DOMAIN S, k # l PROVE S[k] # S[l]
    BY <2>3, <1>4, <1>8 DEF Sound, OneEach
  <2> QED BY <2>1, <2>2, <2>3 DEF OneEach
<1> QED BY <1>6, <1>7, <1>10 DEF Sound, S, r

LEMMA Tails ==
  ASSUME NEW s, IsSeq(s), s # <<>>
  PROVE  /\ 1 \in DOMAIN s /\ Head(s) = s[1]
         /\ \A n \in DOMAIN Tail(s) : n \in Nat \ {0} /\ n + 1 \in DOMAIN s /\ Tail(s)[n] = s[n + 1]
<1>1. PICK S : s \in Seq(S)
  BY DEF IsSeq
<1>2. /\ Tail(s) \in Seq(S) /\ Len(Tail(s)) = Len(s) - 1
      /\ \A n \in 1 .. Len(Tail(s)) : Tail(s)[n] = s[n + 1]
  BY <1>1, HeadTailProperties
<1>3. Len(s) \in Nat /\ Len(s) > 0 /\ DOMAIN s = 1 .. Len(s) /\ DOMAIN Tail(s) = 1 .. Len(s) - 1
  BY <1>1, <1>2
<1> QED BY <1>2, <1>3

LEMMA HeldPlaces ==
  ASSUME NEW t, NEW j
  PROVE  /\ \A n : <<"task", n>> \in DOMAIN Held(t, j) <=> n \in DOMAIN t
         /\ \A n \in DOMAIN t : Held(t, j)[<<"task", n>>] = t[n]
         /\ \A w : <<"job", w>> \in DOMAIN Held(t, j) <=> w \in Workers /\ j[w] # NoJob
         /\ \A w \in Workers : j[w] # NoJob => Held(t, j)[<<"job", w>>] = j[w].msg
         /\ \A p \in DOMAIN Held(t, j) :
              (\E n : p = <<"task", n>>) \/ (\E w : p = <<"job", w>>)
BY DEF Held

\* A thread takes up the first message that waits.
LEMMA HeldTaken ==
  ASSUME NEW R, NEW c, NEW e, NEW t, IsSeq(t), t # <<>>,
         NEW j, DOMAIN j = Workers, NEW w \in Workers, j[w] = NoJob,
         Sound(Held(t, j), R, c, e)
  PROVE  Sound(Held(Tail(t), [j EXCEPT ![w] = Taken(Head(t))]), R, c, e)
<1> DEFINE k == [j EXCEPT ![w] = Taken(Head(t))]
           u == Tail(t)
           M == Held(t, j)
           N == Held(u, k)
           f == [p \in DOMAIN N |-> IF p[1] = "task" THEN <<"task", p[2] + 1>>
                                    ELSE IF p[2] = w THEN <<"task", 1>> ELSE p]
<1>1. /\ 1 \in DOMAIN t /\ Head(t) = t[1]
      /\ \A n \in DOMAIN u : n \in Nat \ {0} /\ n + 1 \in DOMAIN t /\ u[n] = t[n + 1]
  BY Tails
<1> HIDE DEF u
<1>2. /\ k[w] # NoJob /\ k[w].msg = t[1]
      /\ \A v \in Workers : v # w => k[v] = j[v]
  BY <1>1 DEF Taken, NoJob
<1>3. /\ \A n : <<"task", n>> \in DOMAIN N => f[<<"task", n>>] = <<"task", n + 1>>
      /\ <<"job", w>> \in DOMAIN N => f[<<"job", w>>] = <<"task", 1>>
      /\ \A v : v # w /\ <<"job", v>> \in DOMAIN N => f[<<"job", v>>] = <<"job", v>>
      /\ f = [p \in DOMAIN N |-> f[p]]
  OBVIOUS
<1> HIDE DEF f, k
<1>4. /\ \A n \in DOMAIN t : <<"task", n>> \in DOMAIN M /\ M[<<"task", n>>] = t[n]
      /\ \A v \in Workers : j[v] # NoJob =>
           <<"job", v>> \in DOMAIN M /\ M[<<"job", v>>] = j[v].msg
  BY HeldPlaces
<1>5. /\ \A n : <<"task", n>> \in DOMAIN N =>
           n \in DOMAIN u /\ N[<<"task", n>>] = u[n]
      /\ \A v : <<"job", v>> \in DOMAIN N =>
           v \in Workers /\ k[v] # NoJob /\ N[<<"job", v>>] = k[v].msg
      /\ \A p \in DOMAIN N : (\E n : p = <<"task", n>>) \/ (\E v : p = <<"job", v>>)
  <2>1. /\ \A n : <<"task", n>> \in DOMAIN N <=> n \in DOMAIN u
        /\ \A n \in DOMAIN u : N[<<"task", n>>] = u[n]
    BY HeldPlaces
  <2>2. /\ \A v : <<"job", v>> \in DOMAIN N <=> v \in Workers /\ k[v] # NoJob
        /\ \A v \in Workers : k[v] # NoJob => N[<<"job", v>>] = k[v].msg
    BY HeldPlaces
  <2>3. \A p \in DOMAIN N : (\E n : p = <<"task", n>>) \/ (\E v : p = <<"job", v>>)
    BY HeldPlaces
  <2> QED BY <2>1, <2>2, <2>3
<1> HIDE DEF M, N
<1>6. ASSUME NEW p \in DOMAIN N
      PROVE  /\ f[p] \in DOMAIN M /\ N[p] = M[f[p]]
             /\ \/ \E n \in DOMAIN u : p = <<"task", n>> /\ f[p] = <<"task", n + 1>>
                \/ p = <<"job", w>> /\ f[p] = <<"task", 1>>
                \/ \E v \in Workers : p = <<"job", v>> /\ f[p] = p
  <2>1. ASSUME NEW n, p = <<"task", n>>
        PROVE  /\ f[p] \in DOMAIN M /\ N[p] = M[f[p]]
               /\ n \in DOMAIN u /\ f[p] = <<"task", n + 1>>
    BY <2>1, <1>1, <1>3, <1>4, <1>5
  <2>2. ASSUME p = <<"job", w>>
        PROVE  /\ f[p] \in DOMAIN M /\ N[p] = M[f[p]]
               /\ f[p] = <<"task", 1>>
    BY <2>2, <1>1, <1>2, <1>3, <1>4, <1>5
  <2>3. ASSUME NEW v, v # w, p = <<"job", v>>
        PROVE  /\ f[p] \in DOMAIN M /\ N[p] = M[f[p]]
               /\ v \in Workers /\ f[p] = p
    BY <2>3, <1>2, <1>3, <1>4, <1>5
  <2> QED BY <2>1, <2>2, <2>3, <1>5
<1>7. f \in [DOMAIN N -> DOMAIN M]
  BY <1>3, <1>6
<1>8. ASSUME NEW p \in DOMAIN N, NEW q \in DOMAIN N, f[p] = f[q] PROVE p = q
  <2>1. ASSUME NEW n \in DOMAIN u, NEW m \in DOMAIN u, n + 1 = m + 1 PROVE n = m
    BY <2>1, <1>1
  <2>2. \A n \in DOMAIN u : n + 1 # 1
    BY <1>1
  <2> QED BY <2>1, <2>2, <1>6, <1>8
<1>9. Sound(N, R, c, e)
  BY <1>6, <1>7, <1>8, SoundMoved DEF M
<1> QED BY <1>9 DEF N, k, u

\* A thread that goes on with its message, or is done with it.
LEMMA HeldDropped ==
  ASSUME NEW R, NEW c, NEW e, NEW t, NEW j, NEW k,
         \A v \in Workers : k[v] # NoJob => j[v] # NoJob /\ k[v].msg = j[v].msg,
         Sound(Held(t, j), R, c, e)
  PROVE  Sound(Held(t, k), R, c, e)
<1> DEFINE M == Held(t, j)
           N == Held(t, k)
           f == [p \in DOMAIN N |-> p]
<1>1. ASSUME NEW p \in DOMAIN N PROVE p \in DOMAIN M /\ N[p] = M[p]
  BY HeldPlaces
<1>2. f \in [DOMAIN N -> DOMAIN M] /\ \A p \in DOMAIN N : f[p] = p
  BY <1>1
<1> HIDE DEF f, M, N
<1>3. Sound(N, R, c, e)
  BY <1>1, <1>2, SoundMoved DEF M
<1> QED BY <1>3 DEF N

\* Whatever a step does, all there is stays behind: the cutting of a client's
\* stream goes on, or another client has come.
LEMMA Onward ==
  ASSUME RInv, RInv', EchoInv, [LogicNext]_everything
  PROVE  /\ sequence_num' \in Nat /\ Edge \in Nat /\ Edge' \in Nat
         /\ pos' <= MaxStream /\ IsSeq(packets')
         /\ sequence_num < sequence_num' \/ (sequence_num = sequence_num' /\ Edge <= Edge')
<1>1. [Next]_vars /\ [Stream!Next]_Stream!vars
  BY ReceivesOn, StreamStep
<1>2. /\ pos \in Nat /\ pos <= MaxStream /\ MaxStream \in Nat
      /\ open => Begins \in Nat /\ Begins <= pos
  BY ReceiveAssumption DEF EchoInv, RInv, Numbers, Contents, Begins
<1>3. pos' \in Nat /\ pos' <= MaxStream
  <2>1. \A r \in 1 .. MaxStream : Recv(r) => pos' <= MaxStream
    BY DEF Recv
  <2>2. \/ pos' = 0 \/ pos' = pos \/ \E r \in 1 .. MaxStream : Recv(r)
    BY <1>1 DEF Next, vars, GetOneToUse, HeadPart, BodyPart, HeadOnly, BodyDone, HeadIllegal,
                HeadBody, Closed, PutOneToFree
  <2>3. pos' \in Nat
    BY DEF RInv, Numbers
  <2> QED BY <2>1, <2>2, <2>3, <1>2
<1>4. open' => Begins' \in Nat /\ Begins' <= pos'
  BY <1>3 DEF RInv, Numbers, Contents, Begins
<1>5. Edge \in Nat /\ Edge' \in Nat /\ Edge <= MaxStream /\ Edge' <= MaxStream
  BY <1>2, <1>3, <1>4 DEF Edge
<1>6. IsSeq(packets')
  <2>1. \/ packets' = packets \/ packets' = <<>>
        \/ \E x : packets' = Append(packets, x)
    BY <1>1 DEF Stream!Next, Stream!vars, Stream!Connect, Stream!Deliver, Stream!Skip, Stream!Close
  <2>2. ASSUME NEW x, packets' = Append(packets, x) PROVE IsSeq(packets')
    BY <2>2, Appending DEF EchoInv
  <2>3. IsSeq(packets) /\ IsSeq(<<>>)
    BY DEF EchoInv, IsSeq
  <2>4. CASE packets' = packets
    BY <2>3, <2>4
  <2>5. CASE packets' = <<>>
    BY <2>3, <2>5
  <2> QED BY <2>1, <2>2, <2>4, <2>5
<1>7. \/ sequence_num' = sequence_num + 1
      \/ sequence_num' = sequence_num /\ (open' => open)
  <2>1. CASE Connects \/ Closes \/ Recycled
    BY <2>1 DEF Connects, Closes, Recycled
  <2>2. ASSUME NEW r \in 1 .. MaxStream, NEW flood \in Verdicts, Hands(r, flood)
        PROVE  \/ sequence_num' = sequence_num + 1
               \/ sequence_num' = sequence_num /\ (open' => open)
    BY <2>2 DEF Hands, Package, HeadOnly, BodyDone, Recv
  <2>3. CASE ~(Connects \/ Closes \/ Recycled
               \/ \E r \in 1 .. MaxStream, flood \in Verdicts : Hands(r, flood))
    <3>1. sequence_num' = sequence_num
      BY <2>3 DEF LogicNext, everything, logicVars, Reads, Waits, Take, Done, Rejects,
                  Expired, Calls, HandlePing, IgnoresBody, Replies
    <3>2. open' => open
      BY <2>3 DEF LogicNext, everything, allVars, vars, Reads, Piece, HeadPart, BodyPart, HeadIllegal,
                  HeadBody, Waits, Tick, Take, Done, Rejects, Expired, Calls, HandlePing,
                  IgnoresBody, Replies
    <3> QED BY <3>1, <3>2
  <2> QED BY <2>1, <2>2, <2>3
<1>8. open /\ open' => Begins <= Begins'
  <2> SUFFICES ASSUME open, open' PROVE Begins <= Begins'
    OBVIOUS
  <2>1. \/ \E len \in Nat : Begins' = Begins + len
        \/ Begins' = Begins
    <3>1. CASE Stream!Next
      <4>1. CASE Stream!Skip
        BY <4>1, ReceiveAssumption DEF Stream!Skip, Begins
      <4>2. CASE \E len \in {n \in Fields : Legal(n)} : Stream!Deliver(len)
        BY <4>2, ReceiveAssumption DEF Stream!Deliver, Begins
      <4> QED BY <3>1, <4>1, <4>2 DEF Stream!Next, Stream!Connect, Stream!Close
    <3>2. CASE UNCHANGED Stream!vars
      BY <3>2 DEF Stream!vars, Begins
    <3> QED BY <3>1, <3>2, <1>1
  <2> QED BY <2>1, <1>2, <1>4
<1>9. sequence_num \in Nat
  BY DEF EchoInv
<1>10. sequence_num' = sequence_num /\ (open' => open) => Edge <= Edge'
  BY <1>2, <1>4, <1>5, <1>8 DEF Edge
<1> QED BY <1>3, <1>5, <1>6, <1>7, <1>9, <1>10

\* Steps of the epoll thread that hand nothing over.
LEMMA EchoKept ==
  ASSUME RInv, RInv', EchoInv, [LogicNext]_everything, UNCHANGED <<tasks, job, replies>>
  PROVE  EchoInv'
<1>1. /\ sequence_num' \in Nat /\ Edge \in Nat /\ Edge' \in Nat
      /\ pos' <= MaxStream /\ IsSeq(packets')
      /\ sequence_num < sequence_num' \/ (sequence_num = sequence_num' /\ Edge <= Edge')
  BY Onward
<1>2. Sound(Held(tasks, job), replies, sequence_num', Edge')
  BY <1>1, SoundLater DEF EchoInv
<1> QED BY <1>1, <1>2 DEF EchoInv

\* Steps of a pool thread.
LEMMA EchoWorked ==
  ASSUME EchoInv, UNCHANGED <<allVars, sequence_num>>,
         Sound(Held(tasks', job'), replies', sequence_num, Edge)
  PROVE  EchoInv'
<1>1. UNCHANGED <<open, pos, buf, packets, sequence_num>>
  BY DEF allVars, vars
<1>2. Edge' = Edge
  BY <1>1 DEF Edge, Begins
<1> QED BY <1>1, <1>2 DEF EchoInv, IsSeq

LEMMA EchoStep ==
  ASSUME RInv, RInv', BlocksInv, AnswersInv, EchoInv, [LogicNext]_everything
  PROVE  EchoInv'
<1>0. /\ sequence_num \in Nat /\ sequence_num' \in Nat /\ Edge \in Nat /\ Edge' \in Nat
      /\ pos' <= MaxStream /\ IsSeq(packets') /\ IsSeq(packets)
      /\ sequence_num < sequence_num' \/ (sequence_num = sequence_num' /\ Edge <= Edge')
      /\ Sound(Held(tasks, job), replies, sequence_num, Edge)
      /\ IsSeq(tasks) /\ IsSeq(replies) /\ DOMAIN job = Workers
  BY Onward DEF EchoInv, BlocksInv, AnswersInv
<1>1. CASE Connects
  <2>1. UNCHANGED <<tasks, job>> /\ replies' = <<>>
    BY <1>1 DEF Connects
  <2>2. Sound(Held(tasks, job), replies, sequence_num', Edge')
    BY <1>0, SoundLater
  <2>3. Sound(Held(tasks, job), <<>>, sequence_num', Edge')
    BY <2>2 DEF Sound, AnswersMade, OneEach
  <2> QED BY <2>1, <2>3, <1>0 DEF EchoInv
<1>2. CASE UNCHANGED <<tasks, job, replies>>
  BY <1>2, EchoKept
<1>3. ASSUME NEW r \in 1 .. MaxStream, NEW flood \in Verdicts, Hands(r, flood), ~flood
      PROVE  EchoInv'
  <2>1. PICK len \in Fields : Legal(len) /\ Stream!Deliver(len)
    BY <1>3, Packaged DEF Hands, Package
  <2>2. /\ open /\ open' /\ packets' = Append(packets, Stream!Packet(Begins, len))
        /\ Begins' = Begins + len
    BY <2>1 DEF Stream!Deliver, Begins
  <2>3. len \in Nat /\ HeaderLen <= len
    BY <2>1, ReceiveAssumption DEF Legal
  <2> DEFINE x == [seq |-> sequence_num, bytes |-> packets'[Len(packets')]]
  <2>4. x.seq = sequence_num /\ x.bytes = Stream!Packet(Begins, len)
    BY <2>2, <1>0, Appending
  <2>5. /\ tasks' = Append(tasks, x) /\ UNCHANGED <<job, replies, sequence_num>>
    BY <1>3 DEF Hands
  <2> HIDE DEF x
  <2>6. Begins = Edge /\ Begins' = Edge'
    BY <2>2 DEF Edge
  <2>7. Edge + len <= MaxStream
    <3>1. Edge' <= pos'
      BY <2>2, <2>6 DEF RInv, Numbers, Contents, Begins
    <3>2. pos' \in Nat /\ MaxStream \in Nat
      BY ReceiveAssumption DEF RInv, Numbers
    <3> QED BY <3>1, <3>2, <2>2, <2>6, <1>0
  <2>8. Cut(x)
    BY <2>3, <2>4, <2>6, <2>7, <1>0 DEF Cut
  <2>9. Start(x) = Edge /\ End(x) = Edge'
    <3>1. DOMAIN x.bytes = Indices(len) /\ x.bytes[0] = Edge
      BY <2>3, <2>4, <2>6, <1>0, ReceiveAssumption DEF Stream!Packet, Indices
    <3>2. Size(x.bytes) = len
      BY <3>1, <2>3, Sizes DEF Size
    <3> QED BY <3>1, <3>2, <2>2, <2>6 DEF Start, End
  <2>10. /\ DOMAIN tasks = 1 .. Len(tasks) /\ DOMAIN tasks' = 1 .. Len(tasks) + 1
         /\ Len(tasks) \in Nat /\ tasks'[Len(tasks) + 1] = x
         /\ \A n \in DOMAIN tasks : tasks'[n] = tasks[n]
    BY <2>5, <1>0, Appending
  <2> DEFINE q == <<"task", Len(tasks) + 1>>
             M == Held(tasks, job)
             N == Held(tasks', job)
  <2>11. DOMAIN N = DOMAIN M \cup {q} /\ q \notin DOMAIN M /\ N[q] = x
    BY <2>10 DEF Held
  <2>12. \A p \in DOMAIN M : N[p] = M[p]
    BY <2>10 DEF Held
  <2> HIDE DEF M, N, q
  <2>13. Sound(N, replies, sequence_num, Edge')
    BY <2>4, <2>8, <2>9, <2>11, <2>12, <1>0, SoundHanded DEF M
  <2> QED BY <2>5, <2>13, <1>0 DEF EchoInv, N
<1>4. ASSUME NEW w \in Workers, Take(w) PROVE EchoInv'
  <2>1. /\ job[w] = NoJob /\ tasks # <<>>
        /\ job' = [job EXCEPT ![w] = Taken(Head(tasks))] /\ tasks' = Tail(tasks)
        /\ UNCHANGED <<allVars, sequence_num, replies>>
    BY <1>4 DEF Take
  <2>2. Sound(Held(Tail(tasks), [job EXCEPT ![w] = Taken(Head(tasks))]),
              replies, sequence_num, Edge)
    BY <2>1, <1>0, HeldTaken
  <2> QED BY <2>1, <2>2, EchoWorked
<1>5. ASSUME NEW w \in Workers,
             \/ Rejects(w) \/ Expired(w) \/ HandlePing(w) \/ IgnoresBody(w)
             \/ \E code \in Codes : Calls(w, code)
      PROVE  EchoInv'
  <2>1. UNCHANGED <<allVars, sequence_num, tasks, replies>>
    BY <1>5 DEF Rejects, Expired, HandlePing, IgnoresBody, Calls, Done
  <2>2. \A v \in Workers : job'[v] # NoJob => job[v] # NoJob /\ job'[v].msg = job[v].msg
    <3>1. CASE Done(w)
      BY <3>1, <1>0 DEF Done
    <3>2. ASSUME NEW code \in Codes, Calls(w, code)
          PROVE  \A v \in Workers : job'[v] # NoJob => job[v] # NoJob /\ job'[v].msg = job[v].msg
      <4>1. job[w] # NoJob
        BY <3>2 DEF Calls, NoJob
      <4>2. job' = job \/ job' = [job EXCEPT ![w] = Called(job[w].msg, code)]
        BY <3>2 DEF Calls
      <4>3. Called(job[w].msg, code).msg = job[w].msg
        BY DEF Called
      <4> QED BY <4>1, <4>2, <4>3, <1>0
    <3> QED BY <3>1, <3>2, <1>5 DEF Rejects, Expired, HandlePing, IgnoresBody
  <2>3. Sound(Held(tasks, job'), replies, sequence_num, Edge)
    BY <2>2, <1>0, HeldDropped
  <2> QED BY <2>1, <2>3, EchoWorked
<1>6. ASSUME NEW w \in Workers, Replies(w) PROVE EchoInv'
  <2>1. PICK code \in {CMD_REGISTER, CMD_LOGIN} : job[w].code = code
    BY <1>6 DEF Replies
  <2>2. /\ job[w] # NoJob /\ Size(Body(job[w].msg)) = BodyLen(code)
        /\ replies' = Append(replies, Answer(job[w].msg, code))
        /\ job' = [job EXCEPT ![w] = NoJob] /\ UNCHANGED <<allVars, sequence_num, tasks>>
    BY <1>6, <2>1 DEF Replies, Done, NoJob
  <2> DEFINE q == <<"job", w>>
             M == Held(tasks, job)
             N == Held(tasks, job')
  <2>3. q \in DOMAIN M /\ M[q] = job[w].msg
    BY <2>2, HeldPlaces
  <2>4. DOMAIN N = DOMAIN M \ {q} /\ \A p \in DOMAIN N : N[p] = M[p]
    BY <2>2, <1>0 DEF Held
  <2> HIDE DEF M, N, q
  <2>5. Sound(N, Append(replies, Answer(M[q], code)), sequence_num, Edge)
    BY <2>2, <2>3, <2>4, <1>0, SoundAnswered DEF M
  <2>6. Sound(Held(tasks', job'), replies', sequence_num, Edge)
    BY <2>2, <2>3, <2>5 DEF N
  <2> QED BY <2>2, <2>6, EchoWorked
<1>7. \/ Connects \/ UNCHANGED <<tasks, job, replies>>
      \/ \E r \in 1 .. MaxStream, flood \in Verdicts : Hands(r, flood) /\ ~flood
      \/ \E w \in Workers :
           \/ Take(w) \/ Rejects(w) \/ Expired(w) \/ HandlePing(w) \/ IgnoresBody(w) \/ Replies(w)
           \/ \E code \in Codes : Calls(w, code)
  <2>1. \A r \in 1 .. MaxStream, flood \in Verdicts :
           Hands(r, flood) => ~flood \/ UNCHANGED <<tasks, job, replies>>
    BY DEF Hands
  <2>2. \A r \in 1 .. MaxStream : Reads(r) => UNCHANGED <<tasks, job, replies>>
    BY DEF Reads
  <2>3. Closes \/ Recycled \/ Waits \/ UNCHANGED everything => UNCHANGED <<tasks, job, replies>>
    BY DEF Closes, Recycled, Waits, everything, logicVars
  <2> QED BY <2>1, <2>2, <2>3 DEF LogicNext
<1> QED BY <1>1, <1>2, <1>3, <1>4, <1>5, <1>6, <1>7

\* An answer is made of one packet of its client's stream, and no packet is
\* answered twice, for any number of threads, any pieces the bytes come in, any
\* lengths and any clients one after the other.
THEOREM AnswersAreEchoes == LogicSpec => []AnswersEcho
<1>1. LogicInit => EchoInv
  <2> SUFFICES ASSUME LogicInit PROVE EchoInv
    OBVIOUS
  <2>1. DOMAIN Held(tasks, job) = {}
    BY DEF Held, LogicInit
  <2>2. sequence_num = 0 /\ pos = 0 /\ packets = <<>> /\ replies = <<>>
    BY DEF LogicInit, ReadInit, Init
  <2> QED BY <2>1, <2>2, ReceiveAssumption DEF EchoInv, Sound, MessagesCut, AnswersMade, OneEach, IsSeq
<1>2. EchoInv => AnswersEcho
  BY DEF EchoInv, Sound, AnswersMade, OneEach, AnswersEcho
<1>3. LogicSpec => []RInv /\ []BlocksInv /\ []AnswersInv
  BY LogicReceives, ReceiveInvariance, BlocksInvariance, AnswersInvariance, PTL
<1>4. RInv /\ RInv' /\ BlocksInv /\ AnswersInv /\ EchoInv /\ [LogicNext]_everything => EchoInv'
  BY EchoStep
<1> QED BY <1>1, <1>2, <1>3, <1>4, PTL DEF LogicSpec

-----------------------------------------------------------------------------
(* The flood test.                                                         *)

\* flood_attack_count counts the last packages of this client that came too
\* soon: all before those are as long ago as the interval.  It stays below the
\* limit while the client is connected.
FloodInv ==
  /\ FloodTypeOK
  /\ IF spans = <<>> THEN flood_attack_count = 0 /\ since = flood_time_interval_
                     ELSE flood_attack_count < Len(spans) /\ spans[Len(spans)] = 0
  /\ \A n \in 1 .. Len(spans) - 1 :
       IF n < Len(spans) - flood_attack_count
       THEN spans[n] >= flood_time_interval_
       ELSE spans[n] - spans[n + 1] < flood_time_interval_
  /\ open => flood_attack_count < flood_kick_count_

LEMMA FloodReset == (ResetFlood => FloodInv') /\ (FloodInit => FloodInv)
<1> DEFINE e == <<>>
<1>1. /\ e \in Seq(Nat) /\ Len(e) = 0 /\ 1 .. Len(e) - 1 = {}
      /\ flood_time_interval_ \in 0 .. flood_time_interval_
      /\ 0 < flood_kick_count_ /\ 0 \in 0 .. flood_kick_count_ /\ 0 <= flood_kick_count_ + 1
  BY FloodAssumption, EmptySeq
<1>2. ResetFlood => FloodInv'
  BY <1>1 DEF ResetFlood, FloodInv, FloodTypeOK
<1>3. FloodInit => FloodInv
  BY <1>1 DEF FloodInit, FloodInv, FloodTypeOK
<1> QED BY <1>2, <1>3

LEMMA FloodSame ==
  ASSUME FloodInv, UNCHANGED <<flood_attack_count, spans>>, open' => open,
         since' \in 0 .. flood_time_interval_,
         spans = <<>> => since' = since
  PROVE  FloodInv'
BY DEF FloodInv, FloodTypeOK

\* The last packages, with this one and without the oldest of too many.
LEMMA RecentSpans ==
  ASSUME FloodInv
  PROVE  LET s == Recent(Append([n \in DOMAIN spans |-> spans[n] + since], 0))
             d == Len(spans) + 1 - Len(s)
         IN  /\ s \in Seq(Nat) /\ d \in {0, 1} /\ s # <<>>
             /\ Len(s) = IF Len(spans) = flood_kick_count_ + 1 THEN Len(spans) ELSE Len(spans) + 1
             /\ \A n \in 1 .. Len(s) :
                  s[n] = IF n + d \in 1 .. Len(spans) THEN spans[n + d] + since ELSE 0
<1> DEFINE b == [n \in DOMAIN spans |-> spans[n] + since]
           a == Append(b, 0)
           L == Len(spans)
           k == flood_kick_count_ + 1
<1>1. /\ spans \in Seq(Nat) /\ since \in Nat /\ L \in Nat /\ DOMAIN spans = 1 .. L
      /\ k \in Nat /\ k > 0 /\ L <= k
      /\ \A n \in 1 .. L : spans[n] \in Nat
  BY FloodAssumption, LenProperties, ElementOfSeq DEF FloodInv, FloodTypeOK
<1> HIDE DEF L, k
<1>2. b \in Seq(Nat) /\ Len(b) = L /\ \A n \in 1 .. L : b[n] = spans[n] + since
  BY <1>1, IsASeq, LenProperties
<1> HIDE DEF b
<1>3. /\ a \in Seq(Nat) /\ Len(a) = L + 1 /\ a # <<>>
      /\ \A n \in 1 .. L + 1 : a[n] = IF n \in 1 .. L THEN spans[n] + since ELSE 0
  <2>1. a \in Seq(Nat) /\ Len(a) = L + 1 /\ a[L + 1] = 0 /\ \A n \in 1 .. L : a[n] = b[n]
    BY <1>1, <1>2, AppendProperties
  <2> HIDE DEF a
  <2>2. a # <<>>
    BY <1>1, <2>1, EmptySeq
  <2> QED BY <1>1, <1>2, <2>1, <2>2
<1> HIDE DEF a
<1>4. /\ Tail(a) \in Seq(Nat) /\ Len(Tail(a)) = L
      /\ \A n \in 1 .. L : Tail(a)[n] = a[n + 1]
  BY <1>1, <1>3, HeadTailProperties
<1>5. Recent(a) = IF L = k THEN Tail(a) ELSE a
  BY <1>1, <1>3 DEF Recent, k
<1> DEFINE s == Recent(a)
           d == L + 1 - Len(s)
<1>6. /\ s \in Seq(Nat) /\ d \in {0, 1} /\ s # <<>>
      /\ Len(s) = IF L = k THEN L ELSE L + 1
      /\ \A n \in 1 .. Len(s) : s[n] = IF n + d \in 1 .. L THEN spans[n + d] + since ELSE 0
  <2>1. CASE L = k
    <3>1. s = Tail(a) /\ d = 1
      BY <1>1, <1>4, <1>5, <2>1
    <3> HIDE DEF s, d
    <3>2. s # <<>>
      BY <1>1, <1>4, <2>1, <3>1, EmptySeq, SMTT(30)
    <3> QED BY <1>1, <1>3, <1>4, <2>1, <3>1, <3>2
  <2>2. CASE L # k
    <3>1. s = a /\ d = 0
      BY <1>1, <1>3, <1>5, <2>2
    <3> HIDE DEF s, d
    <3> QED BY <1>1, <1>3, <2>2, <3>1
  <2> QED BY <2>1, <2>2
<1> QED BY <1>6 DEF L, k, a, b

LEMMA FloodCounted ==
  ASSUME FloodInv, open, NEW flood \in BOOLEAN, TestFlood(flood), open' => ~flood
  PROVE  FloodInv'
<1> DEFINE L == Len(spans)
           M == Len(spans')
           d == L + 1 - M
           k == flood_kick_count_
           I == flood_time_interval_
           c == flood_attack_count
<1>1. /\ spans' \in Seq(Nat) /\ d \in {0, 1} /\ spans' # <<>>
      /\ M = IF L = k + 1 THEN L ELSE L + 1
      /\ \A n \in 1 .. M : spans'[n] = IF n + d \in 1 .. L THEN spans[n + d] + since ELSE 0
  BY RecentSpans DEF TestFlood
<1>2. /\ L \in Nat /\ M \in Nat /\ \A n \in 1 .. L : spans[n] \in Nat
      /\ k \in Nat \ {0} /\ I \in Nat \ {0} /\ since \in 0 .. I /\ c \in Nat /\ c < k /\ L <= k + 1
      /\ L = 0 => since = I
      /\ (c < L /\ spans[L] = 0) \/ (L = 0 /\ c = 0)
  BY <1>1, FloodAssumption, LenProperties, ElementOfSeq, EmptySeq DEF FloodInv, FloodTypeOK
<1>3. /\ since' = 0 /\ flood_attack_count' = Count /\ Count = IF since < I THEN c + 1 ELSE 0
      /\ (open' => Count < k)
  <2>1. since' = 0 /\ flood_attack_count' = Count /\ flood = (Count >= k)
        /\ Count = IF since < I THEN c + 1 ELSE 0
    BY DEF TestFlood, Count, TooSoon
  <2>2. ASSUME open' PROVE Count < k
    <3>1. ~(Count >= k)
      BY <2>1, <2>2, Zenon
    <3> QED BY <1>2, <2>1, <3>1
  <2> QED BY <2>1, <2>2
<1>4. \A n \in 1 .. L - 1 : IF n < L - c THEN spans[n] >= I ELSE spans[n] - spans[n + 1] < I
  BY DEF FloodInv
<1> HIDE DEF L, M, k, I, c
<1>5. /\ M <= k + 1 /\ Count \in 0 .. k /\ Count < M /\ spans'[M] = 0 /\ 0 \in 0 .. I
  BY <1>1, <1>2, <1>3
<1>6. ASSUME NEW n \in 1 .. M - 1
      PROVE  IF n < M - Count THEN spans'[n] >= I ELSE spans'[n] - spans'[n + 1] < I
  <2>1. /\ n + d \in 1 .. L /\ n \in 1 .. M /\ n + 1 \in 1 .. M /\ n + d \in Nat
        /\ spans[n + d] \in Nat
    BY <1>1, <1>2
  <2>2. spans'[n] = spans[n + d] + since
    BY <1>1, <2>1
  <2>3. CASE since < I
    <3>1. n < M - Count <=> n + d < L - c
      BY <1>1, <1>2, <1>3, <2>1, <2>3
    <3>2. CASE n < M - Count
      <4>1. n + d \in 1 .. L - 1 /\ spans[n + d] >= I
        BY <1>2, <1>4, <2>1, <3>1, <3>2
      <4> QED BY <1>2, <2>1, <2>2, <3>2, <4>1
    <3>3. CASE ~(n < M - Count)
      <4>1. CASE n + d = L
        <5>1. spans'[n + 1] = 0 /\ n + 1 + d = L + 1 /\ n = M - 1
          BY <1>1, <1>2, <2>1, <4>1
        <5>2. spans[n + d] = 0
          BY <1>2, <2>1, <4>1
        <5> QED BY <1>2, <2>2, <2>3, <3>3, <5>1, <5>2
      <4>2. CASE n + d # L
        <5>1. n + d \in 1 .. L - 1 /\ n + 1 + d \in 1 .. L /\ spans[n + d + 1] \in Nat
          BY <1>2, <2>1, <4>2
        <5>2. spans'[n + 1] = spans[n + d + 1] + since
          BY <1>1, <2>1, <5>1
        <5>3. spans[n + d] - spans[n + d + 1] < I
          BY <1>4, <3>1, <3>3, <5>1
        <5> QED BY <1>2, <2>1, <2>2, <3>3, <5>1, <5>2, <5>3
      <4> QED BY <4>1, <4>2
    <3> QED BY <3>2, <3>3
  <2>4. CASE ~(since < I)
    <3>1. since = I /\ Count = 0
      BY <1>2, <1>3, <2>4
    <3>2. n < M - Count /\ spans'[n] >= I
      BY <1>2, <2>1, <2>2, <3>1
    <3> QED BY <3>2
  <2> QED BY <2>3, <2>4
<1> QED BY <1>1, <1>3, <1>5, <1>6 DEF FloodInv, FloodTypeOK, M, k, I

LEMMA FloodStep == FloodInv /\ [LogicNext]_everything => FloodInv'
<1> SUFFICES ASSUME FloodInv, [LogicNext]_everything PROVE FloodInv'
  OBVIOUS
<1>1. CASE Connects
  BY <1>1, FloodReset DEF Connects, Accepted
<1>2. ASSUME NEW r \in 1 .. MaxStream, Reads(r) PROVE FloodInv'
  <2>1. UNCHANGED floodVars /\ UNCHANGED open
    BY <1>2 DEF Reads, Piece, HeadPart, BodyPart, HeadIllegal, HeadBody
  <2> QED BY <2>1, FloodSame DEF floodVars, FloodInv, FloodTypeOK
<1>3. ASSUME NEW r \in 1 .. MaxStream, NEW flood \in Verdicts, Hands(r, flood)
      PROVE  FloodInv'
  <2>1. TestFlood(flood) /\ open /\ (open' => ~flood) /\ flood \in BOOLEAN
    BY <1>3, ReceiveAssumption
    DEF Hands, Package, HeadOnly, BodyDone, Recv, WaitRequestHandlerProcPlast
  <2> QED BY <2>1, FloodCounted
<1>4. CASE Recycled
  BY <1>4, FloodSame DEF Recycled, PutOneToFree, floodVars, FloodInv, FloodTypeOK
<1>5. CASE Closes \/ Waits
  <2>1. CASE Closes
    BY <2>1, FloodSame DEF Closes, Closed, floodVars, FloodInv, FloodTypeOK
  <2>2. CASE Waits
    <3>1. since' \in 0 .. flood_time_interval_ /\ (spans = <<>> => since' = since)
      BY <2>2, FloodAssumption DEF Waits, Tick, TimePasses, TooSoon, FloodInv, FloodTypeOK
    <3> QED BY <2>2, <3>1, FloodSame DEF Waits, Tick, TimePasses, vars
  <2> QED BY <1>5, <2>1, <2>2
<1>6. ASSUME NEW w \in Workers,
             \/ Take(w) \/ Rejects(w) \/ Expired(w) \/ HandlePing(w) \/ IgnoresBody(w) \/ Replies(w)
             \/ \E code \in Codes : Calls(w, code)
      PROVE  FloodInv'
  <2>1. UNCHANGED allVars
    BY <1>6 DEF Take, Rejects, Expired, HandlePing, IgnoresBody, Replies, Calls, Done
  <2> QED BY <2>1, FloodSame DEF allVars, vars, floodVars, FloodInv, FloodTypeOK
<1>7. CASE UNCHANGED everything
  BY <1>7, FloodSame DEF everything, allVars, vars, floodVars, FloodInv, FloodTypeOK
<1> QED BY <1>1, <1>2, <1>3, <1>4, <1>5, <1>6, <1>7 DEF LogicNext

LEMMA FloodInvariance == LogicSpec => []FloodInv
<1>1. LogicInit => FloodInv
  BY FloodReset DEF LogicInit, ReadInit
<1> QED BY <1>1, FloodStep, PTL DEF LogicSpec

\* The flood test closes a client only after a run of packages that came each
\* too soon after the other, none of them from the client that had the
\* Connection before.
THEOREM KicksAreEarned == LogicSpec => []KickNeedsRun
<1>1. FloodInv => KickNeedsRun
  <2> SUFFICES ASSUME FloodInv, flood_attack_count >= flood_kick_count_
               PROVE  Run /\ ~open
    BY DEF KickNeedsRun
  <2>1. /\ Len(spans) \in Nat /\ flood_kick_count_ \in Nat \ {0}
        /\ flood_attack_count \in 0 .. flood_kick_count_
        /\ Len(spans) <= flood_kick_count_ + 1
    BY FloodAssumption, LenProperties DEF FloodInv, FloodTypeOK
  <2>2. flood_attack_count < Len(spans)
    BY <2>1 DEF FloodInv
  <2>3. Len(spans) = flood_kick_count_ + 1 /\ flood_attack_count = flood_kick_count_
    BY <2>1, <2>2
  <2>4. ASSUME NEW n \in 1 .. flood_kick_count_
        PROVE  spans[n] - spans[n + 1] < flood_time_interval_
    <3>1. n \in 1 .. Len(spans) - 1 /\ ~(n < Len(spans) - flood_attack_count)
      BY <2>1, <2>3
    <3> QED BY <3>1 DEF FloodInv
  <2>5. ~open
    BY <2>1, <2>3 DEF FloodInv
  <2> QED BY <2>3, <2>4, <2>5 DEF Run
<1> QED BY <1>1, FloodInvariance, PTL

\* No client stays connected that has sent more than flood_kick_count_ packages
\* within the interval: when fewer than that many came each too soon after the
\* other, the one before those is as long ago as the interval.
THEOREM FloodsAreCaught == LogicSpec => []FloodCaught
<1>1. FloodInv => FloodCaught
  <2> SUFFICES ASSUME FloodInv, open, Flood
               PROVE  FALSE
    BY DEF FloodCaught
  <2>1. /\ Len(spans) = flood_kick_count_ + 1 /\ spans[1] < flood_time_interval_
        /\ flood_kick_count_ \in Nat \ {0} /\ flood_attack_count \in Nat
        /\ flood_attack_count < flood_kick_count_ /\ flood_time_interval_ \in Nat
        /\ spans[1] \in Nat
    BY FloodAssumption, ElementOfSeq DEF FloodInv, FloodTypeOK, Flood
  <2>2. 1 \in 1 .. Len(spans) - 1 /\ 1 < Len(spans) - flood_attack_count
    BY <2>1
  <2>3. spans[1] >= flood_time_interval_
    BY <2>2 DEF FloodInv
  <2> QED BY <2>1, <2>3
<1> QED BY <1>1, FloodInvariance, PTL
=============================================================================
