-------------------------------- MODULE Logic --------------------------------
(***************************************************************************)
(* What the pool threads do with a packet: LogicSocket::HandleMessage and  *)
(* the handlers it calls (app/logic/hao_logic.cpp).  ReceiveFlood hands    *)
(* the packets over; here they wait for a thread, which checks the packet, *)
(* drops it or calls a handler, and frees it; Register and Login answer    *)
(* with the request's own body.                                            *)
(*                                                                         *)
(* A byte is its position in the client's stream, as in Receive, so that a *)
(* reply shows which bytes it was made of.  Whether a packet's checksum is *)
(* right, and the code in its header, are any; a code beyond the table,    *)
(* which is logged and then used as an index all the same, is left out.    *)
(* UpdateTimer is the business of HeartBeat, and what becomes of a reply   *)
(* that of SendQueue.                                                      *)
(***************************************************************************)
EXTENDS ReceiveFlood, FiniteSets

CONSTANTS
  Workers,    \* threads of the pool
  TypeLen,    \* sizeof Register::type
  NameLen,    \* sizeof username
  PassLen,    \* sizeof password
  MaxSeq,     \* bound: values of sequence_num
  MaxTasks,   \* bound: messages waiting for the pool
  Zero        \* the byte that ends a string

ASSUME LogicAssumption ==
  /\ IsFiniteSet(Workers)
  /\ TypeLen \in Nat /\ NameLen \in Nat \ {0} /\ PassLen \in Nat \ {0}
  /\ NameLen + PassLen > 2        \* more than the ends of the strings
  /\ MaxSeq \in Nat /\ MaxTasks \in Nat
  /\ Zero \notin Nat /\ Zero # Junk

VARIABLES
  sequence_num,
  tasks,      \* messages the pool has not taken up
  job,        \* the message a thread works on
  replies,    \* replies given to MsgSend since the client came
  blocks,     \* blocks of memory allocated and not freed
  down        \* the process has ended

logicVars == <<sequence_num, tasks, job, replies, blocks, down>>
everything == <<allVars, logicVars>>

\* The table status_handler; 1 to 4 have no handler, only a null pointer.
CMD_PING == 0
CMD_REGISTER == 5
CMD_LOGIN == 6
Codes == 0 .. 6
NoHandler == 1 .. 4

BodyLen(code) == IF code = CMD_REGISTER THEN TypeLen + NameLen + PassLen
                                        ELSE NameLen + PassLen

NoJob == [stage |-> "idle"]
Taken(msg) == [stage |-> "taken", msg |-> msg]
Called(msg, code) == [stage |-> "called", msg |-> msg, code |-> code]

Size(array) == Cardinality(DOMAIN array)
Body(msg) == [i \in Indices(Size(msg.bytes) - HeaderLen) |-> msg.bytes[HeaderLen + i]]

LogicInit ==
  /\ ReadInit
  /\ sequence_num = 0
  /\ tasks = <<>>
  /\ job = [w \in Workers |-> NoJob]
  /\ replies = <<>>
  /\ blocks = 0
  /\ down = FALSE

-----------------------------------------------------------------------------
(* The epoll thread: ReceiveFlood's actions, with what they mean for the   *)
(* pool and the memory.                                                    *)

Connects ==
  /\ Accepted
  /\ sequence_num < MaxSeq
  /\ sequence_num' = sequence_num + 1
  /\ replies' = <<>>
  /\ UNCHANGED <<tasks, job, blocks, down>>

\* A header announces a body: the block for the packet is allocated.
Reads(r) ==
  /\ Piece(r)
  /\ blocks' = IF mem = NoMem /\ mem' # NoMem THEN blocks + 1 ELSE blocks
  /\ UNCHANGED <<sequence_num, tasks, job, replies, down>>

\* The block of a complete packet, allocated just now when there is no body,
\* goes to the pool, or is freed when the client is closed for a flood.
Hands(r, flood) ==
  /\ Package(r, flood)
  /\ Len(tasks) < MaxTasks
  /\ tasks' = IF flood THEN tasks
              ELSE Append(tasks, [seq |-> sequence_num, bytes |-> packets'[Len(packets')]])
  /\ blocks' = blocks + (IF mem = NoMem THEN 1 ELSE 0) - (IF flood THEN 1 ELSE 0)
  /\ sequence_num' = IF flood THEN sequence_num + 1 ELSE sequence_num
  /\ UNCHANGED <<job, replies, down>>

\* Mutant of Recycled: the block of an unfinished packet is forgotten.
MutRecycled ==
  /\ PutOneToFree /\ UNCHANGED floodVars
  /\ sequence_num' = sequence_num + 1
  /\ UNCHANGED <<tasks, job, replies, blocks, down>>

Recycled ==
  /\ PutOneToFree /\ UNCHANGED floodVars
  /\ sequence_num' = sequence_num + 1
  /\ blocks' = IF mem = NoMem THEN blocks ELSE blocks - 1
  /\ UNCHANGED <<tasks, job, replies, down>>

\* InRecyConnectQueue counts sequence_num up, for a flood as well.
Closes ==
  /\ Closed /\ UNCHANGED floodVars
  /\ sequence_num' = sequence_num + 1
  /\ UNCHANGED <<tasks, job, replies, blocks, down>>

Waits == Tick /\ UNCHANGED logicVars

-----------------------------------------------------------------------------
(* A pool thread.                                                          *)

Take(w) ==
  /\ job[w] = NoJob /\ tasks # <<>>
  /\ job' = [job EXCEPT ![w] = Taken(Head(tasks))]
  /\ tasks' = Tail(tasks)
  /\ UNCHANGED <<allVars, sequence_num, replies, blocks, down>>

\* FreeMemory, on each of the ways out.
Done(w) ==
  /\ job' = [job EXCEPT ![w] = NoJob]
  /\ blocks' = blocks - 1
  /\ UNCHANGED <<allVars, sequence_num, tasks, down>>

\* A header without a body must have the checksum 0, a body the right one.
Rejects(w) ==
  /\ job[w].stage = "taken"
  /\ Done(w)
  /\ UNCHANGED replies

Current(msg) == msg.seq = sequence_num

\* The client has been closed meanwhile, whether or not there is another.
Expired(w) ==
  /\ job[w].stage = "taken" /\ ~Current(job[w].msg)
  /\ Done(w)
  /\ UNCHANGED replies

Calls(w, code) ==
  /\ job[w].stage = "taken" /\ Current(job[w].msg)
  /\ IF code \in NoHandler
     THEN down' = TRUE /\ UNCHANGED job    \* a call through a null pointer
     ELSE job' = [job EXCEPT ![w] = Called(@.msg, code)] /\ UNCHANGED down
  /\ UNCHANGED <<allVars, sequence_num, tasks, replies, blocks>>

\* HandlePing: whether it has a body, which a ping must not, or not.
HandlePing(w) ==
  /\ job[w].stage = "called" /\ job[w].code = CMD_PING
  /\ Done(w)
  /\ UNCHANGED replies

\* HandleRegister and HandleLogin ignore a body of another size, or none.
IgnoresBody(w) ==
  /\ job[w].stage = "called" /\ job[w].code \in {CMD_REGISTER, CMD_LOGIN}
  /\ Size(Body(job[w].msg)) # BodyLen(job[w].code)
  /\ Done(w)
  /\ UNCHANGED replies

\* ntohl and htonl, on the field `type` of a Register.
Swapped(body, code) ==
  [i \in DOMAIN body |->
     IF code = CMD_REGISTER /\ i < TypeLen THEN body[TypeLen - 1 - i] ELSE body[i]]

\* The last byte of each string of a body.
StringEnds(code) ==
  LET names == BodyLen(code) - PassLen IN {names - 1, BodyLen(code) - 1}

Terminated(body, code) ==
  [i \in DOMAIN body |-> IF i \in StringEnds(code) THEN Zero ELSE body[i]]

\* A checksum tells bodies apart.
GetCRC(body) == <<"crc", body>>

\* Mutant of Answer: the checksum of the body as it came.
MutAnswer(msg, code) ==
  LET body == Body(msg)
  IN [seq |-> msg.seq, code |-> code, crc |-> GetCRC(body),
      body |-> Swapped(Terminated(Swapped(body, code), code), code)]

\* Mutant of Answer: the type stays in the order of the host.
MutAnswerOrder(msg, code) ==
  LET body == Terminated(Swapped(Body(msg), code), code)
  IN [seq |-> msg.seq, code |-> code, crc |-> GetCRC(body), body |-> body]

\* The request's body sent back: type read and put back, the strings ended.
Answer(msg, code) ==
  LET body == Swapped(Terminated(Swapped(Body(msg), code), code), code)
  IN [seq |-> msg.seq, code |-> code, crc |-> GetCRC(body), body |-> body]

\* HandleRegister and HandleLogin, which hold logic_proc_mutex; the reply's
\* block belongs to MsgSend from then on.
Replies(w) ==
  /\ job[w].stage = "called" /\ job[w].code \in {CMD_REGISTER, CMD_LOGIN}
  /\ Size(Body(job[w].msg)) = BodyLen(job[w].code)
  /\ replies' = Append(replies, Answer(job[w].msg, job[w].code))
  /\ Done(w)

LogicNext ==
  /\ ~down
  /\ \/ Connects
     \/ \E r \in 1 .. MaxStream : Reads(r) \/ \E flood \in Verdicts : Hands(r, flood)
     \/ Closes \/ Recycled \/ Waits
     \/ \E w \in Workers :
          \/ Take(w) \/ Rejects(w) \/ Expired(w) \/ HandlePing(w) \/ IgnoresBody(w) \/ Replies(w)
          \/ \E code \in Codes : Calls(w, code)

LogicSpec == LogicInit /\ [][LogicNext]_everything

-----------------------------------------------------------------------------
\* A client that checks the answer as the server checks a request accepts it:
\* the checksum is that of the body as it is sent, after the strings have been
\* ended (hao_logic.cpp:127-130, 149-150).
AnswersValid ==
  \A n \in DOMAIN replies :
    replies[n].crc = GetCRC(replies[n].body) /\ Size(replies[n].body) = BodyLen(replies[n].code)

\* An answer is made of the bytes of one packet of the client's stream, in
\* their order, but for the ends of the strings, whatever pieces the packet
\* came in; and no packet is answered twice.
Echo(r) ==
  \E from \in 0 .. MaxStream :
    \A i \in DOMAIN r.body : r.body[i] = IF i \in StringEnds(r.code) THEN Zero ELSE from + i

AnswersEcho ==
  /\ \A n \in DOMAIN replies : Echo(replies[n])
  /\ \A m, n \in DOMAIN replies : m # n => replies[m] # replies[n]

\* No block is lost and none is freed twice, on any of the ways a packet takes
\* through the epoll thread, the pool and the handlers, whose log line says so:
\* "freed, no leak" (hao_logic.cpp:102).
Working == {w \in Workers : job[w] # NoJob}
BlocksOwned ==
  blocks = (IF mem = NoMem THEN 0 ELSE 1) + Len(tasks) + Cardinality(Working)
=============================================================================
