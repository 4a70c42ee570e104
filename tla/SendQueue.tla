----------------------------- MODULE SendQueue -----------------------------
(***************************************************************************)
(* Sending.  The pool threads append replies to send_message_queue_        *)
(* (MsgSend); SendQueueThread walks the queue and writes to the sockets;   *)
(* what a socket does not take is left to the epoll thread, which goes on  *)
(* when the socket is writable (WriteRequestHandler).                      *)
(*                                                                         *)
(* Two counters of a Connection, changed by four threads without a lock,   *)
(* hold this together: throw_send_count, greater than zero while the epoll *)
(* thread owns the output of the Connection, and send_count, which limits  *)
(* the replies waiting for it.                                             *)
(*                                                                         *)
(* A message is a request's number under the header of its Connection; its *)
(* reply has the same name and is Size units long.  The Connection's life  *)
(* is that of module ConnectionPool, cut down to three places; a parked    *)
(* Connection is reused when no thread follows a pointer to it, which is   *)
(* ConnectionPool's GracePeriod.  Descriptors are not told apart here: a   *)
(* system call on the descriptor field is one step.                        *)
(***************************************************************************)
EXTENDS Integers, Sequences, FiniteSets, SequencesExt

CONSTANTS
  Connections,
  Workers,      \* threads of g_threadpool
  Epoll,        \* the epoll thread
  Sender,       \* the thread running SendQueueThread
  Nobody, NoMsg,
  Size,         \* units in a reply
  QLimit,       \* messages in the queue beyond which MsgSend discards (50000)
  SLimit,       \* send_count beyond which MsgSend kicks (400)
  MaxAsk,       \* bound: requests of one client
  MaxSeq,       \* bound: sequence number up to which a Connection is reused
  Leaving,      \* how clients may leave: "half" (shut down their sending side
                \* and read on), "gone"
  ifkickTimeCount  \* whether clients that send no heartbeat are closed

ASSUME SendAssumption ==
  /\ Size \in Nat \ {0}
  /\ QLimit \in Nat
  /\ SLimit \in Nat
  /\ MaxAsk \in Nat
  /\ MaxSeq \in Nat
  /\ Leaving \subseteq {"half", "gone"}
  /\ ifkickTimeCount \in BOOLEAN
  /\ IsFiniteSet(Workers)
  /\ Epoll \notin Workers
  /\ Sender \notin Workers
  /\ Epoll # Sender
  /\ Nobody \notin Workers \cup Connections

Threads == Workers \cup {Epoll, Sender}

\* A message: its header and the number of the request among the client's.
Msg == [conn : Connections, seq : Nat, n : 1 .. MaxAsk]

ASSUME NoMsgAssumption == NoMsg \notin Msg

VARIABLES
  place,     \* "free", "use" or "parked"
  seq,       \* sequence_num
  open,      \* fd # -1
  armed,     \* EPOLLOUT is in the events registered for fd
  count,     \* send_count
  throw,     \* throw_send_count
  cur,       \* send_mem_pointer
  left,      \* send_len
  peer,      \* the client's end: "open", "half" closed, or "gone"
  unread,    \* reads it takes to empty the socket's receive buffer
  asked,     \* requests read
  wire,      \* for each unit written to the client, the number of its reply
  tasks,     \* requests in the thread pool's queue
  queue,     \* send_message_queue_
  pos,       \* SendQueueThread's iterator
  lock,      \* the holder of logic_proc_mutex
  pc,        \* what each thread is doing
  at,        \* the message it is working on
  event      \* the epoll event being dispatched

connVars == <<place, seq, open, peer, unread, asked>>
sendVars == <<count, throw, cur, left, armed, wire>>
queueVars == <<tasks, queue, pos>>
threadVars == <<pc, at, event, lock>>
vars == <<connVars, sendVars, queueVars, threadVars>>

-----------------------------------------------------------------------------
\* An epoll event: writable or not, with EPOLLRDHUP or an error or not; again
\* when ReadRequestHandler will close the Connection a second time.
Event == [conn : Connections \cup {Nobody}, out : BOOLEAN, hup : BOOLEAN,
          again : BOOLEAN]
NoEvent == [conn |-> Nobody, out |-> FALSE, hup |-> FALSE, again |-> FALSE]

Init ==
  /\ place = [c \in Connections |-> "free"]
  /\ seq = [c \in Connections |-> 1]
  /\ open = [c \in Connections |-> FALSE]
  /\ armed = [c \in Connections |-> FALSE]
  /\ count = [c \in Connections |-> 0]
  /\ throw = [c \in Connections |-> 0]
  /\ cur = [c \in Connections |-> NoMsg]
  /\ left = [c \in Connections |-> 0]
  /\ peer = [c \in Connections |-> "gone"]
  /\ unread = [c \in Connections |-> 0]
  /\ asked = [c \in Connections |-> 0]
  /\ wire = [c \in Connections |-> <<>>]
  /\ tasks = {}
  /\ queue = <<>>
  /\ pos = 1
  /\ lock = [c \in Connections |-> Nobody]
  /\ pc = [t \in Threads |-> IF t = Sender THEN "wait" ELSE "idle"]
  /\ at = [t \in Threads |-> NoMsg]
  /\ event = NoEvent

Move(t, from, to) ==
  /\ pc[t] = from
  /\ pc' = [pc EXCEPT ![t] = to]

EpollPlaces  == {"idle", "read", "write", "disarm", "settle"}
ClosePlaces  == {"close", "test", "decrement", "park"}
WorkerPlaces == {"idle", "lock", "size", "limit", "count", "push"}
SenderPlaces == {"wait", "walk", "throw", "send", "reset", "raise", "arm"}

\* The Connection a thread is working on.
Conn(t) == IF t = Epoll THEN event.conn
           ELSE IF at[t] = NoMsg THEN Nobody ELSE at[t].conn

-----------------------------------------------------------------------------
(* The client *)

Send(c) ==
  /\ open[c] /\ peer[c] = "open"
  /\ asked[c] + unread[c] < MaxAsk
  /\ unread' = [unread EXCEPT ![c] = @ + 1]
  /\ UNCHANGED <<place, seq, open, peer, asked, sendVars, queueVars, threadVars>>

Leave(c) ==
  /\ open[c] /\ peer[c] = "open"
  /\ \E how \in Leaving : peer' = [peer EXCEPT ![c] = how]
  /\ UNCHANGED <<place, seq, open, unread, asked, sendVars, queueVars, threadVars>>

-----------------------------------------------------------------------------
(* SendProc: what send can do with the output of c. *)

\* Its returns: the units taken, 0 when there is nothing to send, -1 when the
\* socket's buffer is full, -2 for any other error.
Results(c) ==
  IF ~open[c] THEN {-2}
  ELSE IF left[c] = 0 THEN {0}
  ELSE {-1} \cup 1 .. left[c] \cup (IF peer[c] = "gone" THEN {-2} ELSE {})

Partly(c) == {r \in Results(c) : r = -1 \/ r \in 1 .. left[c] - 1}

\* Mutant of Transmit: send_len is not reduced.
MutTransmitNoAdvance(c, r) ==
  /\ wire' = IF r <= 0 \/ peer[c] = "gone" THEN wire
             ELSE [wire EXCEPT ![c] = @ \o [i \in 1 .. r |-> cur[c].n]]
  /\ UNCHANGED left

\* The units taken reach the client, if it is still there.
Transmit(c, r) ==
  IF r > 0
  THEN /\ left' = [left EXCEPT ![c] = IF r = @ THEN @ ELSE @ - r]
       /\ wire' = IF peer[c] = "gone" THEN wire
                  ELSE [wire EXCEPT ![c] = @ \o [i \in 1 .. r |-> cur[c].n]]
  ELSE UNCHANGED <<left, wire>>

-----------------------------------------------------------------------------
(* The epoll thread *)

\* Mutant of EventAccept: GetOneToUse sets send_count to 0 as well.
MutEventAcceptCount(c) ==
  /\ pc[Epoll] = "idle"
  /\ place[c] = "free" /\ seq[c] < MaxSeq
  /\ place' = [place EXCEPT ![c] = "use"]
  /\ seq' = [seq EXCEPT ![c] = @ + 1]
  /\ open' = [open EXCEPT ![c] = TRUE]
  /\ armed' = [armed EXCEPT ![c] = FALSE]
  /\ count' = [count EXCEPT ![c] = 0]
  /\ throw' = [throw EXCEPT ![c] = 0]
  /\ cur' = [cur EXCEPT ![c] = NoMsg]
  /\ peer' = [peer EXCEPT ![c] = "open"]
  /\ unread' = [unread EXCEPT ![c] = 0]
  /\ asked' = [asked EXCEPT ![c] = 0]
  /\ wire' = [wire EXCEPT ![c] = <<>>]
  /\ UNCHANGED <<left, queueVars, threadVars>>

\* EventAccept: a free Connection for a new client.
EventAccept(c) ==
  /\ pc[Epoll] = "idle"
  /\ place[c] = "free" /\ seq[c] < MaxSeq
  /\ place' = [place EXCEPT ![c] = "use"]
  /\ seq' = [seq EXCEPT ![c] = @ + 1]
  /\ open' = [open EXCEPT ![c] = TRUE]
  /\ armed' = [armed EXCEPT ![c] = FALSE]
  /\ throw' = [throw EXCEPT ![c] = 0]
  /\ cur' = [cur EXCEPT ![c] = NoMsg]
  /\ peer' = [peer EXCEPT ![c] = "open"]
  /\ unread' = [unread EXCEPT ![c] = 0]
  /\ asked' = [asked EXCEPT ![c] = 0]
  /\ wire' = [wire EXCEPT ![c] = <<>>]
  /\ UNCHANGED <<count, left, queueVars, threadVars>>

\* epoll_wait returns an event for c.  A client that is gone makes the
\* socket report an error, which the loop takes for EPOLLIN and EPOLLOUT.
EpollEvent(c) ==
  /\ open[c]
  /\ \E out \in {FALSE, armed[c] \/ peer[c] = "gone"} :
       LET hup == peer[c] # "open"
           in  == hup \/ unread[c] > 0
       IN  /\ Move(Epoll, "idle", IF in THEN "read" ELSE "write")
           /\ in \/ out
           /\ event' = [conn |-> c, out |-> out, hup |-> hup, again |-> FALSE]
  /\ UNCHANGED <<connVars, sendVars, queueVars, at, lock>>

\* TimerHeartBeatCheck closes c.
KickOverdue(c) ==
  /\ Move(Epoll, "idle", "close")
  /\ ifkickTimeCount /\ place[c] = "use"
  /\ event' = [NoEvent EXCEPT !.conn = c]
  /\ UNCHANGED <<connVars, sendVars, queueVars, at, lock>>

\* Part of a packet, or a packet with an illegal length.
ReadPart ==
  LET c == event.conn
  IN  /\ Move(Epoll, "read", "write")
      /\ open[c] /\ unread[c] > 0
      /\ unread' = [unread EXCEPT ![c] = @ - 1]
      /\ UNCHANGED <<place, seq, open, peer, asked, sendVars, queueVars, at, event, lock>>

ReadPacket ==
  LET c == event.conn
  IN  /\ Move(Epoll, "read", "write")
      /\ open[c] /\ unread[c] > 0
      /\ unread' = [unread EXCEPT ![c] = @ - 1]
      /\ asked' = [asked EXCEPT ![c] = @ + 1]
      /\ tasks' = tasks \cup {[conn |-> c, seq |-> seq[c], n |-> asked[c] + 1]}
      /\ UNCHANGED <<place, seq, open, peer, sendVars, queue, pos, at, event, lock>>

\* A flood: WaitRequestHandlerProcPlast closes the Connection, and
\* ReadRequestHandler closes it again.
ReadFlood ==
  LET c == event.conn
  IN  /\ Move(Epoll, "read", "close")
      /\ open[c] /\ unread[c] > 0
      /\ unread' = [unread EXCEPT ![c] = @ - 1]
      /\ event' = [event EXCEPT !.again = TRUE]
      /\ UNCHANGED <<place, seq, open, peer, asked, sendVars, queueVars, at, lock>>

\* End of stream or an error.  However the Connection is closed, the rest of
\* the event is dispatched all the same.
ReadClosed ==
  /\ Move(Epoll, "read", "close")
  /\ ~open[event.conn] \/ peer[event.conn] # "open"
  /\ UNCHANGED <<connVars, sendVars, queueVars, at, event, lock>>

\* The part of Epoll_Process_Events after the read handler.
NoWrite ==
  /\ Move(Epoll, "write", "idle")
  /\ ~event.out
  /\ event' = NoEvent
  /\ UNCHANGED <<connVars, sendVars, queueVars, at, lock>>

HangUp ==
  /\ Move(Epoll, "write", "idle")
  /\ event.out /\ event.hup
  /\ throw' = [throw EXCEPT ![event.conn] = @ - 1]
  /\ event' = NoEvent
  /\ UNCHANGED <<connVars, count, cur, left, armed, wire, queueVars, at, lock>>

\* WriteRequestHandler: some of it is sent, or all of it, or it is given up.
WriteSome ==
  /\ Move(Epoll, "write", "idle")
  /\ event.out /\ ~event.hup
  /\ \E r \in Partly(event.conn) : Transmit(event.conn, r)
  /\ event' = NoEvent
  /\ UNCHANGED <<connVars, count, throw, cur, armed, queueVars, at, lock>>

WriteRest ==
  /\ Move(Epoll, "write", "disarm")
  /\ event.out /\ ~event.hup
  /\ left[event.conn] \in Results(event.conn) \ {0}
  /\ Transmit(event.conn, left[event.conn])
  /\ UNCHANGED <<connVars, count, throw, cur, armed, queueVars, at, event, lock>>

WriteFailed ==
  /\ Move(Epoll, "write", "settle")
  /\ event.out /\ ~event.hup
  /\ Results(event.conn) \cap {0, -2} # {}
  /\ UNCHANGED <<connVars, sendVars, queueVars, at, event, lock>>

Disarm ==
  /\ Move(Epoll, "disarm", "settle")
  /\ armed' = [armed EXCEPT ![event.conn] = FALSE]
  /\ UNCHANGED <<connVars, count, throw, cur, left, wire, queueVars, at, event, lock>>

\* Mutant of Settle: throw_send_count is not lowered.
MutSettleNoDecrement ==
  /\ Move(Epoll, "settle", "idle")
  /\ cur' = [cur EXCEPT ![event.conn] = NoMsg]
  /\ event' = NoEvent
  /\ UNCHANGED <<connVars, count, throw, left, armed, wire, queueVars, at, lock>>

Settle ==
  /\ Move(Epoll, "settle", "idle")
  /\ cur' = [cur EXCEPT ![event.conn] = NoMsg]
  /\ throw' = [throw EXCEPT ![event.conn] = @ - 1]
  /\ event' = NoEvent
  /\ UNCHANGED <<connVars, count, left, armed, wire, queueVars, at, lock>>

-----------------------------------------------------------------------------
(* zd_close_socket_proc, by the epoll thread and by the pool threads *)

Close(t) ==
  LET c == Conn(t)
  IN  /\ Move(t, "close", "test")
      /\ open' = [open EXCEPT ![c] = FALSE]
      /\ armed' = [armed EXCEPT ![c] = FALSE]
      /\ UNCHANGED <<place, seq, peer, unread, asked, count, throw, cur, left, wire,
                     queueVars, at, event, lock>>

Test(t) ==
  /\ Move(t, "test", IF throw[Conn(t)] > 0 THEN "decrement" ELSE "park")
  /\ UNCHANGED <<connVars, sendVars, queueVars, at, event, lock>>

Decrement(t) ==
  /\ Move(t, "decrement", "park")
  /\ throw' = [throw EXCEPT ![Conn(t)] = @ - 1]
  /\ UNCHANGED <<connVars, count, cur, left, armed, wire, queueVars, at, event, lock>>

\* The handler returns: logic_proc_mutex is released.
Return(t) ==
  /\ at' = [at EXCEPT ![t] = NoMsg]
  /\ lock' = [lock EXCEPT ![Conn(t)] = Nobody]

\* InRecyConnectQueue.
Park(t) ==
  LET c == Conn(t)
  IN  /\ Move(t, "park", IF t # Epoll THEN "idle"
                         ELSE IF event.again THEN "close" ELSE "write")
      /\ IF place[c] = "use"
         THEN /\ place' = [place EXCEPT ![c] = "parked"]
              /\ seq' = [seq EXCEPT ![c] = @ + 1]
         ELSE UNCHANGED <<place, seq>>
      /\ IF t = Epoll
         THEN event' = [event EXCEPT !.again = FALSE] /\ UNCHANGED <<at, lock>>
         ELSE Return(t) /\ UNCHANGED event
      /\ UNCHANGED <<open, peer, unread, asked, sendVars, queueVars>>

\* RecycleConnectionThread and PutOneToFree.
Recycle(c) ==
  /\ place[c] = "parked"
  /\ \A t \in Threads : Conn(t) # c
  /\ place' = [place EXCEPT ![c] = "free"]
  /\ seq' = [seq EXCEPT ![c] = @ + 1]
  /\ cur' = [cur EXCEPT ![c] = NoMsg]
  /\ throw' = [throw EXCEPT ![c] = 0]
  /\ UNCHANGED <<open, peer, unread, asked, count, left, armed, wire, queueVars,
                 threadVars>>

-----------------------------------------------------------------------------
(* A pool thread: HandleMessage, the handler, MsgSend *)

\* The header's sequence number is compared; an expired message is dropped.
HandleMessage(w, m) ==
  /\ pc[w] = "idle" /\ m \in tasks
  /\ tasks' = tasks \ {m}
  /\ IF seq[m.conn] = m.seq
     THEN Move(w, "idle", "lock") /\ at' = [at EXCEPT ![w] = m]
     ELSE UNCHANGED <<pc, at>>
  /\ UNCHANGED <<connVars, sendVars, queue, pos, event, lock>>

\* A message that is not answered, a heartbeat for one.
NoReply(w) ==
  /\ Move(w, "lock", "idle")
  /\ at' = [at EXCEPT ![w] = NoMsg]
  /\ UNCHANGED <<connVars, sendVars, queueVars, event, lock>>

\* Mutant of Lock: logic_proc_mutex is not taken.
MutLockNoMutex(w) ==
  /\ Move(w, "lock", "size")
  /\ UNCHANGED <<connVars, sendVars, queueVars, at, event, lock>>

\* HandleRegister and HandleLogin hold logic_proc_mutex until they return.
Lock(w) ==
  /\ Move(w, "lock", "size")
  /\ lock[Conn(w)] = Nobody
  /\ lock' = [lock EXCEPT ![Conn(w)] = w]
  /\ UNCHANGED <<connVars, sendVars, queueVars, at, event>>

\* MsgSend looks at the queue's length without the queue's lock.
CheckSize(w) ==
  /\ IF Len(queue) > QLimit
     THEN Move(w, "size", "idle") /\ Return(w)
     ELSE Move(w, "size", "limit") /\ UNCHANGED <<at, lock>>
  /\ UNCHANGED <<connVars, sendVars, queueVars, event>>

CheckCount(w) ==
  /\ Move(w, "limit", IF count[Conn(w)] > SLimit THEN "close" ELSE "count")
  /\ UNCHANGED <<connVars, sendVars, queueVars, at, event, lock>>

Count(w) ==
  /\ Move(w, "count", "push")
  /\ count' = [count EXCEPT ![Conn(w)] = @ + 1]
  /\ UNCHANGED <<connVars, throw, cur, left, armed, wire, queueVars, at, event, lock>>

\* SendQueueThread holds send_message_queue_mutex_ except while it waits.
Push(w) ==
  /\ Move(w, "push", "idle")
  /\ pc[Sender] = "wait"
  /\ queue' = Append(queue, at[w])
  /\ Return(w)
  /\ UNCHANGED <<connVars, sendVars, tasks, pos, event>>

-----------------------------------------------------------------------------
(* SendQueueThread *)

Wake ==
  /\ Move(Sender, "wait", "walk")
  /\ queue # <<>>
  /\ pos' = 1
  /\ UNCHANGED <<connVars, sendVars, tasks, queue, at, event, lock>>

EndOfWalk ==
  /\ Move(Sender, "walk", "wait")
  /\ pos > Len(queue)
  /\ pos' = 1
  /\ UNCHANGED <<connVars, sendVars, tasks, queue, at, event, lock>>

\* The sequence number has moved on: the message is erased.
Expired ==
  /\ pc[Sender] = "walk" /\ pos <= Len(queue)
  /\ seq[queue[pos].conn] # queue[pos].seq
  /\ queue' = RemoveAt(queue, pos)
  /\ UNCHANGED <<connVars, sendVars, tasks, pos, threadVars>>

Current ==
  /\ Move(Sender, "walk", "throw")
  /\ pos <= Len(queue)
  /\ seq[queue[pos].conn] = queue[pos].seq
  /\ at' = [at EXCEPT ![Sender] = queue[pos]]
  /\ UNCHANGED <<connVars, sendVars, queueVars, event, lock>>

\* Left to epoll: the message stays in the queue.
Skip ==
  /\ Move(Sender, "throw", "walk")
  /\ throw[Conn(Sender)] > 0
  /\ pos' = pos + 1
  /\ at' = [at EXCEPT ![Sender] = NoMsg]
  /\ UNCHANGED <<connVars, sendVars, tasks, queue, event, lock>>

\* Mutant of Take: throw_send_count is not looked at.
MutTakeNoThrow ==
  LET c == Conn(Sender)
  IN  /\ Move(Sender, "throw", "send")
      /\ count' = [count EXCEPT ![c] = @ - 1]
      /\ cur' = [cur EXCEPT ![c] = at[Sender]]
      /\ left' = [left EXCEPT ![c] = Size]
      /\ queue' = RemoveAt(queue, pos)
      /\ UNCHANGED <<connVars, throw, armed, wire, tasks, pos, at, event, lock>>

Take ==
  LET c == Conn(Sender)
  IN  /\ Move(Sender, "throw", "send")
      /\ throw[c] <= 0
      /\ count' = [count EXCEPT ![c] = @ - 1]
      /\ cur' = [cur EXCEPT ![c] = at[Sender]]
      /\ left' = [left EXCEPT ![c] = Size]
      /\ queue' = RemoveAt(queue, pos)
      /\ UNCHANGED <<connVars, throw, armed, wire, tasks, pos, at, event, lock>>

\* All is sent, or nothing can be: the message is done with.
SendDone ==
  LET c == Conn(Sender)
  IN  /\ Move(Sender, "send", "reset")
      /\ \E r \in Results(c) \ Partly(c) : Transmit(c, r)
      /\ UNCHANGED <<connVars, count, throw, cur, armed, queueVars, at, event, lock>>

SendPart ==
  LET c == Conn(Sender)
  IN  /\ Move(Sender, "send", "raise")
      /\ \E r \in Partly(c) : Transmit(c, r)
      /\ UNCHANGED <<connVars, count, throw, cur, armed, queueVars, at, event, lock>>

Reset ==
  LET c == Conn(Sender)
  IN  /\ Move(Sender, "reset", "walk")
      /\ cur' = [cur EXCEPT ![c] = NoMsg]
      /\ throw' = [throw EXCEPT ![c] = 0]
      /\ at' = [at EXCEPT ![Sender] = NoMsg]
      /\ UNCHANGED <<connVars, count, left, armed, wire, queueVars, event, lock>>

Raise ==
  /\ Move(Sender, "raise", "arm")
  /\ throw' = [throw EXCEPT ![Conn(Sender)] = @ + 1]
  /\ UNCHANGED <<connVars, count, cur, left, armed, wire, queueVars, at, event, lock>>

\* Mutant of Arm: the registered events do not change.
MutArmNot ==
  /\ Move(Sender, "arm", "walk")
  /\ at' = [at EXCEPT ![Sender] = NoMsg]
  /\ UNCHANGED <<connVars, sendVars, queueVars, event, lock>>

\* Epoll_Oper_Event(MOD, EPOLLOUT), which fails for a closed descriptor.
Arm ==
  /\ Move(Sender, "arm", "walk")
  /\ armed' = [armed EXCEPT ![Conn(Sender)] = open[Conn(Sender)]]
  /\ at' = [at EXCEPT ![Sender] = NoMsg]
  /\ UNCHANGED <<connVars, count, throw, cur, left, wire, queueVars, event, lock>>

-----------------------------------------------------------------------------
ClientStep == \E c \in Connections : Send(c) \/ Leave(c)

EpollStep ==
  \/ \E c \in Connections : EventAccept(c) \/ EpollEvent(c) \/ KickOverdue(c)
  \/ ReadPart \/ ReadPacket \/ ReadFlood \/ ReadClosed
  \/ NoWrite \/ HangUp \/ WriteSome \/ WriteRest \/ WriteFailed
  \/ Disarm \/ Settle

CloseStep(t) == Close(t) \/ Test(t) \/ Decrement(t) \/ Park(t)

WorkerStep(w) ==
  \/ \E m \in tasks : HandleMessage(w, m)
  \/ NoReply(w) \/ Lock(w)
  \/ CheckSize(w) \/ CheckCount(w) \/ Count(w) \/ Push(w)

SenderStep ==
  \/ Wake \/ EndOfWalk \/ Expired \/ Current \/ Skip \/ Take
  \/ SendDone \/ SendPart \/ Reset \/ Raise \/ Arm

Next ==
  \/ ClientStep
  \/ EpollStep
  \/ \E t \in Workers \cup {Epoll} : CloseStep(t)
  \/ \E w \in Workers : WorkerStep(w)
  \/ SenderStep
  \/ \E c \in Connections : Recycle(c)

Spec == Init /\ [][Next]_vars

\* The threads keep running.  The client keeps reading: a Connection whose
\* output is armed becomes writable again and again, and not every write to it
\* falls short.
Writable(c) == EpollEvent(c) /\ event'.out

Fairness ==
  /\ WF_vars(SenderStep)
  /\ WF_vars(pc[Epoll] # "idle" /\ EpollStep)
  /\ \A t \in Workers \cup {Epoll} : WF_vars(CloseStep(t))
  /\ \A c \in Connections : SF_vars(Writable(c))
  /\ SF_vars(WriteRest)

FairSpec == Spec /\ Fairness

-----------------------------------------------------------------------------

\* The replies in the queue for c, and those about to be.
Queued(c) == {i \in DOMAIN queue : queue[i].conn = c}
Pushing(c) == {w \in Workers : pc[w] = "push" /\ at[w].conn = c}

\* send_count never understates the replies waiting for a Connection, so that
\* none escapes the limit of MsgSend, whoever the client is they were for.
CountCovers ==
  \A c \in Connections :
    count[c] >= Cardinality(Queued(c)) + Cardinality(Pushing(c))

\* MsgSend checks send_count and then raises it; the limit holds all the same,
\* because the callers hold the Connection's logic_proc_mutex.
CountBound == \A c \in Connections : count[c] <= SLimit + 1

\* MsgSend reads the length of the queue without its lock, and appends later:
\* every pool thread can exceed the limit by one message.
QueueBound == Len(queue) <= QLimit + Cardinality(Workers)

\* While throw_send_count keeps SendQueueThread away from an open Connection,
\* EPOLLOUT is registered or about to be: the rest of the message is not
\* forgotten between the two threads.
LeftToEpoll ==
  \A c \in Connections :
    throw[c] > 0 /\ open[c] =>
      \/ armed[c]
      \/ pc[Sender] = "arm" /\ at[Sender].conn = c
      \/ pc[Epoll] = "settle" /\ event.conn = c

\* SendQueueThread and WriteRequestHandler never write to the same open
\* descriptor at a time.
OneWriter ==
  \A c \in Connections :
    pc[Sender] = "send" /\ at[Sender].conn = c /\ open[c] =>
      ~(pc[Epoll] = "write" /\ event.out /\ ~event.hup /\ event.conn = c)

\* What a client receives is whole replies to its own requests, each at most
\* once, although two threads take turns in writing them, Connections are
\* closed under both and reused by other clients.
Stream == INSTANCE ReplyStream
Replies == Stream!Spec

\* No reply stays in the queue for ever: it is sent, or its client is closed.
\* (Said this way, and not as Waiting ~> ~Waiting, it costs TLC half as much.)
Waiting(c, n) == \E i \in DOMAIN queue : queue[i].conn = c /\ queue[i].n = n
LeavesQueue == \A c \in Connections, n \in 1 .. MaxAsk : []<>~Waiting(c, n)

=============================================================================
