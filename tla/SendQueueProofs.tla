-------------------------- MODULE SendQueueProofs --------------------------
(***************************************************************************)
(* Theorems about SendQueue, for every number of Connections, threads and  *)
(* requests, and every limit.                                              *)
(***************************************************************************)
EXTENDS SendQueue, SequenceTheorems, FiniteSetTheorems, TLAPS

-----------------------------------------------------------------------------
(* The inductive invariant *)

Places == EpollPlaces \cup ClosePlaces \cup WorkerPlaces \cup SenderPlaces

\* Where a pool thread holds the Connection's logic_proc_mutex.
Holding == {"size", "limit", "count", "push"} \cup ClosePlaces

\* Types of what the counter depends on.
ControlType ==
  /\ pc \in [Threads -> Places]
  /\ at \in [Threads -> Msg \cup {NoMsg}]
  /\ lock \in [Connections -> Workers \cup {Nobody}]
  /\ count \in [Connections -> Int]
  /\ queue \in Seq(Msg)
  /\ pos \in Nat \ {0}

\* Every request in the task queue is a message: the client sends no more
\* than MaxAsk.
RequestType ==
  /\ seq \in [Connections -> Nat]
  /\ unread \in [Connections -> Nat]
  /\ asked \in [Connections -> Nat]
  /\ \A c \in Connections : asked[c] + unread[c] <= MaxAsk
  /\ tasks \in SUBSET Msg
  /\ event \in Event
  /\ pc[Epoll] = "read" => event.conn \in Connections

\* A pool thread inside a handler holds the mutex of its Connection.
Locked ==
  \A w \in Workers :
    /\ pc[w] \in WorkerPlaces \cup ClosePlaces
    /\ pc[w] # "idle" => at[w] \in Msg
    /\ pc[w] \in Holding => lock[at[w].conn] = w

\* Between the check of send_count and its increment the check stays true.
Counting ==
  \A w \in Workers : pc[w] = "count" => count[at[w].conn] <= SLimit

\* SendQueueThread's iterator is at the message it looks at.
Cursor == pc[Sender] = "throw" => pos <= Len(queue)

SInv ==
  /\ ControlType
  /\ RequestType
  /\ Locked
  /\ Counting
  /\ Cursor
  /\ CountBound

-----------------------------------------------------------------------------
LEMMA Names ==
  /\ Epoll \in Threads /\ Sender \in Threads /\ Workers \subseteq Threads
  /\ Epoll \notin Workers /\ Sender \notin Workers /\ Epoll # Sender
  /\ Nobody \notin Workers /\ Nobody \notin Connections
  /\ SLimit \in Nat /\ MaxAsk \in Nat
  /\ NoMsg \notin Msg
  /\ \A m \in Msg : m.conn \in Connections
  /\ NoEvent \in Event
  /\ \A e \in Event : \A b \in BOOLEAN : [e EXCEPT !.again = b] \in Event
  /\ {"idle", "lock", "size", "limit", "count", "push"} \subseteq WorkerPlaces
  /\ {"close", "test", "decrement", "park"} \subseteq ClosePlaces
  /\ {"idle", "read", "write", "disarm", "settle"} \subseteq EpollPlaces
  /\ {"wait", "walk", "throw", "send", "reset", "raise", "arm"} \subseteq SenderPlaces
  /\ EpollPlaces \cup ClosePlaces \cup WorkerPlaces \cup SenderPlaces \subseteq Places
BY SendAssumption, NoMsgAssumption DEF Threads, Msg, Event, NoEvent, WorkerPlaces, ClosePlaces, EpollPlaces, SenderPlaces, Places

LEMMA HoldingPlaces ==
  /\ {"size", "limit", "count", "push", "close", "test", "decrement", "park"} = Holding
  /\ "idle" \notin Holding /\ "lock" \notin Holding
BY DEF Holding, ClosePlaces

\* A step that leaves the pool threads where they are and raises no counter.
LEMMA Quiet ==
  ASSUME SInv,
         pc' \in [Threads -> Places],
         at' \in [Threads -> Msg \cup {NoMsg}],
         \A w \in Workers : pc'[w] = pc[w] /\ at'[w] = at[w],
         UNCHANGED lock,
         count' \in [Connections -> Int],
         \A c \in Connections : count'[c] <= count[c],
         queue' \in Seq(Msg),
         pos' \in Nat \ {0},
         pc'[Sender] = "throw" => pos' <= Len(queue'),
         RequestType'
  PROVE  SInv'
<1> USE Names
<1>1. ControlType'
  BY DEF SInv, ControlType
<1>2. Locked'
  BY DEF SInv, Locked
<1>3. Counting' /\ CountBound'
  BY DEF SInv, Counting, CountBound, Locked, ControlType
<1> QED
  BY <1>1, <1>2, <1>3 DEF SInv, Cursor

-----------------------------------------------------------------------------
(* Requests *)

LEMMA RequestClient ==
  ASSUME SInv, ClientStep
  PROVE  RequestType'
<1> USE Names
<1>1. PICK c \in Connections : Send(c) \/ Leave(c)
  BY DEF ClientStep
<1>2. CASE Send(c)
  BY <1>2 DEF Send, SInv, RequestType, queueVars, threadVars
<1>3. CASE Leave(c)
  BY <1>3 DEF Leave, SInv, RequestType, queueVars, threadVars
<1> QED
  BY <1>1, <1>2, <1>3

LEMMA RequestAccept ==
  ASSUME SInv, NEW c \in Connections, EventAccept(c)
  PROVE  RequestType'
BY Names DEF EventAccept, SInv, RequestType, queueVars, threadVars

LEMMA RequestRead ==
  ASSUME SInv, ReadPart \/ ReadPacket \/ ReadFlood
  PROVE  RequestType'
<1> USE Names DEF SInv
<1> DEFINE d == event.conn
<1>1. /\ d \in Connections /\ unread[d] > 0
      /\ unread' = [unread EXCEPT ![d] = @ - 1]
      /\ pc'[Epoll] # "read"
  BY DEF ReadPart, ReadPacket, ReadFlood, Move, RequestType, ControlType
<1>2. CASE ReadPart
  BY <1>1, <1>2 DEF ReadPart, RequestType, queueVars
<1>3. CASE ReadPacket
  <2>1. /\ asked' = [asked EXCEPT ![d] = @ + 1]
        /\ tasks' = tasks \cup {[conn |-> d, seq |-> seq[d], n |-> asked[d] + 1]}
        /\ UNCHANGED <<seq, event>>
    BY <1>3 DEF ReadPacket
  <2>2. asked[d] + 1 \in 1 .. MaxAsk /\ seq[d] \in Nat
    BY <1>1 DEF RequestType
  <2>3. [conn |-> d, seq |-> seq[d], n |-> asked[d] + 1] \in Msg
    BY <1>1, <2>2 DEF Msg
  <2>4. \A c \in Connections : asked'[c] + unread'[c] <= MaxAsk
    BY <1>1, <2>1 DEF RequestType
  <2> QED
    BY <1>1, <2>1, <2>3, <2>4 DEF RequestType
<1>4. CASE ReadFlood
  <2>1. event' \in Event /\ UNCHANGED <<seq, asked, tasks>>
    BY <1>4 DEF ReadFlood, RequestType, queueVars
  <2> QED
    BY <1>1, <2>1 DEF RequestType
<1> QED
  BY <1>2, <1>3, <1>4

\* Steps of the epoll thread that start or finish an event.
LEMMA RequestEvent ==
  ASSUME SInv, NEW c \in Connections, EpollEvent(c) \/ KickOverdue(c)
  PROVE  RequestType'
<1> USE Names DEF SInv
<1>1. CASE EpollEvent(c)
  <2>1. PICK out \in BOOLEAN :
          event' = [conn |-> c, out |-> out, hup |-> peer[c] # "open", again |-> FALSE]
    BY <1>1 DEF EpollEvent
  <2> QED
    BY <1>1, <2>1 DEF EpollEvent, Event, RequestType, connVars, queueVars
<1>2. CASE KickOverdue(c)
  BY <1>2 DEF KickOverdue, NoEvent, Event, Move, RequestType, ControlType, connVars, queueVars
<1> QED
  BY <1>1, <1>2

\* Steps that change none of it but the event and the sequence numbers.
LEMMA RequestSame ==
  ASSUME SInv, UNCHANGED <<unread, asked>>,
         seq' \in [Connections -> Nat],
         tasks' \subseteq tasks,
         event' \in Event,
         pc'[Epoll] = "read" => pc[Epoll] = "read" /\ event' = event
  PROVE  RequestType'
BY Names DEF SInv, RequestType

-----------------------------------------------------------------------------
(* One lemma per thread *)

LEMMA ClientSteps ==
  ASSUME SInv, ClientStep
  PROVE  SInv'
<1>1. UNCHANGED <<pc, at, lock, count, queue, pos>>
  BY DEF ClientStep, Send, Leave, sendVars, queueVars, threadVars
<1> QED
  BY <1>1, RequestClient, Quiet DEF SInv, ControlType, Cursor

\* A step of the epoll thread or the sending thread.
LEMMA Other ==
  ASSUME SInv, NEW t \in {Epoll, Sender}, NEW from, NEW to \in Places,
         Move(t, from, to)
  PROVE  /\ pc' \in [Threads -> Places]
         /\ \A w \in Workers : pc'[w] = pc[w]
         /\ pc'[t] = to
         /\ \A u \in Threads : u # t => pc'[u] = pc[u]
BY Names DEF Move, SInv, ControlType

LEMMA EpollSteps ==
  ASSUME SInv, EpollStep
  PROVE  SInv'
<1> USE Names
<1>1. ASSUME NEW c \in Connections, EventAccept(c)
      PROVE  SInv'
  <2>1. UNCHANGED <<pc, at, lock, count, queue, pos>>
    BY <1>1 DEF EventAccept, queueVars, threadVars
  <2> QED
    BY <1>1, <2>1, RequestAccept, Quiet DEF SInv, ControlType, Cursor
<1>2. ASSUME NEW c \in Connections, EpollEvent(c) \/ KickOverdue(c)
      PROVE  SInv'
  <2>1. PICK to \in {"read", "write", "close"} : Move(Epoll, "idle", to)
    BY <1>2 DEF EpollEvent, KickOverdue
  <2>2. UNCHANGED <<at, lock, count, queue, pos>>
    BY <1>2 DEF EpollEvent, KickOverdue, sendVars, queueVars
  <2> QED
    BY <1>2, <2>1, <2>2, Other, RequestEvent, Quiet DEF SInv, ControlType, Cursor
<1>3. ASSUME ReadPart \/ ReadPacket \/ ReadFlood
      PROVE  SInv'
  <2>1. PICK to \in {"write", "close"} : Move(Epoll, "read", to)
    BY <1>3 DEF ReadPart, ReadPacket, ReadFlood
  <2>2. UNCHANGED <<at, lock, count, queue, pos>>
    BY <1>3 DEF ReadPart, ReadPacket, ReadFlood, sendVars, queueVars
  <2> QED
    BY <1>3, <2>1, <2>2, Other, RequestRead, Quiet DEF SInv, ControlType, Cursor
<1>4. ASSUME NEW from, NEW to \in {"idle", "close", "disarm", "settle"},
             Move(Epoll, from, to),
             event' \in {event, NoEvent},
             UNCHANGED <<connVars, queueVars, at, lock, count>>
      PROVE  SInv'
  <2>1. RequestType'
    BY <1>4, Other, RequestSame DEF SInv, RequestType, connVars, queueVars
  <2> QED
    BY <1>4, <2>1, Other, Quiet DEF SInv, ControlType, Cursor, queueVars
<1>5. CASE ReadClosed
  BY <1>4, <1>5 DEF ReadClosed, sendVars
<1>6. CASE NoWrite
  BY <1>4, <1>6 DEF NoWrite, sendVars
<1>7. CASE HangUp
  BY <1>4, <1>7 DEF HangUp
<1>8. CASE WriteSome
  BY <1>4, <1>8 DEF WriteSome
<1>9. CASE WriteRest
  BY <1>4, <1>9 DEF WriteRest
<1>10. CASE WriteFailed
  BY <1>4, <1>10 DEF WriteFailed, sendVars
<1>11. CASE Disarm
  BY <1>4, <1>11 DEF Disarm
<1>12. CASE Settle
  BY <1>4, <1>12 DEF Settle
<1> QED
  BY <1>1, <1>2, <1>3, <1>5, <1>6, <1>7, <1>8, <1>9, <1>10, <1>11, <1>12 DEF EpollStep

LEMMA SenderSteps ==
  ASSUME SInv, SenderStep
  PROVE  SInv'
<1> USE Names
<1>1. ASSUME at' \in [Threads -> Msg \cup {NoMsg}],
             \A w \in Workers : at'[w] = at[w],
             pc' \in [Threads -> Places],
             \A u \in Threads : u # Sender => pc'[u] = pc[u],
             count' \in [Connections -> Int],
             \A c \in Connections : count'[c] <= count[c],
             queue' \in Seq(Msg), pos' \in Nat \ {0},
             pc'[Sender] = "throw" => pos' <= Len(queue'),
             UNCHANGED <<connVars, tasks, event, lock>>
      PROVE  SInv'
  <2>1. RequestType'
    BY <1>1, RequestSame DEF SInv, RequestType, connVars
  <2> QED
    BY <1>1, <2>1, Quiet
<1>2. CASE Wake \/ EndOfWalk
  BY <1>1, <1>2, Other DEF Wake, EndOfWalk, SInv, ControlType, sendVars
<1>3. CASE Expired
  <2>1. queue' \in Seq(Msg)
    BY <1>3, SMTT(30) DEF Expired, RemoveAt, SInv, ControlType
  <2> QED
    BY <1>1, <1>3, <2>1, pc'[Sender] = "walk" DEF Expired, SInv, ControlType, sendVars, threadVars
<1>4. CASE Current
  <2>1. queue[pos] \in Msg
    BY <1>4 DEF Current, SInv, ControlType
  <2> QED
    BY <1>1, <1>4, <2>1, Other DEF Current, SInv, ControlType, sendVars, queueVars
<1>5. CASE Skip
  BY <1>1, <1>5, Other DEF Skip, SInv, ControlType, sendVars
<1>6. CASE Take
  <2>1. queue' \in Seq(Msg)
    BY <1>6 DEF Take, Move, RemoveAt, SInv, ControlType, Cursor
  <2>2. PICK d : count' = [count EXCEPT ![d] = @ - 1]
    BY <1>6 DEF Take
  <2>3. /\ count' \in [Connections -> Int]
        /\ \A c \in Connections : count'[c] <= count[c]
    <3>1. count \in [Connections -> Int]
      BY DEF SInv, ControlType
    <3>2. \A c \in Connections :
            count'[c] = IF c = d THEN count[c] - 1 ELSE count[c]
      BY <2>2, <3>1
    <3>3. \A c \in Connections : count'[c] \in Int /\ count'[c] <= count[c]
      BY <3>1, <3>2
    <3> QED
      BY <2>2, <3>1, <3>3
  <2> QED
    BY <1>1, <1>6, <2>1, <2>3, Other DEF Take, SInv, ControlType
<1>7. CASE SendDone \/ SendPart
  BY <1>1, <1>7, Other DEF SendDone, SendPart, SInv, ControlType, queueVars
<1>8. CASE Reset
  BY <1>1, <1>8, Other DEF Reset, SInv, ControlType, queueVars
<1>9. CASE Raise
  BY <1>1, <1>9, Other DEF Raise, SInv, ControlType, queueVars
<1>10. CASE Arm
  BY <1>1, <1>10, Other DEF Arm, SInv, ControlType, queueVars
<1> QED
  BY <1>2, <1>3, <1>4, <1>5, <1>6, <1>7, <1>8, <1>9, <1>10 DEF SenderStep

\* A pool thread that changes nothing the requests depend on.
LEMMA RequestWorker ==
  ASSUME SInv, NEW w \in Workers, NEW from, NEW to, Move(w, from, to),
         UNCHANGED <<connVars, tasks, event>>
  PROVE  RequestType'
<1>1. pc'[Epoll] = pc[Epoll]
  BY Names DEF Move, SInv, ControlType
<1> QED
  BY <1>1, RequestSame DEF SInv, RequestType, connVars

\* A step of a pool thread outside any handler, or one that enters a handler:
\* the mutex of its Connection is free before, or stays as it was.
LEMMA WorkerMove ==
  ASSUME SInv, NEW w \in Workers, NEW from, NEW to \in Places, Move(w, from, to)
  PROVE  /\ pc' \in [Threads -> Places]
         /\ pc[w] = from /\ pc'[w] = to
         /\ \A u \in Threads : u # w => pc'[u] = pc[u]
         /\ pc'[Sender] = pc[Sender] /\ pc'[Epoll] = pc[Epoll]
BY Names DEF Move, SInv, ControlType

\* A step of a pool thread inside a handler that keeps the mutex.
LEMMA Inside ==
  ASSUME SInv, NEW w \in Workers, NEW from,
         NEW to \in {"lock", "size", "limit", "close", "test", "decrement", "park"},
         Move(w, from, to), from # "idle",
         to # "lock" => from \in Holding,
         RequestType',
         UNCHANGED <<at, lock, count, queue, pos>>
  PROVE  SInv'
<1> USE Names, HoldingPlaces, WorkerMove
<1>1. to \in Places /\ to \in WorkerPlaces \cup ClosePlaces
  OBVIOUS
<1>2. ControlType'
  BY <1>1 DEF SInv, ControlType
<1>3. Locked'
  BY <1>1 DEF SInv, Locked
<1>4. Counting' /\ CountBound' /\ Cursor'
  BY <1>1 DEF SInv, Counting, CountBound, Cursor
<1> QED
  BY <1>2, <1>3, <1>4 DEF SInv

\* A handler returns.
LEMMA Leaves ==
  ASSUME SInv, NEW w \in Workers, NEW from \in Holding,
         Move(w, from, "idle"), Return(w),
         RequestType',
         queue' \in Seq(Msg), Len(queue') >= Len(queue),
         UNCHANGED <<count, pos>>
  PROVE  SInv'
<1> USE Names, HoldingPlaces, WorkerMove
<1>1. /\ at[w] \in Msg /\ lock[at[w].conn] = w /\ Conn(w) = at[w].conn
  BY DEF SInv, Locked, Conn
<1>2. /\ at' = [at EXCEPT ![w] = NoMsg]
      /\ lock' = [lock EXCEPT ![at[w].conn] = Nobody]
  BY <1>1 DEF Return
<1>3. ControlType'
  BY <1>1, <1>2 DEF SInv, ControlType
<1>4. Locked'
  BY <1>1, <1>2 DEF SInv, Locked, ControlType
<1>5. Counting' /\ CountBound'
  BY <1>1, <1>2 DEF SInv, Counting, CountBound, ControlType
<1>6. Cursor'
  BY DEF SInv, Cursor, ControlType
<1> QED
  BY <1>3, <1>4, <1>5, <1>6 DEF SInv

LEMMA WorkerSteps ==
  ASSUME SInv, NEW w \in Workers, WorkerStep(w)
  PROVE  SInv'
<1> USE Names, HoldingPlaces, WorkerMove
<1>1. ASSUME NEW m \in tasks, HandleMessage(w, m)
      PROVE  SInv'
  <2>1. /\ m \in Msg /\ tasks' \subseteq tasks /\ event' = event
        /\ UNCHANGED <<connVars, count, queue, pos, lock>>
        /\ pc[w] = "idle"
    BY <1>1 DEF HandleMessage, SInv, RequestType, sendVars
  <2>2. CASE UNCHANGED <<pc, at>>
    <3>1. RequestType'
      BY <2>1, <2>2, RequestSame DEF SInv, RequestType, connVars
    <3> QED
      BY <2>1, <2>2, <3>1, Quiet DEF SInv, ControlType, Cursor
  <2>3. CASE Move(w, "idle", "lock") /\ at' = [at EXCEPT ![w] = m]
    <3>1. pc'[Epoll] = pc[Epoll] /\ pc'[Sender] = pc[Sender]
      BY <2>3
    <3>2. RequestType'
      BY <2>1, <3>1, RequestSame DEF SInv, RequestType, connVars
    <3>3. ControlType' /\ Cursor'
      BY <2>1, <2>3 DEF SInv, ControlType, Cursor
    <3>4. Locked' /\ Counting' /\ CountBound'
      BY <2>1, <2>3 DEF SInv, Locked, Counting, CountBound, ControlType
    <3> QED
      BY <3>2, <3>3, <3>4 DEF SInv
  <2> QED
    BY <1>1, <2>2, <2>3 DEF HandleMessage
<1>2. CASE NoReply(w)
  <2>1. RequestType'
    BY <1>2, RequestWorker DEF NoReply, queueVars
  <2>2. ControlType' /\ Cursor'
    BY <1>2 DEF NoReply, SInv, ControlType, Cursor, sendVars, queueVars
  <2>3. Locked' /\ Counting' /\ CountBound'
    BY <1>2 DEF NoReply, SInv, Locked, Counting, CountBound, ControlType, sendVars
  <2> QED
    BY <2>1, <2>2, <2>3 DEF SInv
<1>3. CASE Lock(w)
  <2> DEFINE c == at[w].conn
  <2>1. /\ at[w] \in Msg /\ c \in Connections /\ Conn(w) = c
        /\ pc[w] = "lock"
    BY <1>3 DEF Lock, Move, Conn, SInv, Locked
  <2>2. lock[c] = Nobody /\ lock' = [lock EXCEPT ![c] = w]
    BY <1>3, <2>1 DEF Lock
  <2>3. RequestType'
    BY <1>3, RequestWorker DEF Lock, queueVars
  <2> HIDE DEF c
  <2>4. ControlType' /\ Cursor'
    BY <1>3, <2>1, <2>2 DEF Lock, SInv, ControlType, Cursor, sendVars, queueVars
  <2> USE DEF c
  <2>5. Locked' /\ Counting' /\ CountBound'
    BY <1>3, <2>1, <2>2 DEF Lock, SInv, Locked, Counting, CountBound, ControlType, sendVars
  <2> QED
    BY <2>3, <2>4, <2>5 DEF SInv
<1>4. CASE CheckSize(w)
  <2>1. RequestType'
    BY <1>4, RequestWorker DEF CheckSize, queueVars
  <2>2. CASE Move(w, "size", "idle") /\ Return(w)
    BY <1>4, <2>1, <2>2, Leaves DEF CheckSize, SInv, ControlType, sendVars, queueVars
  <2>3. CASE Move(w, "size", "limit") /\ UNCHANGED <<at, lock>>
    BY <1>4, <2>1, <2>3, Inside DEF CheckSize, sendVars, queueVars
  <2> QED
    BY <1>4, <2>2, <2>3 DEF CheckSize
<1>5. CASE CheckCount(w)
  <2>1. RequestType'
    BY <1>5, RequestWorker DEF CheckCount, queueVars
  <2>2. CASE Move(w, "limit", "close")
    BY <1>5, <2>1, <2>2, Inside DEF CheckCount, sendVars, queueVars
  <2>3. CASE Move(w, "limit", "count") /\ ~(count[Conn(w)] > SLimit)
    <3>1. /\ at[w] \in Msg /\ Conn(w) = at[w].conn /\ at[w].conn \in Connections
      BY <2>3 DEF Move, Conn, SInv, Locked
    <3>2. ControlType' /\ Cursor' /\ Locked' /\ CountBound'
      BY <1>5, <2>3, SMTT(30) DEF CheckCount, SInv, ControlType, Locked, Cursor, CountBound, sendVars, queueVars
    <3>3. count[at[w].conn] <= SLimit
      BY <2>3, <3>1 DEF SInv, ControlType
    <3>4. Counting'
      BY <1>5, <2>3, <3>3 DEF CheckCount, SInv, Counting, sendVars
    <3> QED
      BY <2>1, <3>2, <3>4 DEF SInv
  <2> QED
    BY <1>5, <2>2, <2>3 DEF CheckCount
<1>6. CASE Count(w)
  <2> DEFINE c == at[w].conn
  <2>1. /\ at[w] \in Msg /\ c \in Connections /\ Conn(w) = c
        /\ pc[w] = "count" /\ lock[c] = w
    BY <1>6 DEF Count, Move, Conn, SInv, Locked
  <2>2. count' = [count EXCEPT ![c] = @ + 1]
    BY <1>6, <2>1 DEF Count
  <2>3. count[c] \in Int /\ count[c] <= SLimit
    BY <2>1 DEF SInv, Counting, ControlType
  <2>4. RequestType'
    BY <1>6, RequestWorker DEF Count, queueVars
  <2>5. \A v \in Workers : pc[v] = "count" /\ v # w => at[v].conn # c
    BY <2>1 DEF SInv, Locked
  <2>6. UNCHANGED <<at, lock, queue, pos>>
    BY <1>6 DEF Count, queueVars
  <2>7. Move(w, "count", "push")
    BY <1>6 DEF Count
  <2> HIDE DEF c
  <2>8. ControlType' /\ Cursor'
    BY <2>1, <2>2, <2>3, <2>6, <2>7 DEF SInv, ControlType, Cursor
  <2>9. Locked'
    BY <2>6, <2>7 DEF SInv, Locked
  <2>10. CountBound'
    BY <2>1, <2>2, <2>3 DEF SInv, CountBound, ControlType
  <2>11. Counting'
    BY <2>1, <2>2, <2>5, <2>6, <2>7 DEF SInv, Counting, ControlType, Locked
  <2> QED
    BY <2>4, <2>8, <2>9, <2>10, <2>11 DEF SInv
<1>7. CASE Push(w)
  <2>1. at[w] \in Msg
    BY <1>7 DEF Push, Move, SInv, Locked
  <2>2. RequestType'
    BY <1>7, RequestWorker DEF Push
  <2>3. queue' \in Seq(Msg) /\ Len(queue') >= Len(queue)
    BY <1>7, <2>1 DEF Push, SInv, ControlType
  <2> QED
    BY <1>7, <2>2, <2>3, Leaves DEF Push, sendVars
<1> QED
  BY <1>1, <1>2, <1>3, <1>4, <1>5, <1>6, <1>7 DEF WorkerStep

LEMMA CloseSteps ==
  ASSUME SInv, NEW t \in Workers \cup {Epoll}, CloseStep(t)
  PROVE  SInv'
<1> USE Names, HoldingPlaces
<1>1. UNCHANGED <<count, queue, pos, unread, asked, tasks>>
  BY DEF CloseStep, Close, Test, Decrement, Park, connVars, sendVars, queueVars
<1>2. seq' \in [Connections -> Nat]
  <2>1. CASE Park(t)
    <3>1. PICK c : \/ seq' = [seq EXCEPT ![c] = @ + 1]
                   \/ seq' = seq
      BY <2>1 DEF Park
    <3> QED
      BY <3>1 DEF SInv, RequestType
  <2>2. CASE ~Park(t)
    BY <2>2 DEF CloseStep, Close, Test, Decrement, connVars, SInv, RequestType
  <2> QED
    BY <2>1, <2>2
<1>3. event' \in Event
  BY DEF CloseStep, Close, Test, Decrement, Park, SInv, RequestType
<1>4. PICK from \in {"close", "test", "decrement", "park"},
           to \in {"test", "decrement", "park", "idle", "close", "write"} :
        /\ Move(t, from, to)
        /\ t \in Workers => to # "write" /\ (to = "idle" <=> from = "park")
  BY DEF CloseStep, Close, Test, Decrement, Park
<1>5. CASE t = Epoll
  <2>1. UNCHANGED <<at, lock>>
    BY <1>5 DEF CloseStep, Close, Test, Decrement, Park, sendVars, queueVars
  <2>2. /\ pc' \in [Threads -> Places]
        /\ \A w \in Workers : pc'[w] = pc[w]
        /\ pc'[Epoll] # "read" /\ pc'[Sender] = pc[Sender]
    BY <1>4, <1>5, Other
  <2>3. RequestType'
    BY <1>1, <1>2, <1>3, <2>2, RequestSame
  <2> QED
    BY <1>1, <2>1, <2>2, <2>3, Quiet DEF SInv, ControlType, Cursor
<1>6. CASE t \in Workers
  <2>1. UNCHANGED event
    BY <1>6 DEF CloseStep, Close, Test, Decrement, Park
  <2>2. pc'[Epoll] = pc[Epoll]
    BY <1>4, <1>6, WorkerMove
  <2>3. RequestType'
    BY <1>1, <1>2, <1>3, <2>1, <2>2, RequestSame
  <2>4. CASE to = "idle"
    <3>1. Move(t, "park", "idle")
      BY <1>4, <1>6, <2>4
    <3>2. pc[t] = "park" /\ pc'[t] = "idle"
      BY <3>1, <1>6, WorkerMove
    <3>3. Return(t)
      BY <1>6, <3>2 DEF CloseStep, Close, Test, Decrement, Park, Move
    <3> QED
      BY <1>1, <1>6, <2>3, <3>1, <3>3, Leaves DEF SInv, ControlType
  <2>5. CASE to # "idle"
    <3>1. from # "park"
      BY <1>4, <1>6, <2>5
    <3>2. pc[t] # "park"
      BY <1>4, <1>6, <3>1, WorkerMove
    <3>3. UNCHANGED <<at, lock>>
      BY <3>2 DEF CloseStep, Close, Test, Decrement, Park, Move, sendVars, queueVars
    <3> QED
      BY <1>1, <1>4, <1>6, <2>3, <2>5, <3>3, Inside
  <2> QED
    BY <2>4, <2>5
<1> QED
  BY <1>5, <1>6

LEMMA RecycleSteps ==
  ASSUME SInv, NEW c \in Connections, Recycle(c)
  PROVE  SInv'
<1> USE Names
<1>1. seq' \in [Connections -> Nat]
  BY DEF Recycle, SInv, RequestType
<1>2. UNCHANGED <<pc, at, lock, count, queue, pos, unread, asked, tasks, event>>
  BY DEF Recycle, queueVars, threadVars
<1>3. RequestType'
  BY <1>1, <1>2, RequestSame DEF SInv, RequestType
<1> QED
  BY <1>2, <1>3, Quiet DEF SInv, ControlType, Cursor

LEMMA SInit ==
  ASSUME Init
  PROVE  SInv
<1> USE Names DEF Init
<1>1. ControlType
  BY DEF ControlType
<1>2. RequestType
  BY DEF RequestType, Msg
<1>3. Locked /\ Counting
  BY HoldingPlaces DEF Locked, Counting
<1>4. CountBound /\ Cursor
  BY DEF CountBound, Cursor
<1> QED
  BY <1>1, <1>2, <1>3, <1>4 DEF SInv

LEMMA SStep ==
  ASSUME SInv, [Next]_vars
  PROVE  SInv'
<1>1. CASE ClientStep
  BY <1>1, ClientSteps
<1>2. CASE EpollStep
  BY <1>2, EpollSteps
<1>3. ASSUME NEW t \in Workers \cup {Epoll}, CloseStep(t)
      PROVE  SInv'
  BY <1>3, CloseSteps
<1>4. ASSUME NEW w \in Workers, WorkerStep(w)
      PROVE  SInv'
  BY <1>4, WorkerSteps
<1>5. CASE SenderStep
  BY <1>5, SenderSteps
<1>6. ASSUME NEW c \in Connections, Recycle(c)
      PROVE  SInv'
  BY <1>6, RecycleSteps
<1>7. CASE UNCHANGED vars
  BY <1>7 DEF vars, connVars, sendVars, queueVars, threadVars, SInv, ControlType,
     RequestType, Locked, Counting, Cursor, CountBound
<1> QED
  BY <1>1, <1>2, <1>3, <1>4, <1>5, <1>6, <1>7 DEF Next

-----------------------------------------------------------------------------
\* The inductive invariant of MsgSend's limit holds in every reachable state.
THEOREM SendInvariance == Spec => []SInv
BY SInit, SStep, PTL DEF Spec

\* MsgSend tests send_count and raises it in two steps, without a lock of the
\* queue: send_count never passes the limit by more than one all the same, for
\* any number of pool threads, because HandleRegister and HandleLogin hold the
\* Connection's logic_proc_mutex across both.
THEOREM CountBounded == Spec => []CountBound
<1>1. SInv => CountBound
  BY DEF SInv
<1> QED
  BY <1>1, SendInvariance, PTL

-----------------------------------------------------------------------------
(* The length of the queue *)

\* Where a pool thread has found room in the queue and not used it yet.
Permitted == {"limit", "count", "push"}
Appending == {w \in Workers : pc[w] \in Permitted}

\* What makes QueueBound inductive: each thread that has passed the check
\* takes one place of its own beyond the limit.
Room == Len(queue) + Cardinality(Appending) <= QLimit + Cardinality(Workers)

LEMMA Sizes ==
  /\ IsFiniteSet(Workers) /\ Cardinality(Workers) \in Nat
  /\ QLimit \in Nat
  /\ \A S \in SUBSET Workers :
       /\ IsFiniteSet(S) /\ Cardinality(S) \in Nat
       /\ Cardinality(S) <= Cardinality(Workers)
  /\ \A S \in SUBSET Workers : \A T \in SUBSET S : Cardinality(T) <= Cardinality(S)
BY SendAssumption, FS_Subset, FS_CardinalityType

\* A step that makes the queue no longer and lets no thread past the check.
LEMMA RoomKept ==
  ASSUME SInv, Room, queue' \in Seq(Msg), Len(queue') <= Len(queue),
         \A w \in Workers : pc'[w] \in Permitted => pc[w] \in Permitted
  PROVE  Room'
<1>1. Appending' \subseteq Appending /\ Appending \subseteq Workers
  BY DEF Appending
<1>2. /\ Cardinality(Appending') <= Cardinality(Appending)
      /\ Cardinality(Appending) \in Nat /\ Cardinality(Appending') \in Nat
  BY <1>1, Sizes
<1>3. Len(queue) \in Nat /\ Len(queue') \in Nat
  BY DEF SInv, ControlType
<1> QED
  BY <1>2, <1>3, Sizes DEF Room

\* Other threads than those of the pool do not move one.
LEMMA PoolStays ==
  ASSUME SInv, ClientStep \/ EpollStep \/ SenderStep
  PROVE  \A w \in Workers : pc'[w] = pc[w]
<1> USE Names DEF SInv, ControlType
<1>1. CASE ClientStep
  BY <1>1 DEF ClientStep, Send, Leave, threadVars
<1>2. CASE EpollStep
  <2>1. UNCHANGED pc \/ \E to : pc' = [pc EXCEPT ![Epoll] = to]
    BY <1>2 DEF EpollStep, EventAccept, EpollEvent, KickOverdue, ReadPart, ReadPacket,
       ReadFlood, ReadClosed, NoWrite, HangUp, WriteSome, WriteRest, WriteFailed,
       Disarm, Settle, Move, threadVars
  <2> QED
    BY <2>1
<1>3. CASE SenderStep
  <2>1. UNCHANGED pc \/ \E to : pc' = [pc EXCEPT ![Sender] = to]
    BY <1>3 DEF SenderStep, Wake, EndOfWalk, Expired, Current, Skip, Take, SendDone,
       SendPart, Reset, Raise, Arm, Move, threadVars
  <2> QED
    BY <2>1
<1> QED
  BY <1>1, <1>2, <1>3

\* The sending thread only takes messages out.
LEMMA QueueShrinks ==
  ASSUME SInv, ClientStep \/ EpollStep \/ SenderStep
  PROVE  queue' \in Seq(Msg) /\ Len(queue') <= Len(queue)
<1> USE DEF SInv, ControlType
<1>1. CASE Expired \/ Take
  <2>1. queue' = RemoveAt(queue, pos) /\ pos \in 1 .. Len(queue)
    BY <1>1 DEF Expired, Take, Move, Cursor
  <2> DEFINE front == SubSeq(queue, 1, pos - 1)
             back == SubSeq(queue, pos + 1, Len(queue))
  <2>2. /\ front \in Seq(Msg) /\ Len(front) = pos - 1
        /\ back \in Seq(Msg) /\ Len(back) = Len(queue) - pos
    BY <2>1
  <2>3. queue' = front \o back
    BY <2>1, Zenon DEF RemoveAt
  <2>4. Len(queue) \in Nat /\ pos \in Nat
    BY <2>1
  <2> HIDE DEF front, back
  <2>5. queue' \in Seq(Msg)
    BY <2>2, <2>3
  <2>6. Len(front \o back) = Len(front) + Len(back)
    BY <2>2, ConcatProperties
  <2> QED
    BY <2>2, <2>3, <2>4, <2>5, <2>6
<1>2. CASE ClientStep \/ EpollStep \/ (SenderStep /\ ~Expired /\ ~Take)
  <2>1. UNCHANGED queue
    BY <1>2 DEF ClientStep, Send, Leave, EpollStep, EventAccept, EpollEvent, KickOverdue,
       ReadPart, ReadPacket, ReadFlood, ReadClosed, NoWrite, HangUp, WriteSome, WriteRest,
       WriteFailed, Disarm, Settle, SenderStep, Wake, EndOfWalk, Current, Skip, SendDone,
       SendPart, Reset, Raise, Arm, queueVars
  <2> QED
    BY <2>1
<1> QED
  BY <1>1, <1>2

LEMMA RoomWorker ==
  ASSUME SInv, Room, NEW w \in Workers, WorkerStep(w)
  PROVE  Room'
<1> USE Names DEF SInv, ControlType
<1>1. CASE UNCHANGED queue /\ (pc'[w] \in Permitted => pc[w] \in Permitted)
  <2>1. UNCHANGED pc \/ \E to : pc' = [pc EXCEPT ![w] = to]
    BY DEF WorkerStep, HandleMessage, NoReply, Lock, CheckSize, CheckCount, Count, Push, Move
  <2>2. \A v \in Workers : pc'[v] \in Permitted => pc[v] \in Permitted
    BY <1>1, <2>1
  <2> QED
    BY <1>1, <2>2, RoomKept
<1>2. CASE CheckSize(w)
  <2>1. UNCHANGED queue
    BY <1>2 DEF CheckSize, queueVars
  <2>2. CASE Len(queue) <= QLimit
    <3>1. Appending' \subseteq Workers
      BY DEF Appending
    <3> QED
      BY <2>1, <2>2, <3>1, Sizes DEF Room
  <2>3. CASE ~(Len(queue) <= QLimit)
    <3>1. Move(w, "size", "idle")
      BY <1>2, <2>3, Sizes DEF CheckSize
    <3>2. pc'[w] \notin Permitted
      BY <3>1 DEF Move, Permitted
    <3> QED
      BY <1>1, <2>1, <3>2
  <2> QED
    BY <2>2, <2>3
<1>3. CASE Push(w)
  <2>1. Appending' = Appending \ {w} /\ w \in Appending
    BY <1>3 DEF Push, Move, Appending, Permitted
  <2>2. Cardinality(Appending') = Cardinality(Appending) - 1
    <3>1. IsFiniteSet(Appending)
      BY Sizes DEF Appending
    <3> HIDE DEF Appending
    <3>2. Cardinality(Appending \ {w}) = Cardinality(Appending) - 1
      BY <2>1, <3>1, FS_RemoveElement
    <3> QED
      BY <2>1, <3>2
  <2>3. Len(queue') = Len(queue) + 1
    BY <1>3 DEF Push
  <2>4. Appending \subseteq Workers
    BY DEF Appending
  <2> QED
    BY <2>2, <2>3, <2>4, Sizes DEF Room
<1>4. CASE \/ \E m \in tasks : HandleMessage(w, m)
           \/ NoReply(w) \/ Lock(w) \/ CheckCount(w) \/ Count(w)
  BY <1>1, <1>4 DEF HandleMessage, NoReply, Lock, CheckCount, Count, Move, Permitted, queueVars
<1> QED
  BY <1>2, <1>3, <1>4 DEF WorkerStep

LEMMA RoomStep ==
  ASSUME SInv, Room, [Next]_vars
  PROVE  Room'
<1> USE Names
<1>1. CASE ClientStep \/ EpollStep \/ SenderStep
  BY <1>1, PoolStays, QueueShrinks, RoomKept
<1>2. ASSUME NEW t \in Workers \cup {Epoll}, CloseStep(t)
      PROVE  Room'
  <2>1. UNCHANGED queue
    BY <1>2 DEF CloseStep, Close, Test, Decrement, Park, queueVars
  <2>2. \E to \in {"test", "decrement", "park", "idle", "close", "write"} :
          pc' = [pc EXCEPT ![t] = to]
    BY <1>2 DEF CloseStep, Close, Test, Decrement, Park, Move
  <2>3. \A w \in Workers : pc'[w] \in Permitted => pc[w] \in Permitted
    BY <2>2 DEF Permitted, SInv, ControlType
  <2> QED
    BY <2>1, <2>3, RoomKept DEF SInv, ControlType
<1>3. ASSUME NEW w \in Workers, WorkerStep(w)
      PROVE  Room'
  BY <1>3, RoomWorker
<1>4. CASE (\E c \in Connections : Recycle(c)) \/ UNCHANGED vars
  <2>1. UNCHANGED <<queue, pc>>
    BY <1>4 DEF Recycle, vars, queueVars, threadVars
  <2> QED
    BY <2>1, RoomKept DEF SInv, ControlType
<1> QED
  BY <1>1, <1>2, <1>3, <1>4 DEF Next

LEMMA RoomInit ==
  ASSUME Init
  PROVE  Room
<1>1. Appending = {}
  BY Names DEF Init, Appending, Permitted
<1> QED
  BY <1>1, Sizes, FS_EmptySet DEF Init, Room

\* MsgSend reads the length of the queue without its mutex and appends later:
\* however the pool threads interleave, each adds at most one message beyond
\* the limit.
THEOREM QueueBounded == Spec => []QueueBound
<1>1. Init => SInv /\ Room
  BY SInit, RoomInit
<1>2. SInv /\ Room /\ [Next]_vars => SInv' /\ Room'
  BY SStep, RoomStep
<1>3. SInv /\ Room => QueueBound
  <2>1. Appending \subseteq Workers
    BY DEF Appending
  <2> QED
    BY <2>1, Sizes DEF Room, QueueBound, SInv, ControlType
<1> QED
  BY <1>1, <1>2, <1>3, PTL DEF Spec

-----------------------------------------------------------------------------
(* send_count and the queue *)

\* SendQueueThread takes out the message it has looked at.
AtCursor == pc[Sender] = "throw" => at[Sender] = queue[pos]

LEMMA Covering ==
  ASSUME SInv, NEW c \in Connections
  PROVE  /\ IsFiniteSet(Queued(c)) /\ Cardinality(Queued(c)) \in Nat
         /\ IsFiniteSet(Pushing(c)) /\ Cardinality(Pushing(c)) \in Nat
         /\ count[c] \in Int
<1>1. IsFiniteSet(1 .. Len(queue)) /\ DOMAIN queue = 1 .. Len(queue)
  BY FS_Interval, LenProperties DEF SInv, ControlType
<1>2. Queued(c) \subseteq 1 .. Len(queue) /\ Pushing(c) \subseteq Workers
  BY <1>1 DEF Queued, Pushing
<1> QED
  BY <1>1, <1>2, SendAssumption, FS_Subset, FS_CardinalityType DEF SInv, ControlType

\* What is left of a queue from which a message has been taken.
LEMMA Removed ==
  ASSUME NEW q \in Seq(Msg), NEW p \in 1 .. Len(q)
  PROVE  LET r == RemoveAt(q, p)
         IN  /\ r \in Seq(Msg) /\ Len(r) = Len(q) - 1
             /\ \A i \in 1 .. Len(r) : r[i] = IF i < p THEN q[i] ELSE q[i + 1]
<1> DEFINE front == SubSeq(q, 1, p - 1)
           back == SubSeq(q, p + 1, Len(q))
<1>1. RemoveAt(q, p) = front \o back
  BY Zenon DEF RemoveAt
<1>2. /\ front \in Seq(Msg) /\ Len(front) = p - 1
      /\ \A i \in 1 .. p - 1 : front[i] = q[i]
  OBVIOUS
<1>3. /\ back \in Seq(Msg) /\ Len(back) = Len(q) - p
      /\ \A i \in 1 .. Len(q) - p : back[i] = q[p + i]
  OBVIOUS
<1>4. Len(q) \in Nat /\ p \in Nat /\ p >= 1 /\ p <= Len(q)
  OBVIOUS
<1> HIDE DEF front, back
<1>5. /\ front \o back \in Seq(Msg) /\ Len(front \o back) = Len(q) - 1
      /\ \A i \in 1 .. Len(q) - 1 :
           (front \o back)[i] = IF i < p THEN front[i] ELSE back[i - (p - 1)]
  BY <1>2, <1>3, <1>4, ConcatProperties
<1>6. ASSUME NEW i \in 1 .. Len(q) - 1
      PROVE  (front \o back)[i] = IF i < p THEN q[i] ELSE q[i + 1]
  <2>1. CASE i < p
    BY <1>2, <1>4, <1>5, <2>1
  <2>2. CASE ~(i < p)
    <3>1. i - (p - 1) \in 1 .. Len(q) - p /\ p + (i - (p - 1)) = i + 1
      BY <1>4, <2>2
    <3>2. back[i - (p - 1)] = q[i + 1]
      BY <1>3, <3>1
    <3> QED BY <1>5, <2>2, <3>2
  <2> QED BY <2>1, <2>2
<1> QED BY <1>1, <1>5, <1>6

\* Each message left for c was there before, at a place of its own.
LEMMA QueuedLess ==
  ASSUME SInv, NEW c \in Connections, pos \in 1 .. Len(queue), queue' = RemoveAt(queue, pos)
  PROVE  Cardinality(Queued(c)') <= Cardinality(Queued(c) \ {pos})
<1> DEFINE A == {i \in DOMAIN queue' : queue'[i].conn = c}
           B == {i \in DOMAIN queue : queue[i].conn = c} \ {pos}
           f == [i \in A |-> IF i < pos THEN i ELSE i + 1]
<1>1. queue \in Seq(Msg) /\ Len(queue) \in Nat /\ DOMAIN queue = 1 .. Len(queue)
  BY LenProperties DEF SInv, ControlType
<1>2. /\ queue' \in Seq(Msg) /\ Len(queue') = Len(queue) - 1
      /\ \A i \in 1 .. Len(queue') : queue'[i] = IF i < pos THEN queue[i] ELSE queue[i + 1]
  BY <1>1, Removed
<1>3. DOMAIN queue' = 1 .. Len(queue) - 1 /\ pos \in Nat
  BY <1>1, <1>2, LenProperties
<1>4. \A i \in A : f[i] \in B
  BY <1>1, <1>2, <1>3
<1>5. \A i, j \in A : f[i] = f[j] => i = j
  BY <1>3
<1>6. f \in Injection(A, B)
  BY <1>4, <1>5 DEF Injection, IsInjective
<1>7. IsFiniteSet(B)
  <2>1. B \subseteq Queued(c) BY DEF Queued
  <2> QED BY <2>1, Covering, FS_Subset
<1> HIDE DEF A, B, f
<1>8. Cardinality(A) <= Cardinality(B)
  BY <1>6, <1>7, FS_Injection
<1> QED BY <1>8 DEF A, B, Queued

\* A step that touches neither the queue nor the counters and lets no thread
\* past the increment.
LEMMA CoverSame ==
  ASSUME SInv, CountCovers, UNCHANGED <<queue, count>>,
         \A w \in Workers : pc'[w] = "push" => pc[w] = "push" /\ at'[w] = at[w]
  PROVE  CountCovers'
<1> SUFFICES ASSUME NEW c \in Connections
             PROVE  count'[c] >= Cardinality(Queued(c)') + Cardinality(Pushing(c)')
  BY DEF CountCovers
<1>1. Queued(c)' = Queued(c) /\ Pushing(c)' \subseteq Pushing(c)
  BY DEF Queued, Pushing
<1>2. Cardinality(Pushing(c)') <= Cardinality(Pushing(c)) /\ Cardinality(Pushing(c)') \in Nat
  BY <1>1, Covering, FS_Subset, FS_CardinalityType
<1> QED BY <1>1, <1>2, Covering DEF CountCovers

\* Other threads than those of the pool leave its threads and counters alone.
LEMMA PoolKept ==
  ASSUME SInv, ClientStep \/ EpollStep \/ SenderStep
  PROVE  \A w \in Workers : pc'[w] = pc[w] /\ at'[w] = at[w]
<1>1. \A w \in Workers : at'[w] = at[w]
  <2>1. UNCHANGED at \/ \E m : at' = [at EXCEPT ![Sender] = m]
    BY DEF ClientStep, Send, Leave, EpollStep, EventAccept, EpollEvent, KickOverdue,
       ReadPart, ReadPacket, ReadFlood, ReadClosed, NoWrite, HangUp, WriteSome, WriteRest,
       WriteFailed, Disarm, Settle, SenderStep, Wake, EndOfWalk, Expired, Current, Skip, Take,
       SendDone, SendPart, Reset, Raise, Arm, threadVars
  <2> QED BY <2>1, Names DEF SInv, ControlType
<1> QED BY <1>1, PoolStays

LEMMA CoverSender ==
  ASSUME SInv, CountCovers, AtCursor, SenderStep
  PROVE  CountCovers'
<1>1. \A w \in Workers : pc'[w] = pc[w] /\ at'[w] = at[w]
  BY PoolKept
<1>2. CASE Expired \/ Take
  <2> SUFFICES ASSUME NEW c \in Connections
               PROVE  count'[c] >= Cardinality(Queued(c)') + Cardinality(Pushing(c)')
    BY DEF CountCovers
  <2>1. pos \in 1 .. Len(queue) /\ queue' = RemoveAt(queue, pos)
    BY <1>2 DEF Expired, Take, Move, SInv, Cursor, ControlType
  <2>2. Pushing(c)' = Pushing(c)
    BY <1>1 DEF Pushing
  <2>3. Cardinality(Queued(c)') <= Cardinality(Queued(c) \ {pos})
    BY <2>1, QueuedLess
  <2>4. /\ queue' \in Seq(Msg) /\ DOMAIN queue = 1 .. Len(queue)
        /\ queue[pos] \in Msg
    BY <2>1, QueueShrinks, LenProperties DEF SInv, ControlType
  <2>5. Cardinality(Queued(c)') \in Nat
    <3>1. Queued(c)' \subseteq 1 .. Len(queue')
      BY <2>4, LenProperties DEF Queued
    <3>2. IsFiniteSet(1 .. Len(queue'))
      <4>1. Len(queue') \in Nat
        BY <2>4, LenProperties
      <4> QED BY <4>1, FS_Interval
    <3>3. IsFiniteSet(Queued(c)')
      BY <3>1, <3>2, FS_Subset
    <3> QED BY <3>3, FS_CardinalityType
  <2>6. CASE Take /\ c = queue[pos].conn
    <3>1. count' = [count EXCEPT ![queue[pos].conn] = @ - 1]
      <4>1. at[Sender] = queue[pos] /\ at[Sender] # NoMsg /\ Sender # Epoll
        BY <2>4, <2>6, Names DEF Take, Move, AtCursor
      <4> QED BY <2>6, <4>1 DEF Take, Conn
    <3>2. pos \in Queued(c)
      BY <2>1, <2>4, <2>6 DEF Queued
    <3>3. Cardinality(Queued(c) \ {pos}) = Cardinality(Queued(c)) - 1
      BY <3>2, Covering, FS_RemoveElement
    <3>4. count'[c] = count[c] - 1
      BY <2>6, <3>1 DEF SInv, ControlType
    <3> QED BY <2>2, <2>3, <2>5, <3>3, <3>4, Covering DEF CountCovers
  <2>7. CASE Expired \/ c # queue[pos].conn
    <3>1. count'[c] = count[c]
      <4>1. CASE Expired
        BY <4>1 DEF Expired, sendVars
      <4>2. CASE Take /\ c # queue[pos].conn
        <5>1. at[Sender] = queue[pos] /\ at[Sender] # NoMsg /\ Sender # Epoll
          BY <2>4, <4>2, Names DEF Take, Move, AtCursor
        <5> QED BY <4>2, <5>1 DEF Take, Conn, SInv, ControlType
      <4> QED BY <1>2, <2>7, <4>1, <4>2
    <3>2. /\ Cardinality(Queued(c) \ {pos}) <= Cardinality(Queued(c))
          /\ Cardinality(Queued(c) \ {pos}) \in Nat
      BY Covering, FS_Subset, FS_CardinalityType
    <3> QED BY <2>2, <2>3, <2>5, <3>1, <3>2, Covering DEF CountCovers
  <2> QED BY <1>2, <2>6, <2>7
<1>3. CASE ~(Expired \/ Take)
  <2>1. UNCHANGED <<queue, count>>
    BY <1>3 DEF SenderStep, Wake, EndOfWalk, Current, Skip, SendDone, SendPart, Reset, Raise, Arm,
       sendVars, queueVars
  <2> QED BY <1>1, <2>1, CoverSame
<1> QED BY <1>2, <1>3

LEMMA CoverWorker ==
  ASSUME SInv, CountCovers, NEW w \in Workers, WorkerStep(w)
  PROVE  CountCovers'
<1> USE Names DEF SInv, ControlType
<1>1. CASE Count(w)
  <2> SUFFICES ASSUME NEW c \in Connections
               PROVE  count'[c] >= Cardinality(Queued(c)') + Cardinality(Pushing(c)')
    BY DEF CountCovers
  <2>1. /\ at[w] \in Msg /\ Conn(w) = at[w].conn /\ at[w].conn \in Connections
        /\ UNCHANGED <<queue, at>> /\ w # Epoll
        /\ pc[w] = "count" /\ pc' = [pc EXCEPT ![w] = "push"]
        /\ count' = [count EXCEPT ![Conn(w)] = @ + 1]
    BY <1>1 DEF Count, Move, Conn, Locked, queueVars
  <2>2. Queued(c)' = Queued(c)
    BY <2>1 DEF Queued
  <2>3. CASE at[w].conn = c
    <3>1. Pushing(c)' = Pushing(c) \cup {w} /\ w \notin Pushing(c)
      BY <2>1, <2>3 DEF Pushing
    <3> HIDE DEF SInv
    <3>2. Cardinality(Pushing(c)') = Cardinality(Pushing(c)) + 1
      BY <3>1, Covering, FS_AddElement
    <3>3. count'[c] = count[c] + 1
      BY <2>1, <2>3 DEF SInv
    <3> QED BY <2>2, <3>2, <3>3, Covering DEF CountCovers
  <2>4. CASE at[w].conn # c
    <3>1. Pushing(c)' = Pushing(c) /\ count'[c] = count[c]
      BY <2>1, <2>4 DEF Pushing
    <3> QED BY <2>2, <3>1 DEF CountCovers
  <2> QED BY <2>3, <2>4
<1>2. CASE Push(w)
  <2> SUFFICES ASSUME NEW c \in Connections
               PROVE  count'[c] >= Cardinality(Queued(c)') + Cardinality(Pushing(c)')
    BY DEF CountCovers
  <2>1. /\ at[w] \in Msg /\ UNCHANGED count
        /\ pc[w] = "push" /\ pc' = [pc EXCEPT ![w] = "idle"]
        /\ queue' = Append(queue, at[w]) /\ at' = [at EXCEPT ![w] = NoMsg]
        /\ queue \in Seq(Msg) /\ Len(queue) \in Nat /\ DOMAIN queue = 1 .. Len(queue)
    BY <1>2, LenProperties DEF Push, Move, Return, Locked, sendVars
  <2>2. /\ DOMAIN queue' = 1 .. Len(queue) + 1 /\ queue'[Len(queue) + 1] = at[w]
        /\ \A i \in 1 .. Len(queue) : queue'[i] = queue[i]
    BY <2>1, AppendProperties
  <2>3. CASE at[w].conn = c
    <3>1. Pushing(c)' = Pushing(c) \ {w} /\ w \in Pushing(c)
      BY <2>1, <2>3 DEF Pushing
    <3>2. Queued(c)' = Queued(c) \cup {Len(queue) + 1} /\ Len(queue) + 1 \notin Queued(c)
      BY <2>1, <2>2, <2>3 DEF Queued
    <3> HIDE DEF SInv
    <3>3. Cardinality(Pushing(c)') = Cardinality(Pushing(c)) - 1
      BY <3>1, Covering, FS_RemoveElement
    <3>4. Cardinality(Queued(c)') = Cardinality(Queued(c)) + 1
      BY <3>2, Covering, FS_AddElement
    <3> QED BY <2>1, <3>3, <3>4, Covering DEF CountCovers
  <2>4. CASE at[w].conn # c
    <3>1. Pushing(c)' = Pushing(c)
      BY <2>1, <2>4 DEF Pushing
    <3>2. Queued(c)' = Queued(c)
      BY <2>1, <2>2, <2>4 DEF Queued
    <3> QED BY <2>1, <3>1, <3>2 DEF CountCovers
  <2> QED BY <2>3, <2>4
<1>3. CASE \/ \E m \in tasks : HandleMessage(w, m)
           \/ NoReply(w) \/ Lock(w) \/ CheckSize(w) \/ CheckCount(w)
  <2>1. UNCHANGED <<queue, count>>
    BY <1>3 DEF HandleMessage, NoReply, Lock, CheckSize, CheckCount, sendVars, queueVars
  <2>2. /\ \A v \in Workers : v # w => pc'[v] = pc[v] /\ at'[v] = at[v]
        /\ pc'[w] # "push" \/ (pc'[w] = pc[w] /\ at'[w] = at[w])
    BY <1>3 DEF HandleMessage, NoReply, Lock, CheckSize, CheckCount, Move, Return
  <2>3. SInv OBVIOUS
  <2> HIDE DEF SInv
  <2> QED BY <2>1, <2>2, <2>3, CoverSame
<1> QED BY <1>1, <1>2, <1>3 DEF WorkerStep

LEMMA CoverStep ==
  ASSUME SInv, CountCovers, AtCursor, [Next]_vars
  PROVE  CountCovers'
<1>1. CASE ClientStep \/ EpollStep
  <2>1. UNCHANGED <<queue, count>>
    BY <1>1 DEF ClientStep, Send, Leave, EpollStep, EventAccept, EpollEvent, KickOverdue,
       ReadPart, ReadPacket, ReadFlood, ReadClosed, NoWrite, HangUp, WriteSome, WriteRest,
       WriteFailed, Disarm, Settle, sendVars, queueVars
  <2> QED BY <1>1, <2>1, PoolKept, CoverSame
<1>2. ASSUME NEW t \in Workers \cup {Epoll}, CloseStep(t)
      PROVE  CountCovers'
  <2>1. UNCHANGED <<queue, count>>
    BY <1>2 DEF CloseStep, Close, Test, Decrement, Park, sendVars, queueVars
  <2>2. PICK to \in {"test", "decrement", "park", "idle", "close", "write"} :
          pc' = [pc EXCEPT ![t] = to]
    BY <1>2 DEF CloseStep, Close, Test, Decrement, Park, Move
  <2>3. UNCHANGED at \/ \E m : at' = [at EXCEPT ![t] = m]
    BY <1>2 DEF CloseStep, Close, Test, Decrement, Park, Return
  <2>4. \A w \in Workers : pc'[w] = "push" => pc[w] = "push" /\ at'[w] = at[w]
    BY <2>2, <2>3, Names DEF SInv, ControlType
  <2> QED BY <2>1, <2>4, CoverSame
<1>3. ASSUME NEW w \in Workers, WorkerStep(w)
      PROVE  CountCovers'
  BY <1>3, CoverWorker
<1>4. CASE SenderStep
  BY <1>4, CoverSender
<1>5. CASE (\E c \in Connections : Recycle(c)) \/ UNCHANGED vars
  <2>1. UNCHANGED <<queue, count, pc, at>>
    BY <1>5 DEF Recycle, vars, sendVars, queueVars, threadVars
  <2> QED BY <2>1, CoverSame
<1> QED BY <1>1, <1>2, <1>3, <1>4, <1>5 DEF Next

LEMMA CursorStep ==
  ASSUME SInv, AtCursor, [Next]_vars
  PROVE  AtCursor'
<1> USE Names DEF SInv, ControlType, AtCursor
<1>1. CASE ClientStep \/ EpollStep
  <2>1. UNCHANGED <<queue, pos, at>>
    BY <1>1 DEF ClientStep, Send, Leave, EpollStep, EventAccept, EpollEvent, KickOverdue,
       ReadPart, ReadPacket, ReadFlood, ReadClosed, NoWrite, HangUp, WriteSome, WriteRest,
       WriteFailed, Disarm, Settle, queueVars, threadVars
  <2>2. UNCHANGED pc \/ \E to : pc' = [pc EXCEPT ![Epoll] = to]
    BY <1>1 DEF ClientStep, Send, Leave, EpollStep, EventAccept, EpollEvent, KickOverdue,
       ReadPart, ReadPacket, ReadFlood, ReadClosed, NoWrite, HangUp, WriteSome, WriteRest,
       WriteFailed, Disarm, Settle, Move, threadVars
  <2> QED BY <2>1, <2>2
<1>2. ASSUME NEW t \in Workers \cup {Epoll}, CloseStep(t)
      PROVE  AtCursor'
  <2>1. UNCHANGED <<queue, pos>>
    BY <1>2 DEF CloseStep, Close, Test, Decrement, Park, queueVars
  <2>2. \E to : pc' = [pc EXCEPT ![t] = to]
    BY <1>2 DEF CloseStep, Close, Test, Decrement, Park, Move
  <2>3. UNCHANGED at \/ \E m : at' = [at EXCEPT ![t] = m]
    BY <1>2 DEF CloseStep, Close, Test, Decrement, Park, Return
  <2> QED BY <2>1, <2>2, <2>3
<1>3. ASSUME NEW w \in Workers, WorkerStep(w)
      PROVE  AtCursor'
  <2>1. UNCHANGED queue \/ pc[Sender] = "wait"
    BY <1>3 DEF WorkerStep, HandleMessage, NoReply, Lock, CheckSize, CheckCount, Count, Push, queueVars
  <2>2. UNCHANGED pos
    BY <1>3 DEF WorkerStep, HandleMessage, NoReply, Lock, CheckSize, CheckCount, Count, Push, queueVars
  <2>3. UNCHANGED pc \/ \E to : pc' = [pc EXCEPT ![w] = to]
    BY <1>3 DEF WorkerStep, HandleMessage, NoReply, Lock, CheckSize, CheckCount, Count, Push, Move
  <2>4. UNCHANGED at \/ \E m : at' = [at EXCEPT ![w] = m]
    BY <1>3 DEF WorkerStep, HandleMessage, NoReply, Lock, CheckSize, CheckCount, Count, Push, Return
  <2> QED BY <2>1, <2>2, <2>3, <2>4
<1>4. CASE SenderStep
  <2>1. CASE Current
    BY <2>1 DEF Current, Move, queueVars
  <2>2. CASE Expired
    BY <2>2 DEF Expired, threadVars
  <2>3. CASE \/ Wake \/ EndOfWalk \/ Skip \/ Take \/ SendDone \/ SendPart
             \/ Reset \/ Raise \/ Arm
    BY <2>3 DEF Wake, EndOfWalk, Skip, Take, SendDone, SendPart, Reset, Raise, Arm, Move
  <2> QED BY <1>4, <2>1, <2>2, <2>3 DEF SenderStep
<1>5. CASE (\E c \in Connections : Recycle(c)) \/ UNCHANGED vars
  BY <1>5 DEF Recycle, vars, queueVars, threadVars
<1> QED BY <1>1, <1>2, <1>3, <1>4, <1>5 DEF Next

LEMMA CoverInit ==
  ASSUME Init
  PROVE  CountCovers /\ AtCursor
<1>1. AtCursor
  BY Names DEF Init, AtCursor
<1>2. \A c \in Connections : Queued(c) = {} /\ Pushing(c) = {} /\ count[c] = 0
  BY Names DEF Init, Queued, Pushing
<1> QED BY <1>1, <1>2, FS_EmptySet DEF CountCovers

\* send_count never understates the replies waiting for a Connection, for any
\* number of Connections, threads and clients, although three threads change it
\* and the queue at different times and one client's replies may outlive it.
THEOREM CountAlwaysCovers == Spec => []CountCovers
<1>1. Init => SInv /\ CountCovers /\ AtCursor
  BY SInit, CoverInit
<1>2. SInv /\ CountCovers /\ AtCursor /\ [Next]_vars => SInv' /\ CountCovers' /\ AtCursor'
  BY SStep, CoverStep, CursorStep
<1> QED BY <1>1, <1>2, PTL DEF Spec

-----------------------------------------------------------------------------
(* throw_send_count and EPOLLOUT *)

\* Where SendQueueThread works on a message, and where it has seen that the
\* epoll thread does not.
Sending == {"throw", "send", "reset", "raise", "arm"}
Owning  == {"send", "reset", "raise"}

LeftInv ==
  /\ throw \in [Connections -> Int]
  /\ armed \in [Connections -> BOOLEAN] /\ open \in [Connections -> BOOLEAN]
  /\ \A c \in Connections : throw[c] <= 1
  /\ pc[Sender] \in Sending => at[Sender] \in Msg
  /\ pc[Sender] \in Owning => throw[at[Sender].conn] <= 0
  /\ LeftToEpoll

\* One throw_send_count is lowered, or set to zero.
LEMMA Lowered ==
  ASSUME LeftInv, NEW d, throw' = [throw EXCEPT ![d] = @ - 1]
  PROVE  /\ throw' \in [Connections -> Int]
         /\ \A c \in Connections : throw'[c] = IF c = d THEN throw[c] - 1 ELSE throw[c]
         /\ \A c \in Connections : throw'[c] <= throw[c] /\ throw'[c] <= 1
         /\ d \in Connections => throw'[d] <= 0
<1>1. throw \in [Connections -> Int] /\ \A c \in Connections : throw[c] <= 1 /\ throw[c] \in Int
  BY DEF LeftInv
<1>2. CASE d \in Connections
  <2>1. throw[d] - 1 \in Int /\ throw[d] <= 1
    BY <1>1, <1>2
  <2> QED BY <1>1, <1>2, <2>1
<1>3. CASE d \notin Connections
  <2>1. throw' = [c \in Connections |-> IF c = d THEN throw[d] - 1 ELSE throw[c]]
    BY <1>1
  <2>2. throw' = [c \in Connections |-> throw[c]]
    BY <1>3, <2>1
  <2>3. throw' = throw
    BY <1>1, <2>2
  <2>4. \A c \in Connections : c # d /\ throw'[c] = throw[c] /\ throw[c] <= 1 /\ throw[c] \in Int
    BY <1>1, <1>3, <2>3
  <2>5. throw' \in [Connections -> Int]
    BY <1>1, <2>3
  <2>6. \A c \in Connections : throw'[c] <= throw[c]
    BY <2>4
  <2> QED BY <1>3, <2>4, <2>5, <2>6
<1> QED BY <1>2, <1>3

LEMMA Zeroed ==
  ASSUME LeftInv, NEW d \in Connections, throw' = [throw EXCEPT ![d] = 0]
  PROVE  /\ throw' \in [Connections -> Int]
         /\ \A c \in Connections : throw'[c] = IF c = d THEN 0 ELSE throw[c]
         /\ \A c \in Connections : throw'[c] <= 1 /\ (throw[c] <= 0 => throw'[c] <= 0)
<1>1. throw \in [Connections -> Int] /\ \A c \in Connections : throw[c] <= 1 /\ throw[c] \in Int
  BY DEF LeftInv
<1> QED BY <1>1

\* A step of another thread that raises no throw_send_count, opens nothing and
\* switches EPOLLOUT off for closed descriptors only.
LEMMA LeftKept ==
  ASSUME SInv, LeftInv,
         throw' \in [Connections -> Int], \A c \in Connections : throw'[c] <= throw[c],
         armed' = armed, open' = open,
         pc'[Sender] = pc[Sender], at'[Sender] = at[Sender],
         pc[Epoll] = "settle" => pc'[Epoll] = "settle" /\ event'.conn = event.conn
  PROVE  LeftInv'
<1> USE Names DEF LeftInv, Sending, Owning
<1>1. LeftToEpoll'
  BY DEF LeftToEpoll
<1>2. pc'[Sender] \in Owning => throw'[at'[Sender].conn] <= 0
  <2>1. pc[Sender] \in Owning => at[Sender].conn \in Connections
    OBVIOUS
  <2> QED BY <2>1
<1> QED BY <1>1, <1>2

LEMMA LeftEpoll ==
  ASSUME SInv, LeftInv, EpollStep
  PROVE  LeftInv'
<1> USE Names DEF SInv, ControlType
<1>0. UNCHANGED at /\ (UNCHANGED pc \/ \E to : pc' = [pc EXCEPT ![Epoll] = to])
  BY DEF EpollStep, EventAccept, EpollEvent, KickOverdue, ReadPart, ReadPacket, ReadFlood,
         ReadClosed, NoWrite, HangUp, WriteSome, WriteRest, WriteFailed, Disarm, Settle, Move, threadVars
<1>1. pc'[Sender] = pc[Sender] /\ at'[Sender] = at[Sender]
  BY <1>0
<1>2. ASSUME NEW c \in Connections, EventAccept(c)
      PROVE  LeftInv'
  <2>1. /\ throw' = [throw EXCEPT ![c] = 0] /\ armed' = [armed EXCEPT ![c] = FALSE]
        /\ open' = [open EXCEPT ![c] = TRUE] /\ UNCHANGED <<pc, event>>
    BY <1>2 DEF EventAccept, threadVars
  <2>2. /\ throw' \in [Connections -> Int]
        /\ \A d \in Connections : throw'[d] = (IF d = c THEN 0 ELSE throw[d])
        /\ \A d \in Connections : throw'[d] <= 1 /\ (throw[d] <= 0 => throw'[d] <= 0)
    BY <2>1, Zeroed
  <2>3. \A d \in Connections : d # c => armed'[d] = armed[d] /\ open'[d] = open[d]
    BY <2>1 DEF LeftInv
  <2>4. LeftToEpoll'
    BY <1>1, <2>1, <2>2, <2>3 DEF LeftInv, LeftToEpoll
  <2>5. armed' \in [Connections -> BOOLEAN] /\ open' \in [Connections -> BOOLEAN]
    BY <2>1, Zenon DEF LeftInv
  <2>6. pc'[Sender] \in Owning => throw'[at'[Sender].conn] <= 0
    <3>1. pc[Sender] \in Owning => at[Sender].conn \in Connections
      BY DEF LeftInv, Sending, Owning
    <3> QED BY <1>1, <2>2, <3>1 DEF LeftInv
  <2>7. pc'[Sender] \in Sending => at'[Sender] \in Msg
    BY <1>1 DEF LeftInv
  <2> QED BY <2>2, <2>4, <2>5, <2>6, <2>7 DEF LeftInv
<1>3. CASE HangUp
  <2>1. /\ throw' = [throw EXCEPT ![event.conn] = @ - 1] /\ pc[Epoll] = "write"
        /\ UNCHANGED <<armed, open>>
    BY <1>3 DEF HangUp, Move, connVars
  <2>2. throw' \in [Connections -> Int] /\ \A c \in Connections : throw'[c] <= throw[c]
    BY <2>1, Lowered
  <2> QED BY <1>1, <2>1, <2>2, LeftKept
<1>4. CASE Disarm
  <2>1. /\ armed' = [armed EXCEPT ![event.conn] = FALSE] /\ pc'[Epoll] = "settle"
        /\ UNCHANGED <<throw, open, event>>
    BY <1>4 DEF Disarm, Move, connVars
  <2>2. LeftToEpoll'
    BY <1>1, <2>1 DEF LeftInv, LeftToEpoll
  <2>3. armed' \in [Connections -> BOOLEAN]
    BY <2>1, Zenon DEF LeftInv
  <2> QED BY <1>1, <2>1, <2>2, <2>3 DEF LeftInv
<1>5. CASE Settle
  <2>1. /\ throw' = [throw EXCEPT ![event.conn] = @ - 1] /\ pc[Epoll] = "settle"
        /\ UNCHANGED <<armed, open>>
    BY <1>5 DEF Settle, Move, connVars
  <2>2. /\ throw' \in [Connections -> Int]
        /\ \A c \in Connections : throw'[c] = (IF c = event.conn THEN throw[c] - 1 ELSE throw[c])
        /\ \A c \in Connections : throw'[c] <= throw[c] /\ throw'[c] <= 1
        /\ event.conn \in Connections => throw'[event.conn] <= 0
    BY <2>1, Lowered
  <2>3. \A c \in Connections : c = event.conn => throw'[c] <= 0
    BY <2>2
  <2>4. LeftToEpoll'
    BY <1>1, <2>1, <2>2, <2>3 DEF LeftInv, LeftToEpoll
  <2>5. pc'[Sender] \in Owning => throw'[at'[Sender].conn] <= 0
    <3>1. pc[Sender] \in Owning => at[Sender].conn \in Connections
      BY DEF LeftInv, Sending, Owning
    <3> QED BY <1>1, <2>2, <2>3, <3>1 DEF LeftInv
  <2> QED BY <1>1, <2>1, <2>2, <2>4, <2>5 DEF LeftInv
<1>6. CASE \/ \E c \in Connections : EpollEvent(c) \/ KickOverdue(c)
           \/ ReadPart \/ ReadPacket \/ ReadFlood \/ ReadClosed
           \/ NoWrite \/ WriteSome \/ WriteRest \/ WriteFailed
  <2>1. UNCHANGED <<throw, armed, open>> /\ pc[Epoll] # "settle"
    BY <1>6 DEF EpollEvent, KickOverdue, ReadPart, ReadPacket, ReadFlood, ReadClosed, NoWrite,
                WriteSome, WriteRest, WriteFailed, Move, connVars, sendVars
  <2> QED BY <1>1, <2>1, LeftKept DEF LeftInv
<1> QED BY <1>2, <1>3, <1>4, <1>5, <1>6 DEF EpollStep

LEMMA LeftClose ==
  ASSUME SInv, LeftInv, NEW t \in Workers \cup {Epoll}, CloseStep(t)
  PROVE  LeftInv'
<1> USE Names DEF SInv, ControlType
<1>1. /\ UNCHANGED at \/ \E m : at' = [at EXCEPT ![t] = m]
      /\ \E to : pc' = [pc EXCEPT ![t] = to]
      /\ pc[t] # "settle"
  BY DEF CloseStep, Close, Test, Decrement, Park, Move, Return
<1>2. pc'[Sender] = pc[Sender] /\ at'[Sender] = at[Sender]
  BY <1>1
<1>3. pc[Epoll] = "settle" => pc'[Epoll] = "settle" /\ event'.conn = event.conn
  <2>1. t # Epoll => UNCHANGED event
    BY DEF CloseStep, Close, Test, Decrement, Park
  <2> QED BY <1>1, <2>1
<1>4. CASE Close(t)
  <2> DEFINE d == Conn(t)
  <2>1. /\ open' = [open EXCEPT ![d] = FALSE] /\ armed' = [armed EXCEPT ![d] = FALSE]
        /\ UNCHANGED throw
    BY <1>4 DEF Close
  <2> HIDE DEF d
  <2>2. \A c \in Connections : open'[c] => open[c] /\ armed'[c] = armed[c]
    BY <2>1 DEF LeftInv
  <2>3. LeftToEpoll'
    BY <1>2, <1>3, <2>1, <2>2 DEF LeftInv, LeftToEpoll
  <2>4. armed' \in [Connections -> BOOLEAN] /\ open' \in [Connections -> BOOLEAN]
    BY <2>1, Zenon DEF LeftInv
  <2> QED BY <1>2, <2>1, <2>3, <2>4 DEF LeftInv
<1>5. CASE Decrement(t)
  <2> DEFINE d == Conn(t)
  <2>1. throw' = [throw EXCEPT ![d] = @ - 1] /\ UNCHANGED <<armed, open>>
    BY <1>5 DEF Decrement, connVars
  <2> HIDE DEF d
  <2>2. throw' \in [Connections -> Int] /\ \A c \in Connections : throw'[c] <= throw[c]
    BY <2>1, Lowered
  <2> QED BY <1>2, <1>3, <2>1, <2>2, LeftKept
<1>6. CASE Test(t) \/ Park(t)
  <2>1. UNCHANGED <<throw, armed, open>>
    BY <1>6 DEF Test, Park, connVars, sendVars
  <2> QED BY <1>2, <1>3, <2>1, LeftKept DEF LeftInv
<1> QED BY <1>4, <1>5, <1>6 DEF CloseStep

LEMMA LeftSender ==
  ASSUME SInv, LeftInv, SenderStep
  PROVE  LeftInv'
<1> USE Names DEF SInv, ControlType
<1>0. UNCHANGED <<event, open>> /\ (UNCHANGED pc \/ \E to : pc' = [pc EXCEPT ![Sender] = to])
  BY DEF SenderStep, Wake, EndOfWalk, Expired, Current, Skip, Take, SendDone, SendPart,
         Reset, Raise, Arm, Move, threadVars, connVars
<1>1. pc'[Epoll] = pc[Epoll]
  BY <1>0
<1> DEFINE d == at[Sender].conn
<1>2. pc[Sender] \in Sending => Conn(Sender) = d /\ d \in Connections
  BY DEF LeftInv, Sending, Conn
<1>3. CASE Reset
  <2>1. /\ throw' = [throw EXCEPT ![d] = 0] /\ UNCHANGED armed
        /\ pc[Sender] = "reset" /\ pc'[Sender] = "walk" /\ d \in Connections
    BY <1>2, <1>3 DEF Reset, Move, Sending
  <2> HIDE DEF d
  <2>2. /\ throw' \in [Connections -> Int]
        /\ \A c \in Connections : throw'[c] = (IF c = d THEN 0 ELSE throw[c])
        /\ \A c \in Connections : throw'[c] <= 1
    BY <2>1, Zeroed
  <2>3. LeftToEpoll'
    BY <1>0, <1>1, <2>1, <2>2 DEF LeftInv, LeftToEpoll
  <2> QED BY <1>0, <2>1, <2>2, <2>3 DEF LeftInv, Sending, Owning
<1>4. CASE Raise
  <2>1. /\ throw' = [throw EXCEPT ![d] = @ + 1] /\ UNCHANGED <<armed, at>>
        /\ pc[Sender] = "raise" /\ pc'[Sender] = "arm" /\ d \in Connections
    BY <1>2, <1>4 DEF Raise, Move, Sending
  <2>2. throw[d] <= 0 /\ at[Sender] \in Msg
    BY <2>1 DEF LeftInv, Owning, Sending
  <2>3. /\ throw' \in [Connections -> Int]
        /\ \A c \in Connections : throw'[c] = (IF c = d THEN throw[c] + 1 ELSE throw[c])
    BY <2>1 DEF LeftInv
  <2>4. \A c \in Connections : throw'[c] <= 1
    BY <2>2, <2>3 DEF LeftInv
  <2>5. LeftToEpoll'
    BY <1>0, <1>1, <2>1, <2>3 DEF LeftInv, LeftToEpoll
  <2> HIDE DEF d
  <2> QED BY <1>0, <2>1, <2>2, <2>3, <2>4, <2>5 DEF LeftInv, Sending, Owning
<1>5. CASE Arm
  <2>1. /\ armed' = [armed EXCEPT ![d] = open[d]] /\ UNCHANGED throw
        /\ pc'[Sender] = "walk" /\ d \in Connections
    BY <1>2, <1>5 DEF Arm, Move, Sending
  <2>2. LeftToEpoll'
    BY <1>0, <1>1, <2>1 DEF LeftInv, LeftToEpoll
  <2> HIDE DEF d
  <2>3. armed' \in [Connections -> BOOLEAN]
    BY <2>1, Zenon DEF LeftInv
  <2> QED BY <1>0, <2>1, <2>2, <2>3 DEF LeftInv, Sending, Owning
<1>6. CASE Take
  <2>1. /\ UNCHANGED <<throw, armed, at>> /\ throw[d] <= 0
        /\ pc[Sender] = "throw" /\ pc'[Sender] = "send"
    BY <1>2, <1>6 DEF Take, Move, Sending
  <2>2. LeftToEpoll'
    BY <1>0, <1>1, <2>1 DEF LeftInv, LeftToEpoll
  <2>3. at[Sender] \in Msg
    BY <2>1 DEF LeftInv, Sending
  <2> QED BY <1>0, <2>1, <2>2, <2>3 DEF LeftInv
<1>7. CASE Current
  <2>1. /\ UNCHANGED <<throw, armed>> /\ pc[Sender] = "walk" /\ pc'[Sender] = "throw"
        /\ at'[Sender] = queue[pos] /\ pos \in 1 .. Len(queue)
    BY <1>7 DEF Current, Move, sendVars
  <2>2. at'[Sender] \in Msg
    BY <2>1
  <2>3. LeftToEpoll'
    BY <1>0, <1>1, <2>1 DEF LeftInv, LeftToEpoll
  <2> QED BY <1>0, <2>1, <2>2, <2>3 DEF LeftInv, Owning
<1>8. CASE Wake \/ EndOfWalk \/ Expired \/ Skip \/ SendDone \/ SendPart
  <2>1. /\ UNCHANGED <<throw, armed>> /\ pc[Sender] # "arm"
        /\ pc'[Sender] \in Sending => pc[Sender] = "send" /\ UNCHANGED at
    BY <1>8 DEF Wake, EndOfWalk, Expired, Skip, SendDone, SendPart, Move, Sending, sendVars, threadVars
  <2>2. LeftToEpoll'
    BY <1>0, <1>1, <2>1 DEF LeftInv, LeftToEpoll
  <2> QED BY <1>0, <2>1, <2>2 DEF LeftInv, Sending, Owning
<1> QED BY <1>3, <1>4, <1>5, <1>6, <1>7, <1>8 DEF SenderStep

LEMMA LeftStep ==
  ASSUME SInv, LeftInv, [Next]_vars
  PROVE  LeftInv'
<1>1. CASE ClientStep \/ UNCHANGED vars
  <2>1. UNCHANGED <<throw, armed, open, pc, at, event>>
    BY <1>1 DEF ClientStep, Send, Leave, vars, connVars, sendVars, threadVars
  <2> QED BY <2>1, LeftKept DEF LeftInv
<1>2. CASE EpollStep
  BY <1>2, LeftEpoll
<1>3. ASSUME NEW t \in Workers \cup {Epoll}, CloseStep(t)
      PROVE  LeftInv'
  BY <1>3, LeftClose
<1>4. ASSUME NEW w \in Workers, WorkerStep(w)
      PROVE  LeftInv'
  <2>1. UNCHANGED <<throw, armed, open, event>>
    BY <1>4 DEF WorkerStep, HandleMessage, NoReply, Lock, CheckSize, CheckCount, Count, Push,
                connVars, sendVars
  <2>2. /\ UNCHANGED pc \/ \E to : pc' = [pc EXCEPT ![w] = to]
        /\ UNCHANGED at \/ \E m : at' = [at EXCEPT ![w] = m]
    BY <1>4 DEF WorkerStep, HandleMessage, NoReply, Lock, CheckSize, CheckCount, Count, Push,
                Move, Return
  <2>3. /\ pc'[Sender] = pc[Sender] /\ pc'[Epoll] = pc[Epoll]
        /\ at'[Sender] = at[Sender]
    BY <2>2, Names DEF SInv, ControlType
  <2> QED BY <2>1, <2>3, LeftKept DEF LeftInv
<1>5. CASE SenderStep
  BY <1>5, LeftSender
<1>6. ASSUME NEW c \in Connections, Recycle(c)
      PROVE  LeftInv'
  <2>1. /\ throw' = [throw EXCEPT ![c] = 0] /\ UNCHANGED <<armed, open, pc, at, event>>
    BY <1>6 DEF Recycle, threadVars
  <2>2. \A e \in Connections : throw'[e] = (IF e = c THEN 0 ELSE throw[e])
    BY <2>1 DEF LeftInv
  <2>3. LeftToEpoll'
    BY <2>1, <2>2 DEF LeftInv, LeftToEpoll
  <2>4. throw' \in [Connections -> Int] /\ \A e \in Connections : throw'[e] <= 1
    BY <2>1, <2>2 DEF LeftInv
  <2>5. pc'[Sender] \in Owning => throw'[at'[Sender].conn] <= 0
    <3>1. pc[Sender] \in Owning => at[Sender].conn \in Connections
      BY Names DEF LeftInv, Sending, Owning
    <3> QED BY <2>1, <2>2, <3>1 DEF LeftInv
  <2> QED BY <2>1, <2>3, <2>4, <2>5 DEF LeftInv
<1> QED BY <1>1, <1>2, <1>3, <1>4, <1>5, <1>6 DEF Next

LEMMA LeftInit ==
  ASSUME Init
  PROVE  LeftInv
<1>1. /\ \A c \in Connections : throw[c] = 0
      /\ throw \in [Connections -> Int] /\ armed \in [Connections -> BOOLEAN]
      /\ open \in [Connections -> BOOLEAN] /\ pc[Sender] = "wait"
  BY Names DEF Init
<1> QED BY <1>1 DEF LeftInv, LeftToEpoll, Sending, Owning

\* The rest of a message is never forgotten between the two threads that write:
\* while throw_send_count keeps SendQueueThread away from an open descriptor,
\* EPOLLOUT is registered for it, or is being registered or given up.
THEOREM RestIsLeftToEpoll == Spec => []LeftToEpoll
<1>1. Init => SInv /\ LeftInv
  BY SInit, LeftInit
<1>2. SInv /\ LeftInv /\ [Next]_vars => SInv' /\ LeftInv'
  BY SStep, LeftStep
<1>3. LeftInv => LeftToEpoll
  BY DEF LeftInv
<1> QED BY <1>1, <1>2, <1>3, PTL DEF Spec

-----------------------------------------------------------------------------
(* The requests and replies on their way *)
\* A message carries a sequence number that its Connection has reached, and one
\* that still matches is a request of the Connection's present client.
Known ==
  {m \in Msg : /\ m.seq <= seq[m.conn]
               /\ m.seq = seq[m.conn] => place[m.conn] = "use" /\ m.n <= asked[m.conn]}

\* Every message on its way is known, and is in one place: the task queue, the
\* hands of a pool thread, or the send queue.
MessageInv ==
  /\ tasks \subseteq Known
  /\ \A i \in DOMAIN queue : queue[i] \in Known \ tasks
  /\ \A i, j \in DOMAIN queue : queue[i] = queue[j] => i = j
  /\ \A w \in Workers : at[w] # NoMsg =>
       /\ at[w] \in Known \ tasks
       /\ \A i \in DOMAIN queue : queue[i] # at[w]
       /\ \A v \in Workers : at[v] = at[w] => v = w

\* What a step may do to a Connection's client: end it, or let it ask more.
Later ==
  \A c \in Connections :
    /\ seq'[c] \in {seq[c], seq[c] + 1}
    /\ seq'[c] = seq[c] =>
         (place[c] = "use" => place'[c] = "use") /\ asked'[c] >= asked[c]

LEMMA KnownLater ==
  ASSUME SInv, SInv', Later
  PROVE  Known \subseteq Known'
<1> SUFFICES ASSUME NEW m \in Known PROVE m \in Known'
  OBVIOUS
<1> DEFINE c == m.conn
<1>1. /\ m \in Msg /\ c \in Connections /\ m.seq \in Nat /\ m.n \in Int
      /\ seq[c] \in Nat /\ asked[c] \in Nat /\ asked'[c] \in Nat
  BY Names DEF Msg, SInv, RequestType, Known
<1>2. /\ seq'[c] \in {seq[c], seq[c] + 1}
      /\ seq'[c] = seq[c] =>
           (place[c] = "use" => place'[c] = "use") /\ asked'[c] >= asked[c]
  BY <1>1 DEF Later
<1>3. /\ m.seq <= seq[c]
      /\ m.seq = seq[c] => place[c] = "use" /\ m.n <= asked[c]
  BY DEF Known
<1>4. CASE seq'[c] = seq[c] + 1
  BY <1>1, <1>3, <1>4 DEF Known
<1>5. CASE seq'[c] = seq[c]
  BY <1>1, <1>2, <1>3, <1>5 DEF Known
<1> QED
  BY <1>2, <1>4, <1>5

\* What SInv says of messages.
LEMMA MessageTypes ==
  ASSUME SInv
  PROVE  /\ tasks \subseteq Msg /\ queue \in Seq(Msg) /\ NoMsg \notin Msg
         /\ DOMAIN queue = 1 .. Len(queue) /\ Len(queue) \in Nat /\ pos \in Nat
         /\ at \in [Threads -> Msg \cup {NoMsg}] /\ Workers \subseteq Threads
BY Names, LenProperties DEF SInv, ControlType, RequestType

\* The messages are where they were, but for some that are gone.
LEMMA MessagesKept ==
  ASSUME SInv, SInv', MessageInv, Later,
         tasks' \subseteq tasks, queue' = queue,
         \A w \in Workers : at'[w] \in {at[w], NoMsg}
  PROVE  MessageInv'
<1>1. Known \subseteq Known'
  BY KnownLater
<1> QED
  BY <1>1 DEF MessageInv

\* A step that takes no message and changes no client.
LEMMA MessagesStay ==
  ASSUME SInv, SInv', MessageInv,
         UNCHANGED <<tasks, queue, place, seq, asked>>,
         \A w \in Workers : at'[w] \in {at[w], NoMsg}
  PROVE  MessageInv'
<1>1. Later
  BY DEF Later, SInv, RequestType
<1> QED
  BY <1>1, MessagesKept

LEMMA MessageRead ==
  ASSUME SInv, SInv', MessageInv, ReadPacket, place[event.conn] = "use"
  PROVE  MessageInv'
<1> DEFINE c == event.conn
           new == [conn |-> c, seq |-> seq[c], n |-> asked[c] + 1]
<1>1. /\ c \in Connections /\ seq[c] \in Nat /\ asked \in [Connections -> Nat]
      /\ asked' = [asked EXCEPT ![c] = @ + 1]
      /\ tasks' = tasks \cup {new} /\ UNCHANGED <<seq, place, queue, at>>
      /\ tasks' \subseteq Msg
  BY DEF ReadPacket, Move, SInv, RequestType
<1>2. Later
  BY <1>1 DEF Later, SInv, RequestType
<1>3. Known \subseteq Known'
  BY <1>2, KnownLater
<1>4. new \notin Known
  BY <1>1 DEF Known
<1>5. new \in Known'
  BY <1>1 DEF Known
<1> HIDE DEF new
<1> QED
  BY <1>1, <1>3, <1>4, <1>5 DEF MessageInv

\* A message goes from the task queue into the hands of a pool thread.
LEMMA MessageHandled ==
  ASSUME SInv, SInv', MessageInv, NEW w \in Workers, NEW m \in tasks, HandleMessage(w, m)
  PROVE  MessageInv'
<1>1. tasks' = tasks \ {m} /\ UNCHANGED <<queue, place, seq, asked>>
  BY DEF HandleMessage, connVars
<1>2. Later
  BY <1>1 DEF Later, SInv, RequestType
<1>3. Known \subseteq Known'
  BY <1>2, KnownLater
<1>4. CASE UNCHANGED at
  BY <1>1, <1>2, <1>4, MessagesKept
<1>5. CASE at' = [at EXCEPT ![w] = m]
  <2>1. at'[w] = m /\ \A v \in Workers : v # w => at'[v] = at[v]
    BY <1>5, MessageTypes
  <2>2. m \in Known' /\ (\A i \in DOMAIN queue : queue[i] # m) /\ \A v \in Workers : at[v] # m
    BY <1>3, MessageTypes DEF MessageInv
  <2> QED
    BY <1>1, <1>3, <2>1, <2>2 DEF MessageInv
<1> QED
  BY <1>4, <1>5 DEF HandleMessage

\* It goes on into the send queue.
LEMMA MessagePushed ==
  ASSUME SInv, SInv', MessageInv, NEW w \in Workers, Push(w)
  PROVE  MessageInv'
<1>1. /\ UNCHANGED <<tasks, place, seq, asked>> /\ pc[w] = "push"
      /\ queue' = Append(queue, at[w]) /\ at' = [at EXCEPT ![w] = NoMsg]
  BY DEF Push, Move, Return, connVars
<1>2. at[w] \in Msg /\ at[w] # NoMsg
  BY <1>1, MessageTypes DEF SInv, Locked
<1>3. Known \subseteq Known'
  BY <1>1, KnownLater DEF Later, SInv, RequestType
<1>4. /\ DOMAIN queue' = 1 .. Len(queue) + 1
      /\ DOMAIN queue = 1 .. Len(queue) /\ Len(queue) \in Nat
      /\ \A i \in DOMAIN queue : queue'[i] = queue[i]
      /\ queue'[Len(queue) + 1] = at[w]
  BY <1>1, <1>2, MessageTypes, AppendProperties, LenProperties
<1>5. \A i \in DOMAIN queue' : i \in DOMAIN queue \/ i = Len(queue) + 1
  BY <1>4
<1>6. at'[w] = NoMsg /\ \A v \in Workers : v # w => at'[v] = at[v]
  BY <1>1, MessageTypes
<1>7. \A i \in DOMAIN queue' : queue'[i] \in Known' \ tasks'
  BY <1>1, <1>2, <1>3, <1>4, <1>5 DEF MessageInv
<1>8. \A i, j \in DOMAIN queue' : queue'[i] = queue'[j] => i = j
  BY <1>2, <1>4, <1>5 DEF MessageInv
<1>9. ASSUME NEW v \in Workers, at'[v] # NoMsg
      PROVE  /\ at'[v] \in Known' \ tasks'
             /\ \A i \in DOMAIN queue' : queue'[i] # at'[v]
             /\ \A u \in Workers : at'[u] = at'[v] => u = v
  <2>1. v # w /\ at'[v] = at[v] /\ at[v] # at[w]
    BY <1>2, <1>6, <1>9 DEF MessageInv
  <2> QED BY <1>1, <1>3, <1>4, <1>5, <1>6, <1>9, <2>1 DEF MessageInv
<1> QED
  BY <1>1, <1>3, <1>7, <1>8, <1>9 DEF MessageInv

\* A message leaves the send queue.
LEMMA MessageTaken ==
  ASSUME SInv, SInv', MessageInv, pos \in DOMAIN queue, queue' = RemoveAt(queue, pos),
         UNCHANGED <<tasks, place, seq, asked>>, \A w \in Workers : at'[w] = at[w]
  PROVE  /\ MessageInv'
         /\ \A i \in DOMAIN queue' : queue'[i] # queue[pos]
         /\ \A i \in DOMAIN queue' : \E j \in DOMAIN queue : queue'[i] = queue[j]
<1> DEFINE f(i) == IF i < pos THEN i ELSE i + 1
<1>0. pos \in 1 .. Len(queue) /\ queue \in Seq(Msg)
  BY MessageTypes
<1>1. /\ queue' \in Seq(Msg) /\ Len(queue') = Len(queue) - 1
      /\ \A i \in 1 .. Len(queue') : queue'[i] = IF i < pos THEN queue[i] ELSE queue[i + 1]
  BY <1>0, Removed
<1>2. /\ DOMAIN queue' = 1 .. Len(queue) - 1 /\ DOMAIN queue = 1 .. Len(queue)
      /\ Len(queue) \in Nat /\ pos \in Nat
  BY <1>1, MessageTypes, LenProperties
<1>3. \A i \in DOMAIN queue' : queue'[i] = queue[f(i)] /\ f(i) \in DOMAIN queue /\ f(i) # pos
  BY <1>1, <1>2
<1>4. \A i, j \in DOMAIN queue' : f(i) = f(j) => i = j
  BY <1>2
<1> HIDE DEF f
<1>5. Known \subseteq Known'
  BY KnownLater DEF Later, SInv, RequestType
<1> QED
  BY <1>3, <1>4, <1>5 DEF MessageInv

-----------------------------------------------------------------------------
(* The life of a Connection *)

\* Inside zd_close_socket_proc, after the close.
Shut == {"test", "decrement", "park"}

\* Only a Connection in use is open, none that a thread works on is free, and
\* none is open that a thread has closed and is about to park.
LifeInv ==
  /\ place \in [Connections -> {"free", "use", "parked"}]
  /\ open \in [Connections -> BOOLEAN]
  /\ \A c \in Connections : open[c] => place[c] = "use"
  /\ \A t \in Threads, c \in Connections : Conn(t) = c =>
       /\ place[c] # "free"
       /\ pc[t] \in Shut => ~open[c]

\* A step after which every thread works on nothing, or on what it worked on
\* before, or on a Connection in use that it is not closing.
LEMMA LifeKept ==
  ASSUME LifeInv, UNCHANGED <<place, open>>,
         \A t \in Threads, c \in Connections : Conn(t)' = c =>
           \/ Conn(t) = c /\ (pc'[t] \in Shut => pc[t] \in Shut)
           \/ place[c] = "use" /\ pc'[t] \notin Shut
  PROVE  LifeInv'
BY DEF LifeInv

\* A step of one thread t, after which the others are where they were.
LEMMA OthersStay ==
  ASSUME SInv, NEW t \in Threads,
         UNCHANGED pc \/ \E to : pc' = [pc EXCEPT ![t] = to],
         t # Epoll => UNCHANGED event,
         UNCHANGED at \/ \E m : t # Epoll /\ at' = [at EXCEPT ![t] = m]
  PROVE  \A u \in Threads : u # t => pc'[u] = pc[u] /\ Conn(u)' = Conn(u)
BY Names DEF SInv, ControlType, Conn

LEMMA LifeEpoll ==
  ASSUME SInv, LifeInv, EpollStep
  PROVE  LifeInv'
<1>1. UNCHANGED at /\ (UNCHANGED pc \/ \E to : pc' = [pc EXCEPT ![Epoll] = to])
  BY DEF EpollStep, EventAccept, EpollEvent, KickOverdue, ReadPart, ReadPacket, ReadFlood,
         ReadClosed, NoWrite, HangUp, WriteSome, WriteRest, WriteFailed, Disarm, Settle, Move, threadVars
<1>2. \A u \in Threads : u # Epoll => pc'[u] = pc[u] /\ Conn(u)' = Conn(u)
  BY <1>1, Names, OthersStay
<1>3. Conn(Epoll) = event.conn /\ Conn(Epoll)' = event'.conn
  BY DEF Conn
<1>4. ASSUME NEW c \in Connections, EventAccept(c)
      PROVE  LifeInv'
  <2>1. /\ place[c] = "free" /\ place' = [place EXCEPT ![c] = "use"]
        /\ open' = [open EXCEPT ![c] = TRUE] /\ UNCHANGED <<pc, event>>
    BY <1>4 DEF EventAccept, threadVars
  <2>2. \A t \in Threads : Conn(t) # c /\ Conn(t)' = Conn(t)
    BY <1>1, <2>1 DEF LifeInv, Conn
  <2>3. /\ \A d \in Connections : d # c => place'[d] = place[d] /\ open'[d] = open[d]
        /\ place'[c] = "use" /\ place' \in [Connections -> {"free", "use", "parked"}]
    BY <2>1 DEF LifeInv
  <2>4. open' \in [Connections -> BOOLEAN]
    BY <2>1, Zenon DEF LifeInv
  <2> QED BY <2>1, <2>2, <2>3, <2>4 DEF LifeInv
<1>5. ASSUME NEW c \in Connections, EpollEvent(c) \/ KickOverdue(c)
      PROVE  LifeInv'
  <2>1. /\ event'.conn = c /\ place[c] = "use" /\ UNCHANGED <<place, open>>
        /\ pc'[Epoll] \in {"read", "write", "close"}
    BY <1>5, Names DEF EpollEvent, KickOverdue, NoEvent, Move, connVars, LifeInv, SInv, ControlType
  <2> QED BY <1>2, <1>3, <2>1, LifeKept DEF Shut
<1>6. CASE \/ ReadPart \/ ReadPacket \/ ReadFlood \/ ReadClosed \/ NoWrite \/ HangUp
           \/ WriteSome \/ WriteRest \/ WriteFailed \/ Disarm \/ Settle
  <2>1. /\ UNCHANGED <<place, open>> /\ event'.conn \in {event.conn, Nobody}
        /\ pc'[Epoll] \in EpollPlaces \cup {"close"}
    BY <1>6, Names DEF ReadPart, ReadPacket, ReadFlood, ReadClosed, NoWrite, HangUp, WriteSome,
       WriteRest, WriteFailed, Disarm, Settle, NoEvent, Move, connVars, SInv, ControlType,
       RequestType, Event
  <2>2. pc'[Epoll] \notin Shut
    BY <2>1 DEF EpollPlaces, Shut
  <2> QED BY <1>2, <1>3, <2>1, <2>2, LifeKept, Names
<1> QED BY <1>4, <1>5, <1>6 DEF EpollStep

LEMMA LifeClose ==
  ASSUME SInv, LifeInv, NEW t \in Workers \cup {Epoll}, CloseStep(t)
  PROVE  LifeInv'
<1> USE Names
<1>1. /\ UNCHANGED at \/ \E m : t # Epoll /\ at' = [at EXCEPT ![t] = m]
      /\ \E to : pc' = [pc EXCEPT ![t] = to]
      /\ t # Epoll => UNCHANGED event
  BY DEF CloseStep, Close, Test, Decrement, Park, Move, Return
<1>2. \A u \in Threads : u # t => pc'[u] = pc[u] /\ Conn(u)' = Conn(u)
  BY <1>1, OthersStay
<1>3. CASE Close(t)
  <2> DEFINE c == Conn(t)
  <2>1. /\ open' = [open EXCEPT ![c] = FALSE] /\ UNCHANGED <<place, at, event>>
    BY <1>3 DEF Close
  <2>2. Conn(t)' = c /\ Conn(t) = c
    BY <2>1 DEF Conn
  <2> HIDE DEF c
  <2>3. \A d \in Connections : (open'[d] => open[d]) /\ (d = c => ~open'[d])
    BY <2>1 DEF LifeInv
  <2>4. open' \in [Connections -> BOOLEAN]
    BY <2>1, Zenon DEF LifeInv
  <2> QED BY <1>2, <2>1, <2>2, <2>3, <2>4 DEF LifeInv
<1>4. CASE Test(t) \/ Decrement(t)
  <2>1. UNCHANGED <<place, open, at, event>> /\ pc[t] \in Shut
    BY <1>4 DEF Test, Decrement, Move, Shut, connVars
  <2>2. Conn(t)' = Conn(t)
    BY <2>1 DEF Conn
  <2> QED BY <1>2, <2>1, <2>2, LifeKept
<1>5. CASE Park(t)
  <2> DEFINE c == Conn(t)
  <2>1. /\ pc[t] = "park" /\ pc'[t] \in {"idle", "close", "write"} /\ UNCHANGED open
        /\ \/ place[c] = "use" /\ place' = [place EXCEPT ![c] = "parked"]
           \/ UNCHANGED place
    BY <1>5 DEF Park, Move, SInv, ControlType
  <2>2. Conn(t)' \in {c, Nobody}
    BY <1>5 DEF Park, Return, Conn, SInv, ControlType, RequestType, Event
  <2>3. \A d \in Connections : d = c => ~open[d]
    BY <2>1 DEF LifeInv, Shut
  <2> HIDE DEF c
  <2>4. /\ place' \in [Connections -> {"free", "use", "parked"}]
        /\ \A d \in Connections : (place'[d] = "free" => place[d] = "free") /\ (d # c => place'[d] = place[d])
    BY <2>1 DEF LifeInv
  <2>5. pc'[t] \notin Shut
    BY <2>1 DEF Shut
  <2>6. \A d \in Connections : Conn(t)' = d => d = c
    BY <2>2
  <2> QED BY <1>2, <2>1, <2>3, <2>4, <2>5, <2>6 DEF LifeInv, c
<1> QED BY <1>3, <1>4, <1>5 DEF CloseStep

LEMMA LifeWorker ==
  ASSUME SInv, LifeInv, MessageInv, NEW w \in Workers, WorkerStep(w)
  PROVE  LifeInv'
<1> USE Names
<1>1. /\ UNCHANGED <<place, open, event>>
      /\ UNCHANGED at \/ \E m : at' = [at EXCEPT ![w] = m]
      /\ UNCHANGED pc \/ \E to : pc' = [pc EXCEPT ![w] = to]
  BY DEF WorkerStep, HandleMessage, NoReply, Lock, CheckSize, CheckCount, Count, Push, Move, Return, connVars
<1>2. \A u \in Threads : u # w => pc'[u] = pc[u] /\ Conn(u)' = Conn(u)
  BY <1>1, OthersStay
<1>3. pc'[w] = pc[w] \/ pc'[w] \in {"idle", "lock", "size", "limit", "count", "push", "close"}
  BY DEF WorkerStep, HandleMessage, NoReply, Lock, CheckSize, CheckCount, Count, Push, Move, SInv, ControlType
<1>4. ASSUME NEW m \in tasks, HandleMessage(w, m)
      PROVE  LifeInv'
  <2>1. UNCHANGED <<pc, at>> \/ (seq[m.conn] = m.seq /\ at' = [at EXCEPT ![w] = m] /\ pc'[w] = "lock")
    BY <1>4 DEF HandleMessage, Move, SInv, ControlType
  <2>2. CASE UNCHANGED <<pc, at>>
    BY <1>1, <1>2, <2>2, LifeKept DEF Conn
  <2>3. CASE seq[m.conn] = m.seq /\ at' = [at EXCEPT ![w] = m] /\ pc'[w] = "lock"
    <3>1. place[m.conn] = "use" /\ m \in Msg
      BY <2>3, MessageTypes DEF MessageInv, Known
    <3>2. at'[w] = m
      BY <2>3 DEF SInv, ControlType
    <3>3. Conn(w)' = m.conn
      BY <3>1, <3>2 DEF Conn
    <3> QED BY <1>1, <1>2, <2>3, <3>1, <3>3, LifeKept DEF Shut
  <2> QED BY <2>1, <2>2, <2>3
<1>5. CASE NoReply(w) \/ Lock(w) \/ CheckSize(w) \/ CheckCount(w) \/ Count(w) \/ Push(w)
  <2>1. at'[w] \in {at[w], NoMsg}
    BY <1>5 DEF NoReply, Lock, CheckSize, CheckCount, Count, Push, Return, SInv, ControlType
  <2>2. Conn(w)' \in {Conn(w), Nobody}
    BY <2>1 DEF Conn
  <2>3. pc'[w] \in Shut => pc[w] \in Shut
    BY <1>3 DEF Shut
  <2>4. \A t \in Threads, c \in Connections : Conn(t)' = c => Conn(t) = c /\ (pc'[t] \in Shut => pc[t] \in Shut)
    BY <1>2, <2>2, <2>3
  <2> QED BY <1>1, <2>4, LifeKept
<1> QED BY <1>4, <1>5 DEF WorkerStep

LEMMA LifeSender ==
  ASSUME SInv, LifeInv, MessageInv, SenderStep
  PROVE  LifeInv'
<1> USE Names
<1>1. /\ UNCHANGED <<place, open, event>>
      /\ UNCHANGED at \/ \E m : at' = [at EXCEPT ![Sender] = m]
      /\ UNCHANGED pc \/ \E to : pc' = [pc EXCEPT ![Sender] = to]
  BY DEF SenderStep, Wake, EndOfWalk, Expired, Current, Skip, Take, SendDone, SendPart, Reset,
         Raise, Arm, Move, connVars, threadVars
<1>2. \A u \in Threads : u # Sender => pc'[u] = pc[u] /\ Conn(u)' = Conn(u)
  BY <1>1, OthersStay
<1>3. pc'[Sender] \in {"wait", "walk", "throw", "send", "reset", "raise", "arm"}
  BY DEF SenderStep, Wake, EndOfWalk, Expired, Current, Skip, Take, SendDone, SendPart, Reset,
         Raise, Arm, Move, threadVars, SInv, ControlType
<1>4. pc'[Sender] \notin Shut
  BY <1>3 DEF Shut
<1>5. CASE Current
  <2>1. /\ pos \in DOMAIN queue /\ at'[Sender] = queue[pos] /\ seq[queue[pos].conn] = queue[pos].seq
    BY <1>5, MessageTypes DEF Current, SInv, ControlType
  <2>2. place[queue[pos].conn] = "use" /\ queue[pos] \in Msg
    BY <2>1 DEF MessageInv, Known
  <2>3. Conn(Sender)' = queue[pos].conn
    BY <2>1, <2>2 DEF Conn
  <2> QED BY <1>1, <1>2, <1>4, <2>2, <2>3, LifeKept
<1>6. CASE ~Current
  <2>1. at'[Sender] \in {at[Sender], NoMsg}
    BY <1>6 DEF SenderStep, Wake, EndOfWalk, Expired, Skip, Take, SendDone, SendPart, Reset,
         Raise, Arm, threadVars, SInv, ControlType
  <2>2. Conn(Sender)' \in {Conn(Sender), Nobody}
    BY <2>1 DEF Conn
  <2>3. \A t \in Threads, c \in Connections : Conn(t)' = c => Conn(t) = c /\ (pc'[t] \in Shut => pc[t] \in Shut)
    BY <1>2, <1>4, <2>2
  <2> QED BY <1>1, <2>3, LifeKept
<1> QED BY <1>5, <1>6

LEMMA LifeStep ==
  ASSUME SInv, LifeInv, MessageInv, [Next]_vars
  PROVE  LifeInv'
<1>1. CASE ClientStep \/ UNCHANGED vars
  <2>1. UNCHANGED <<place, open, pc, at, event>>
    BY <1>1 DEF ClientStep, Send, Leave, vars, connVars, threadVars
  <2> QED BY <2>1, LifeKept DEF Conn
<1>2. ASSUME NEW c \in Connections, Recycle(c)
      PROVE  LifeInv'
  <2>1. /\ place[c] = "parked" /\ place' = [place EXCEPT ![c] = "free"]
        /\ UNCHANGED <<open, pc, at, event>> /\ \A t \in Threads : Conn(t) # c
    BY <1>2 DEF Recycle, threadVars
  <2>2. /\ place' \in [Connections -> {"free", "use", "parked"}]
        /\ \A d \in Connections : d # c => place'[d] = place[d]
        /\ ~open[c]
    BY <2>1 DEF LifeInv
  <2>3. \A t \in Threads : Conn(t)' = Conn(t)
    BY <2>1 DEF Conn
  <2> QED BY <2>1, <2>2, <2>3 DEF LifeInv
<1> QED BY <1>1, <1>2, LifeEpoll, LifeClose, LifeWorker, LifeSender DEF Next

LEMMA MessageStep ==
  ASSUME SInv, SInv', LifeInv, MessageInv, AtCursor, [Next]_vars
  PROVE  MessageInv'
<1>1. CASE ClientStep \/ UNCHANGED vars
  <2>1. UNCHANGED <<tasks, queue, place, seq, asked, at>>
    BY <1>1 DEF ClientStep, Send, Leave, vars, connVars, queueVars, threadVars
  <2> QED BY <2>1, MessagesStay
<1>2. CASE EpollStep
  <2>1. ASSUME NEW c \in Connections, EventAccept(c)
        PROVE  MessageInv'
    <3>1. /\ seq' = [seq EXCEPT ![c] = @ + 1] /\ asked' = [asked EXCEPT ![c] = 0]
          /\ place' = [place EXCEPT ![c] = "use"] /\ UNCHANGED <<tasks, queue, at>>
      BY <2>1 DEF EventAccept, queueVars, threadVars
    <3>2. Later
      BY <3>1 DEF Later, SInv, RequestType, LifeInv
    <3> QED BY <3>1, <3>2, MessagesKept
  <2>2. CASE ReadPacket
    <3>1. open[event.conn] /\ event.conn \in Connections
      BY <2>2 DEF ReadPacket, Move, SInv, RequestType
    <3> QED BY <2>2, <3>1, MessageRead DEF LifeInv
  <2>3. CASE \/ \E c \in Connections : EpollEvent(c) \/ KickOverdue(c)
             \/ ReadPart \/ ReadFlood \/ ReadClosed \/ NoWrite \/ HangUp
             \/ WriteSome \/ WriteRest \/ WriteFailed \/ Disarm \/ Settle
    <3>1. UNCHANGED <<tasks, queue, place, seq, asked, at>>
      BY <2>3 DEF EpollEvent, KickOverdue, ReadPart, ReadFlood, ReadClosed, NoWrite, HangUp,
         WriteSome, WriteRest, WriteFailed, Disarm, Settle, connVars, queueVars
    <3> QED BY <3>1, MessagesStay
  <2> QED BY <1>2, <2>1, <2>2, <2>3 DEF EpollStep
<1>3. ASSUME NEW t \in Workers \cup {Epoll}, CloseStep(t)
      PROVE  MessageInv'
  <2>1. UNCHANGED <<tasks, queue>>
    BY <1>3 DEF CloseStep, Close, Test, Decrement, Park, queueVars
  <2>2. \A w \in Workers : at'[w] \in {at[w], NoMsg}
    BY <1>3, MessageTypes DEF CloseStep, Close, Test, Decrement, Park, Return
  <2>3. Later
    <3> DEFINE c == Conn(t)
    <3>1. /\ UNCHANGED asked
          /\ \/ place[c] = "use" /\ place' = [place EXCEPT ![c] = "parked"]
                /\ seq' = [seq EXCEPT ![c] = @ + 1]
             \/ UNCHANGED <<place, seq>>
      BY <1>3 DEF CloseStep, Close, Test, Decrement, Park, connVars
    <3> HIDE DEF c
    <3> QED BY <3>1 DEF Later, SInv, RequestType, LifeInv
  <2> QED BY <2>1, <2>2, <2>3, MessagesKept
<1>4. ASSUME NEW w \in Workers, WorkerStep(w)
      PROVE  MessageInv'
  <2>1. CASE NoReply(w) \/ Lock(w) \/ CheckSize(w) \/ CheckCount(w) \/ Count(w)
    <3>1. UNCHANGED <<tasks, queue, place, seq, asked>>
      BY <2>1 DEF NoReply, Lock, CheckSize, CheckCount, Count, connVars, queueVars
    <3>2. \A v \in Workers : at'[v] \in {at[v], NoMsg}
      BY <2>1, MessageTypes DEF NoReply, Lock, CheckSize, CheckCount, Count, Return
    <3> QED BY <3>1, <3>2, MessagesStay
  <2> QED BY <1>4, <2>1, MessageHandled, MessagePushed DEF WorkerStep
<1>5. CASE SenderStep
  <2>1. /\ UNCHANGED <<tasks, place, seq, asked>> /\ \A w \in Workers : at'[w] = at[w]
    BY <1>5, Names, MessageTypes DEF SenderStep, Wake, EndOfWalk, Expired, Current, Skip, Take, SendDone, SendPart,
       Reset, Raise, Arm, connVars, queueVars, threadVars
  <2>2. CASE Expired \/ Take
    <3>1. pos \in DOMAIN queue /\ queue' = RemoveAt(queue, pos)
      BY <2>2, MessageTypes DEF Expired, Take, Move, SInv, Cursor, ControlType
    <3> QED BY <2>1, <3>1, MessageTaken
  <2>3. CASE ~(Expired \/ Take)
    <3>1. UNCHANGED queue
      BY <1>5, <2>3 DEF SenderStep, Wake, EndOfWalk, Current, Skip, SendDone, SendPart,
         Reset, Raise, Arm, queueVars
    <3> QED BY <2>1, <3>1, MessagesStay
  <2> QED BY <2>2, <2>3
<1>6. ASSUME NEW c \in Connections, Recycle(c)
      PROVE  MessageInv'
  <2>1. /\ seq' = [seq EXCEPT ![c] = @ + 1] /\ place' = [place EXCEPT ![c] = "free"]
        /\ UNCHANGED <<asked, tasks, queue, at>>
    BY <1>6 DEF Recycle, queueVars, threadVars
  <2>2. Later
    BY <2>1 DEF Later, SInv, RequestType, LifeInv
  <2> QED BY <2>1, <2>2, MessagesKept
<1> QED BY <1>1, <1>2, <1>3, <1>4, <1>5, <1>6 DEF Next

-----------------------------------------------------------------------------
(* Whose turn it is to write *)

\* A client that reads and writes.
Live(c) == open[c] /\ peer[c] = "open"

SenderAt(c, S) == pc[Sender] \in S /\ at[Sender].conn = c
EpollAt(c, S)  == pc[Epoll] \in S /\ event.conn = c

\* The epoll thread is on its way to writing to c, for EPOLLOUT.
Before == {"read", "write"} \cup ClosePlaces
Writing(c) == EpollAt(c, Before) /\ event.out /\ ~event.hup

\* For a live client throw_send_count is one between the raise and the settling,
\* and EPOLLOUT is registered between the arming and the disarming: a single
\* thread is between the two of either at a time.
Turn(c) ==
  /\ throw[c] \in {0, 1}
  /\ event.conn = c => ~event.hup
  /\ Writing(c) => armed[c]
  /\ armed[c] => throw[c] = 1 /\ ~SenderAt(c, {"arm"}) /\ ~EpollAt(c, {"settle"})
  /\ SenderAt(c, {"arm"}) => throw[c] = 1 /\ ~EpollAt(c, {"settle"})
  /\ EpollAt(c, {"disarm"}) => armed[c]
  /\ EpollAt(c, {"settle"}) => throw[c] = 1

\* What the epoll thread writes to is kept from the sending thread.
InTurn(c) ==
  /\ Writing(c) /\ open[c] => throw[c] > 0
  /\ Live(c) => Turn(c)

\* send_len is not zero where there is a rest to write.
Stocked ==
  /\ left \in [Connections -> Nat]
  /\ \A c \in Connections : armed[c] \/ SenderAt(c, {"send", "raise", "arm"}) => left[c] > 0

TurnInv ==
  /\ peer \in [Connections -> {"open", "gone"}]
  /\ Stocked
  /\ \A c \in Connections : InTurn(c)

\* The sending thread is at a message where it says so.
LEMMA SenderConn ==
  ASSUME SInv, LeftInv, pc[Sender] \in Sending
  PROVE  /\ at[Sender] \in Msg /\ at[Sender].conn \in Connections
         /\ Conn(Sender) = at[Sender].conn
BY Names DEF LeftInv, Conn

\* What send does to send_len: it is never zero afterwards if it was not before.
LEMMA StaysStocked ==
  ASSUME Stocked, NEW d \in Connections, NEW r \in Results(d), Transmit(d, r)
  PROVE  /\ left' \in [Connections -> Nat]
         /\ \A c \in Connections : left[c] > 0 => left'[c] > 0
         /\ r \in Partly(d) => left'[d] > 0 /\ open[d]
<1>1. left \in [Connections -> Nat] /\ left[d] \in Nat
  BY DEF Stocked
<1>2. r \in {-2, -1, 0} \cup 1 .. left[d]
  BY <1>1 DEF Results
<1>3. r \in Partly(d) => left[d] > 0 /\ open[d] /\ r < left[d]
  BY <1>1 DEF Partly, Results
<1>4. CASE r > 0
  <2>1. left' = [left EXCEPT ![d] = IF r = left[d] THEN left[d] ELSE left[d] - r]
    BY <1>4 DEF Transmit
  <2>2. left[d] - r \in Nat /\ (r # left[d] => left[d] - r > 0)
    BY <1>1, <1>2, <1>4
  <2> QED BY <1>1, <1>3, <2>1, <2>2
<1>5. CASE ~(r > 0)
  BY <1>1, <1>3, <1>5 DEF Transmit
<1> QED BY <1>4, <1>5

\* Nothing happens to c but that its client leaves.
LEMMA TurnSame ==
  ASSUME NEW c \in Connections, InTurn(c), UNCHANGED <<throw[c], armed[c]>>,
         open'[c] => open[c], peer'[c] = "open" => peer[c] = "open",
         UNCHANGED <<pc[Sender], at[Sender], pc[Epoll], event>>
  PROVE  InTurn(c)'
BY DEF InTurn, Live, Turn, Writing, EpollAt, SenderAt

LEMMA TurnAccept ==
  ASSUME SInv, LeftInv, LifeInv, TurnInv, NEW c \in Connections, EventAccept(c)
  PROVE  TurnInv'
<1> USE Names
<1>1. /\ place[c] = "free" /\ UNCHANGED <<pc, at, event, left>>
      /\ open' = [open EXCEPT ![c] = TRUE] /\ armed' = [armed EXCEPT ![c] = FALSE]
      /\ throw' = [throw EXCEPT ![c] = 0] /\ peer' = [peer EXCEPT ![c] = "open"]
  BY DEF EventAccept, threadVars
<1>2. /\ ~armed'[c] /\ throw'[c] = 0
      /\ \A d \in Connections : d # c => /\ open'[d] = open[d] /\ armed'[d] = armed[d]
                                        /\ throw'[d] = throw[d] /\ peer'[d] = peer[d]
  BY <1>1 DEF LeftInv, TurnInv
<1>3. event.conn # c
  BY <1>1 DEF LifeInv, Conn
<1>4. pc[Sender] \in Sending => at[Sender].conn # c
  BY <1>1, SenderConn DEF LifeInv
<1>5. InTurn(c)'
  BY <1>1, <1>2, <1>3, <1>4 DEF InTurn, Turn, Writing, EpollAt, SenderAt, Sending
<1>6. \A d \in Connections : d # c => InTurn(d)'
  BY <1>1, <1>2, TurnSame DEF TurnInv
<1>7. Stocked'
  BY <1>1, <1>2 DEF TurnInv, Stocked, SenderAt
<1> QED
  BY <1>1, <1>5, <1>6, <1>7 DEF TurnInv

\* A step of the epoll thread that changes no counter and no event set, to a
\* place where it is on its way to writing only if it was, or to none.
LEMMA TurnEpollMoves ==
  ASSUME TurnInv, UNCHANGED <<throw, armed, open, peer, left, pc[Sender], at[Sender]>>,
         \/ pc'[Epoll] = "idle" /\ event' = NoEvent
         \/ /\ UNCHANGED <<event.conn, event.out, event.hup>>
            /\ pc[Epoll] \in Before /\ pc'[Epoll] \in Before
  PROVE  TurnInv'
<1>1. Stocked'
  BY DEF TurnInv, Stocked, SenderAt
<1>2. ASSUME NEW c \in Connections PROVE InTurn(c)'
  <2>1. InTurn(c)
    BY DEF TurnInv
  <2>2. CASE pc'[Epoll] = "idle" /\ event' = NoEvent
    BY <2>1, <2>2 DEF InTurn, Live, Turn, Writing, EpollAt, SenderAt, Before, ClosePlaces, NoEvent
  <2> QED BY <2>1, <2>2 DEF InTurn, Live, Turn, Writing, EpollAt, SenderAt, Before, ClosePlaces
<1> QED
  BY <1>1, <1>2 DEF TurnInv

LEMMA TurnEpoll ==
  ASSUME SInv, LeftInv, LifeInv, TurnInv, EpollStep
  PROVE  TurnInv'
<1> USE Names
<1> DEFINE e == event.conn
<1>1. UNCHANGED at /\ (UNCHANGED pc \/ \E to : pc' = [pc EXCEPT ![Epoll] = to])
  BY DEF EpollStep, EventAccept, EpollEvent, KickOverdue, ReadPart, ReadPacket, ReadFlood,
         ReadClosed, NoWrite, HangUp, WriteSome, WriteRest, WriteFailed, Disarm, Settle, Move, threadVars
<1>2. UNCHANGED <<pc[Sender], at[Sender]>>
  BY <1>1 DEF SInv, ControlType
<1>3. ASSUME NEW c \in Connections, EpollEvent(c)
      PROVE  TurnInv'
  <2>1. /\ open[c] /\ pc[Epoll] = "idle" /\ pc'[Epoll] \in {"read", "write"}
        /\ UNCHANGED <<open, peer, armed, throw, left>>
    BY <1>3 DEF EpollEvent, Move, connVars, sendVars, SInv, ControlType
  <2>2. PICK out \in {FALSE, armed[c] \/ peer[c] = "gone"} :
             event' = [conn |-> c, out |-> out, hup |-> peer[c] # "open", again |-> FALSE]
    BY <1>3, Zenon DEF EpollEvent
  <2>3. event'.conn = c /\ event'.out = out /\ event'.hup = (peer[c] # "open")
    BY <2>2, Zenon
  <2>4. /\ event'.hup <=> peer[c] # "open"
        /\ event'.out => armed[c] \/ peer[c] = "gone"
    <3>1. event'.hup <=> peer[c] # "open"
      BY <2>3, Zenon
    <3>2. out => armed[c] \/ peer[c] = "gone"
      <4>1. out = FALSE \/ out = (armed[c] \/ peer[c] = "gone")
        BY Zenon
      <4> QED BY <4>1, Zenon
    <3> QED BY <2>3, <3>1, <3>2, Zenon
  <2>5. Stocked'
    BY <1>2, <2>1 DEF TurnInv, Stocked, SenderAt
  <2>6. InTurn(c)'
    <3>1. armed[c] /\ peer[c] = "open" => throw[c] > 0
      BY <2>1 DEF TurnInv, InTurn, Live, Turn
    <3>2. InTurn(c)
      BY DEF TurnInv
    <3>3. Writing(c)' => armed[c] /\ peer[c] = "open"
      BY <2>3, <2>4 DEF Writing
    <3> QED BY <1>2, <2>1, <2>3, <2>4, <3>1, <3>2, <3>3 DEF InTurn, Live, Turn, EpollAt, SenderAt
  <2>7. ASSUME NEW d \in Connections, d # c PROVE InTurn(d)'
    BY <1>2, <2>1, <2>3, <2>7 DEF TurnInv, InTurn, Live, Turn, Writing, EpollAt, SenderAt
  <2> QED BY <2>1, <2>5, <2>6, <2>7 DEF TurnInv
<1>4. ASSUME NEW c \in Connections, KickOverdue(c)
      PROVE  TurnInv'
  <2>1. /\ pc[Epoll] = "idle" /\ pc'[Epoll] = "close"
        /\ UNCHANGED <<open, peer, armed, throw, left>>
        /\ event'.conn = c /\ ~event'.hup /\ ~event'.out
    BY <1>4 DEF KickOverdue, NoEvent, Move, connVars, sendVars, SInv, ControlType
  <2>2. Stocked'
    BY <1>2, <2>1 DEF TurnInv, Stocked, SenderAt
  <2>3. ASSUME NEW d \in Connections PROVE InTurn(d)'
    BY <1>2, <2>1 DEF TurnInv, InTurn, Live, Turn, Writing, EpollAt, SenderAt
  <2> QED BY <2>1, <2>2, <2>3 DEF TurnInv
<1>5. CASE ReadPart \/ ReadPacket \/ ReadFlood \/ ReadClosed
  <2>1. /\ pc[Epoll] = "read" /\ pc'[Epoll] \in {"write", "close"}
        /\ UNCHANGED <<open, peer, armed, throw, left>>
        /\ UNCHANGED <<event.conn, event.out, event.hup>>
    BY <1>5 DEF ReadPart, ReadPacket, ReadFlood, ReadClosed, Move, connVars, sendVars, SInv,
       ControlType, RequestType, Event
  <2> QED BY <1>2, <2>1, TurnEpollMoves DEF Before, ClosePlaces
<1>6. CASE NoWrite
  <2>1. pc'[Epoll] = "idle" /\ event' = NoEvent /\ UNCHANGED <<open, peer, armed, throw, left>>
    BY <1>6 DEF NoWrite, Move, connVars, sendVars, SInv, ControlType
  <2> QED BY <1>2, <2>1, TurnEpollMoves
<1>7. CASE HangUp
  <2>1. /\ pc'[Epoll] = "idle" /\ event' = NoEvent /\ UNCHANGED <<open, peer, armed, left>>
        /\ throw' = [throw EXCEPT ![e] = @ - 1] /\ event.hup
    BY <1>7 DEF HangUp, Move, connVars, sendVars, SInv, ControlType
  <2>2. Stocked'
    BY <1>2, <2>1 DEF TurnInv, Stocked, SenderAt
  <2>3. ASSUME NEW d \in Connections PROVE InTurn(d)'
    <3>1. d # e => throw'[d] = throw[d]
      BY <2>1 DEF LeftInv
    <3>2. InTurn(d)
      BY DEF TurnInv
    <3>3. event'.conn # d
      BY <2>1 DEF NoEvent
    <3>4. Live(d) => d # e
      BY <2>1, <3>2 DEF InTurn, Turn
    <3> QED BY <1>2, <2>1, <3>1, <3>2, <3>3, <3>4 DEF InTurn, Live, Turn, Writing, EpollAt, SenderAt
  <2> QED BY <2>1, <2>2, <2>3 DEF TurnInv
<1>8. CASE WriteSome
  <2>1. /\ pc[Epoll] = "write" /\ pc'[Epoll] = "idle" /\ event' = NoEvent
        /\ UNCHANGED <<open, peer, armed, throw>>
        /\ \E r \in Partly(e) : Transmit(e, r)
    BY <1>8 DEF WriteSome, Move, connVars, SInv, ControlType
  <2>2. PICK r \in Partly(e) : Transmit(e, r)
    BY <2>1
  <2>3. Stocked' /\ \A d \in Connections : InTurn(d)'
    <3>1. CASE e \in Connections
      <4>1. Stocked'
        BY <1>2, <2>1, <2>2, <3>1, StaysStocked DEF TurnInv, Stocked, SenderAt, Partly
      <4>2. ASSUME NEW d \in Connections PROVE InTurn(d)'
        BY <1>2, <2>1 DEF TurnInv, InTurn, Live, Turn, Writing, EpollAt, SenderAt, Before, ClosePlaces, NoEvent
      <4> QED BY <4>1, <4>2
    <3>2. CASE e \notin Connections
      <4>1. UNCHANGED left
        BY <2>2, <3>2 DEF TurnInv, Stocked, Transmit
      <4> QED BY <1>2, <2>1, <4>1, TurnEpollMoves DEF TurnInv
    <3> QED BY <3>1, <3>2
  <2> QED BY <2>1, <2>3 DEF TurnInv
<1>9. CASE WriteRest
  <2>1. /\ pc[Epoll] = "write" /\ pc'[Epoll] = "disarm" /\ event.out /\ ~event.hup
        /\ UNCHANGED <<open, peer, armed, throw, event>>
        /\ left[e] \in Results(e) /\ Transmit(e, left[e])
    BY <1>9 DEF WriteRest, Move, connVars, SInv, ControlType
  <2>2. Stocked'
    <3>1. left' \in [Connections -> Nat] /\ \A c \in Connections : left[c] > 0 => left'[c] > 0
      <4>1. CASE e \in Connections
        BY <2>1, <4>1, StaysStocked DEF TurnInv
      <4>2. CASE e \notin Connections
        BY <2>1, <4>2 DEF TurnInv, Stocked, Transmit
      <4> QED BY <4>1, <4>2
    <3> QED BY <1>2, <2>1, <3>1 DEF TurnInv, Stocked, SenderAt
  <2>3. ASSUME NEW d \in Connections PROVE InTurn(d)'
    <3>1. InTurn(d)
      BY DEF TurnInv
    <3> QED BY <1>2, <2>1, <3>1 DEF InTurn, Live, Turn, Writing, EpollAt, SenderAt, Before, ClosePlaces
  <2> QED BY <2>1, <2>2, <2>3 DEF TurnInv
<1>10. CASE WriteFailed
  <2>1. /\ pc[Epoll] = "write" /\ pc'[Epoll] = "settle" /\ event.out /\ ~event.hup
        /\ UNCHANGED <<open, peer, armed, throw, left, event>>
        /\ Results(e) \cap {0, -2} # {}
    BY <1>10 DEF WriteFailed, Move, connVars, sendVars, SInv, ControlType
  <2>2. Stocked'
    BY <1>2, <2>1 DEF TurnInv, Stocked, SenderAt
  <2>3. ASSUME NEW d \in Connections PROVE InTurn(d)'
    <3>1. InTurn(d)
      BY DEF TurnInv
    <3>2. Live(d) => e # d
      <4>1. SUFFICES ASSUME Live(d), e = d PROVE FALSE
        OBVIOUS
      <4>2. left[d] \in Nat /\ left[d] > 0
        BY <2>1, <3>1, <4>1 DEF InTurn, Turn, Writing, EpollAt, Before, TurnInv, Stocked
      <4>3. \A r \in Results(d) : r = -1 \/ r \in 1 .. left[d]
        BY <4>1, <4>2 DEF Results, Live
      <4> QED BY <2>1, <4>1, <4>2, <4>3
    <3> QED BY <1>2, <2>1, <3>1, <3>2 DEF InTurn, Live, Turn, Writing, EpollAt, SenderAt, Before, ClosePlaces
  <2> QED BY <2>1, <2>2, <2>3 DEF TurnInv
<1>11. CASE Disarm
  <2>1. /\ pc[Epoll] = "disarm" /\ pc'[Epoll] = "settle"
        /\ UNCHANGED <<open, peer, throw, left, event>>
        /\ armed' = [armed EXCEPT ![e] = FALSE]
    BY <1>11 DEF Disarm, Move, connVars, SInv, ControlType
  <2>2. \A d \in Connections : (armed'[d] => armed[d] /\ d # e) /\ (d # e => armed'[d] = armed[d])
    BY <2>1 DEF LeftInv
  <2>3. Stocked'
    BY <1>2, <2>1, <2>2 DEF TurnInv, Stocked, SenderAt
  <2>4. ASSUME NEW d \in Connections PROVE InTurn(d)'
    <3>1. InTurn(d)
      BY DEF TurnInv
    <3> QED BY <1>2, <2>1, <2>2, <3>1 DEF InTurn, Live, Turn, Writing, EpollAt, SenderAt, Before, ClosePlaces
  <2> QED BY <2>1, <2>3, <2>4 DEF TurnInv
<1>12. CASE Settle
  <2>1. /\ pc[Epoll] = "settle" /\ pc'[Epoll] = "idle" /\ event' = NoEvent
        /\ UNCHANGED <<open, peer, armed, left>>
        /\ throw' = [throw EXCEPT ![e] = @ - 1]
    BY <1>12 DEF Settle, Move, connVars, SInv, ControlType
  <2>2. \A d \in Connections : throw'[d] = IF d = e THEN throw[d] - 1 ELSE throw[d]
    BY <2>1 DEF LeftInv
  <2>3. Stocked'
    BY <1>2, <2>1 DEF TurnInv, Stocked, SenderAt
  <2>4. ASSUME NEW d \in Connections PROVE InTurn(d)'
    <3>1. InTurn(d) /\ event'.conn # d
      BY <2>1, Names DEF TurnInv, NoEvent
    <3>2. Live(d)' <=> Live(d)
      BY <2>1 DEF Live
    <3>3. CASE d = e
      BY <1>2, <2>1, <2>2, <3>1, <3>2, <3>3 DEF InTurn, Turn, Writing, EpollAt, SenderAt, LeftInv
    <3>4. CASE d # e
      BY <1>2, <2>1, <2>2, <3>1, <3>2, <3>4 DEF InTurn, Turn, Writing, EpollAt, SenderAt
    <3> QED BY <3>3, <3>4
  <2> QED BY <2>1, <2>3, <2>4 DEF TurnInv
<1> QED BY <1>3, <1>4, <1>5, <1>6, <1>7, <1>8, <1>9, <1>10, <1>11, <1>12, TurnAccept DEF EpollStep

LEMMA TurnClose ==
  ASSUME SInv, LeftInv, LifeInv, TurnInv, NEW t \in Workers \cup {Epoll}, CloseStep(t)
  PROVE  TurnInv'
<1> USE Names
<1>1. /\ UNCHANGED at \/ \E m : t # Epoll /\ at' = [at EXCEPT ![t] = m]
      /\ \E to : pc' = [pc EXCEPT ![t] = to]
      /\ pc[t] \in ClosePlaces /\ UNCHANGED <<peer, left>>
  BY DEF CloseStep, Close, Test, Decrement, Park, Move, Return, connVars, sendVars, ClosePlaces
<1>2. UNCHANGED <<pc[Sender], at[Sender]>>
  BY <1>1 DEF SInv, ControlType
<1>3. /\ t = Epoll => pc[Epoll] \in Before /\ pc'[Epoll] \in Before
                      /\ UNCHANGED <<event.conn, event.out, event.hup>>
      /\ t # Epoll => UNCHANGED <<pc[Epoll], event>>
  BY DEF CloseStep, Close, Test, Decrement, Park, Move, Before, ClosePlaces, SInv, ControlType,
         RequestType, Event
<1>4. CASE UNCHANGED <<throw, armed, open>>
  <2>1. CASE t = Epoll
    BY <1>1, <1>2, <1>3, <1>4, <2>1, TurnEpollMoves
  <2>2. CASE t # Epoll
    <3>1. ASSUME NEW d \in Connections PROVE InTurn(d)'
      BY <1>1, <1>2, <1>3, <1>4, <2>2, TurnSame DEF TurnInv
    <3>2. Stocked'
      BY <1>1, <1>2, <1>4 DEF TurnInv, Stocked, SenderAt
    <3> QED BY <1>1, <3>1, <3>2 DEF TurnInv
  <2> QED BY <2>1, <2>2
<1>5. ASSUME NEW c, c = Conn(t), t = Epoll => c = event.conn,
             \A d \in Connections : d # c => UNCHANGED <<throw[d], armed[d], open[d]>>,
             \A d \in Connections : d = c => ~open'[d],
             \A d \in Connections : armed'[d] => armed[d]
      PROVE  TurnInv'
  <2>1. Stocked'
    BY <1>1, <1>2, <1>5 DEF TurnInv, Stocked, SenderAt
  <2>2. ASSUME NEW d \in Connections PROVE InTurn(d)'
    <3>1. InTurn(d)
      BY DEF TurnInv
    <3>2. CASE d = c
      BY <1>5, <3>2 DEF InTurn, Live
    <3>3. CASE d # c /\ t = Epoll
      BY <1>1, <1>2, <1>3, <1>5, <3>1, <3>3 DEF InTurn, Live, Turn, Writing, EpollAt, SenderAt
    <3>4. CASE d # c /\ t # Epoll
      BY <1>1, <1>2, <1>3, <1>5, <3>1, <3>4, TurnSame
    <3> QED BY <3>2, <3>3, <3>4
  <2> QED BY <1>1, <2>1, <2>2 DEF TurnInv
<1>6. CASE Close(t)
  <2> DEFINE c == Conn(t)
  <2>1. /\ open' = [open EXCEPT ![c] = FALSE] /\ armed' = [armed EXCEPT ![c] = FALSE]
        /\ UNCHANGED throw
    BY <1>6 DEF Close
  <2>2. t = Epoll => c = event.conn
    BY DEF Conn
  <2> HIDE DEF c
  <2>3. /\ \A d \in Connections : d # c => UNCHANGED <<throw[d], armed[d], open[d]>>
        /\ \A d \in Connections : d = c => ~open'[d]
        /\ \A d \in Connections : armed'[d] => armed[d]
    BY <2>1 DEF LeftInv
  <2> QED BY <1>5, <2>2, <2>3 DEF c
<1>7. CASE Decrement(t)
  <2> DEFINE c == Conn(t)
  <2>1. /\ throw' = [throw EXCEPT ![c] = @ - 1] /\ pc[t] \in Shut
        /\ UNCHANGED <<open, armed>>
    BY <1>7 DEF Decrement, Move, Shut, connVars
  <2>2. t = Epoll => c = event.conn
    BY DEF Conn
  <2>3. \A d \in Connections : d = c => ~open'[d]
    BY <2>1 DEF LifeInv
  <2> HIDE DEF c
  <2>4. /\ \A d \in Connections : d # c => UNCHANGED <<throw[d], armed[d], open[d]>>
        /\ \A d \in Connections : armed'[d] => armed[d]
    BY <2>1 DEF LeftInv
  <2> QED BY <1>5, <2>2, <2>3, <2>4 DEF c
<1>8. CASE Test(t) \/ Park(t)
  BY <1>4, <1>8 DEF Test, Park, connVars, sendVars
<1> QED BY <1>6, <1>7, <1>8 DEF CloseStep

\* A step that changes no counter, no event set, no output and no client, and
\* leaves the epoll thread and the writing of the sending thread where they are.
LEMMA TurnQuiet ==
  ASSUME TurnInv, UNCHANGED <<throw, armed, open, peer, left, pc[Epoll], event>>,
         \A c \in Connections : SenderAt(c, {"send", "raise", "arm"})' => SenderAt(c, {"send", "raise", "arm"}),
         \A c \in Connections : SenderAt(c, {"arm"})' => SenderAt(c, {"arm"})
  PROVE  TurnInv'
<1>1. Stocked'
  BY DEF TurnInv, Stocked
<1>2. ASSUME NEW c \in Connections PROVE InTurn(c)'
  BY DEF TurnInv, InTurn, Live, Turn, Writing, EpollAt
<1> QED
  BY <1>1, <1>2 DEF TurnInv

LEMMA TurnWorker ==
  ASSUME SInv, TurnInv, NEW w \in Workers, WorkerStep(w)
  PROVE  TurnInv'
<1> USE Names
<1>1. /\ UNCHANGED <<open, peer, throw, armed, left, event>>
      /\ UNCHANGED at \/ \E m : at' = [at EXCEPT ![w] = m]
      /\ UNCHANGED pc \/ \E to : pc' = [pc EXCEPT ![w] = to]
  BY DEF WorkerStep, HandleMessage, NoReply, Lock, CheckSize, CheckCount, Count, Push, Move, Return,
         connVars, sendVars
<1>2. UNCHANGED <<pc[Sender], at[Sender], pc[Epoll]>>
  BY <1>1 DEF SInv, ControlType
<1> QED
  BY <1>1, <1>2, TurnQuiet DEF SenderAt

LEMMA TurnSender ==
  ASSUME SInv, LeftInv, TurnInv, SenderStep
  PROVE  TurnInv'
<1> USE Names
<1> DEFINE c == Conn(Sender)
<1>1. /\ UNCHANGED <<open, peer, event>>
      /\ UNCHANGED at \/ \E m : at' = [at EXCEPT ![Sender] = m]
      /\ UNCHANGED pc \/ \E to : pc' = [pc EXCEPT ![Sender] = to]
  BY DEF SenderStep, Wake, EndOfWalk, Expired, Current, Skip, Take, SendDone, SendPart, Reset,
         Raise, Arm, Move, connVars, threadVars
<1>2. UNCHANGED pc[Epoll]
  BY <1>1 DEF SInv, ControlType
<1>3. CASE Wake \/ EndOfWalk \/ Expired \/ Current \/ Skip
  <2>1. /\ UNCHANGED <<throw, armed, left>>
        /\ pc'[Sender] \notin {"send", "raise", "arm"}
    BY <1>3 DEF Wake, EndOfWalk, Expired, Current, Skip, Move, sendVars, threadVars, SInv, ControlType
  <2> QED BY <1>1, <1>2, <2>1, TurnQuiet DEF SenderAt
<1>4. CASE Take
  <2>1. /\ pc[Sender] = "throw" /\ pc'[Sender] = "send" /\ UNCHANGED <<throw, armed, at>>
        /\ left' = [left EXCEPT ![c] = Size]
    BY <1>4 DEF Take, Move, SInv, ControlType
  <2>2. c = at[Sender].conn /\ c \in Connections
    BY <2>1, SenderConn DEF Sending
  <2> HIDE DEF c
  <2>3. /\ left' \in [Connections -> Nat] /\ \A d \in Connections : d # c => left'[d] = left[d]
        /\ left'[c] > 0
    BY <2>1, <2>2, SendAssumption DEF TurnInv, Stocked
  <2>4. Stocked'
    BY <2>1, <2>2, <2>3 DEF TurnInv, Stocked, SenderAt
  <2>5. ASSUME NEW d \in Connections PROVE InTurn(d)'
    BY <1>1, <1>2, <2>1 DEF TurnInv, InTurn, Live, Turn, Writing, EpollAt, SenderAt
  <2> QED BY <1>1, <2>4, <2>5 DEF TurnInv
<1>5. CASE SendDone \/ SendPart
  <2>1. /\ pc[Sender] = "send" /\ pc'[Sender] \in {"reset", "raise"} /\ UNCHANGED <<throw, armed, at>>
        /\ \E r \in Results(c) : Transmit(c, r)
    BY <1>5 DEF SendDone, SendPart, Partly, Move, SInv, ControlType
  <2>2. c = at[Sender].conn /\ c \in Connections
    BY <2>1, SenderConn DEF Sending
  <2> HIDE DEF c
  <2>3. left' \in [Connections -> Nat] /\ \A d \in Connections : left[d] > 0 => left'[d] > 0
    BY <2>1, <2>2, StaysStocked DEF TurnInv
  <2>4. Stocked'
    BY <2>1, <2>2, <2>3 DEF TurnInv, Stocked, SenderAt
  <2>5. ASSUME NEW d \in Connections PROVE InTurn(d)'
    BY <1>1, <1>2, <2>1 DEF TurnInv, InTurn, Live, Turn, Writing, EpollAt, SenderAt
  <2> QED BY <1>1, <2>4, <2>5 DEF TurnInv
<1>6. CASE Reset
  <2>1. /\ pc[Sender] = "reset" /\ pc'[Sender] = "walk" /\ UNCHANGED <<armed, left>>
        /\ throw' = [throw EXCEPT ![c] = 0]
    BY <1>6 DEF Reset, Move, SInv, ControlType
  <2>2. c = at[Sender].conn /\ c \in Connections /\ throw[c] <= 0
    BY <2>1, SenderConn DEF Sending, Owning, LeftInv
  <2> HIDE DEF c
  <2>3. \A d \in Connections : throw'[d] = IF d = c THEN 0 ELSE throw[d]
    BY <2>1 DEF LeftInv
  <2>4. Stocked'
    BY <2>1 DEF TurnInv, Stocked, SenderAt
  <2>5. ASSUME NEW d \in Connections PROVE InTurn(d)'
    <3>1. throw'[d] = throw[d] \/ (throw[d] <= 0 /\ throw'[d] = 0)
      BY <2>2, <2>3
    <3>2. InTurn(d)
      BY DEF TurnInv
    <3>3. throw[d] \in Int
      BY DEF LeftInv
    <3> QED BY <1>1, <1>2, <2>1, <3>1, <3>2, <3>3 DEF InTurn, Live, Turn, Writing, EpollAt, SenderAt
  <2> QED BY <1>1, <2>4, <2>5 DEF TurnInv
<1>7. CASE Raise
  <2>1. /\ pc[Sender] = "raise" /\ pc'[Sender] = "arm" /\ UNCHANGED <<armed, left, at>>
        /\ throw' = [throw EXCEPT ![c] = @ + 1]
    BY <1>7 DEF Raise, Move, SInv, ControlType
  <2>2. c = at[Sender].conn /\ c \in Connections /\ throw[c] <= 0 /\ throw[c] \in Int
    BY <2>1, SenderConn DEF Sending, Owning, LeftInv
  <2> HIDE DEF c
  <2>3. \A d \in Connections : throw'[d] = IF d = c THEN throw[d] + 1 ELSE throw[d]
    BY <2>1 DEF LeftInv
  <2>4. Stocked'
    BY <2>1, <2>2 DEF TurnInv, Stocked, SenderAt
  <2>5. ASSUME NEW d \in Connections PROVE InTurn(d)'
    <3>1. InTurn(d)
      BY DEF TurnInv
    <3>2. CASE d = c
      BY <1>1, <1>2, <2>1, <2>2, <2>3, <3>1, <3>2 DEF InTurn, Live, Turn, Writing, EpollAt, SenderAt
    <3>3. CASE d # c
      BY <1>1, <1>2, <2>1, <2>2, <2>3, <3>1, <3>3 DEF InTurn, Live, Turn, Writing, EpollAt, SenderAt
    <3> QED BY <3>2, <3>3
  <2> QED BY <1>1, <2>4, <2>5 DEF TurnInv
<1>8. CASE Arm
  <2>1. /\ pc[Sender] = "arm" /\ pc'[Sender] = "walk" /\ UNCHANGED <<throw, left>>
        /\ armed' = [armed EXCEPT ![c] = open[c]]
    BY <1>8 DEF Arm, Move, SInv, ControlType
  <2>2. c = at[Sender].conn /\ c \in Connections
    BY <2>1, SenderConn DEF Sending
  <2> HIDE DEF c
  <2>3. (armed'[c] <=> open[c]) /\ \A d \in Connections : d # c => armed'[d] = armed[d]
    BY <2>1, <2>2 DEF LeftInv
  <2>4. Stocked'
    BY <2>1, <2>2, <2>3 DEF TurnInv, Stocked, SenderAt
  <2>5. ASSUME NEW d \in Connections PROVE InTurn(d)'
    <3>1. InTurn(d)
      BY DEF TurnInv
    <3>2. CASE d = c
      BY <1>1, <1>2, <2>1, <2>2, <2>3, <3>1, <3>2 DEF InTurn, Live, Turn, Writing, EpollAt, SenderAt
    <3>3. CASE d # c
      BY <1>1, <1>2, <2>1, <2>2, <2>3, <3>1, <3>3 DEF InTurn, Live, Turn, Writing, EpollAt, SenderAt
    <3> QED BY <3>2, <3>3
  <2> QED BY <1>1, <2>4, <2>5 DEF TurnInv
<1> QED BY <1>3, <1>4, <1>5, <1>6, <1>7, <1>8 DEF SenderStep

LEMMA TurnStep ==
  ASSUME "half" \notin Leaving, SInv, LeftInv, LifeInv, TurnInv, [Next]_vars
  PROVE  TurnInv'
<1>1. CASE ClientStep \/ UNCHANGED vars
  <2>1. UNCHANGED <<throw, armed, open, left, pc, at, event>>
    BY <1>1 DEF ClientStep, Send, Leave, vars, connVars, sendVars, threadVars
  <2>2. /\ peer' \in [Connections -> {"open", "gone"}]
        /\ \A d \in Connections : peer'[d] = "open" => peer[d] = "open"
    BY <1>1, SendAssumption DEF ClientStep, Send, Leave, vars, connVars, TurnInv
  <2>3. Stocked'
    BY <2>1 DEF TurnInv, Stocked, SenderAt
  <2>4. ASSUME NEW d \in Connections PROVE InTurn(d)'
    BY <2>1, <2>2, TurnSame DEF TurnInv
  <2> QED BY <2>2, <2>3, <2>4 DEF TurnInv
<1>2. ASSUME NEW c \in Connections, Recycle(c)
      PROVE  TurnInv'
  <2>1. /\ place[c] = "parked" /\ throw' = [throw EXCEPT ![c] = 0]
        /\ UNCHANGED <<armed, open, peer, left, pc, at, event>>
    BY <1>2 DEF Recycle, threadVars
  <2>2. /\ ~open[c] /\ \A d \in Connections : d # c => throw'[d] = throw[d]
    BY <2>1 DEF LifeInv, LeftInv
  <2>3. Stocked'
    BY <2>1 DEF TurnInv, Stocked, SenderAt
  <2>4. ASSUME NEW d \in Connections PROVE InTurn(d)'
    <3>1. d = c => InTurn(d)'
      BY <2>1, <2>2 DEF InTurn, Live
    <3> QED BY <2>1, <2>2, <3>1, TurnSame DEF TurnInv
  <2> QED BY <2>1, <2>3, <2>4 DEF TurnInv
<1> QED BY <1>1, <1>2, TurnEpoll, TurnClose, TurnWorker, TurnSender DEF Next

LEMMA TurnInit ==
  ASSUME Init
  PROVE  LifeInv /\ MessageInv /\ TurnInv
<1>1. /\ place = [c \in Connections |-> "free"] /\ open = [c \in Connections |-> FALSE]
      /\ armed = [c \in Connections |-> FALSE] /\ peer = [c \in Connections |-> "gone"]
      /\ left = [c \in Connections |-> 0] /\ tasks = {} /\ queue = <<>>
      /\ pc[Sender] = "wait" /\ pc[Epoll] = "idle" /\ event.conn = Nobody
      /\ at = [t \in Threads |-> NoMsg]
  BY Names DEF Init, NoEvent
<1>2. \A t \in Threads : Conn(t) = Nobody
  BY <1>1 DEF Conn
<1>3. LifeInv
  BY <1>1, <1>2, Names DEF LifeInv
<1>4. MessageInv
  BY <1>1, Names DEF MessageInv
<1>5. Stocked
  BY <1>1 DEF Stocked, SenderAt
<1>6. \A c \in Connections : InTurn(c)
  BY <1>1, Names DEF InTurn, Live, Writing, EpollAt, Before, ClosePlaces
<1> QED
  BY <1>1, <1>3, <1>4, <1>5, <1>6 DEF TurnInv

\* All of it, for clients that do not half-close.
WriteInv ==
  /\ SInv /\ AtCursor /\ LeftInv
  /\ LifeInv /\ MessageInv /\ TurnInv

LEMMA WriteInit ==
  ASSUME Init
  PROVE  WriteInv
BY SInit, CoverInit, LeftInit, TurnInit DEF WriteInv

LEMMA WriteStep ==
  ASSUME "half" \notin Leaving, WriteInv, [Next]_vars
  PROVE  WriteInv'
<1>1. SInv' /\ AtCursor' /\ LeftInv' /\ LifeInv' /\ TurnInv'
  BY SStep, CursorStep, LeftStep, LifeStep, TurnStep DEF WriteInv
<1> QED
  BY <1>1, MessageStep DEF WriteInv

\* While the two threads that write take turns, changing throw_send_count and
\* the registered events without a lock, they are never both inside send for
\* one open descriptor: as long as no client half-closes its socket, for which
\* the epoll thread lowers throw_send_count although the rest is not written.
THEOREM WritersTakeTurns ==
  ASSUME "half" \notin Leaving
  PROVE  Spec => []OneWriter
<1>1. Init => WriteInv
  BY WriteInit
<1>2. WriteInv /\ [Next]_vars => WriteInv'
  BY WriteStep
<1>3. WriteInv => OneWriter
  <2> SUFFICES ASSUME WriteInv, NEW c \in Connections,
                      pc[Sender] = "send", at[Sender].conn = c, open[c],
                      pc[Epoll] = "write", event.out, ~event.hup, event.conn = c
               PROVE  FALSE
    BY DEF OneWriter
  <2>1. throw[c] <= 0
    BY DEF WriteInv, LeftInv, Owning
  <2>2. throw[c] > 0
    BY DEF WriteInv, TurnInv, InTurn, Writing, EpollAt, Before
  <2>3. throw[c] \in Int
    BY DEF WriteInv, LeftInv
  <2> QED BY <2>1, <2>2, <2>3
<1> QED BY <1>1, <1>2, <1>3, PTL DEF Spec

-----------------------------------------------------------------------------
(* Arithmetic of whole replies *)

LEMMA Remainder ==
  ASSUME NEW s \in Nat \ {0}, NEW q \in Int, NEW r \in 0 .. s - 1
  PROVE  (q * s + r) % s = r
OBVIOUS

LEMMA Quotient ==
  ASSUME NEW s \in Nat \ {0}, NEW n \in Nat
  PROVE  \E q \in Int : n = q * s + (n % s)
<1>1. n = (n \div s) * s + (n % s) /\ n \div s \in Int
  OBVIOUS
<1> QED BY <1>1

\* What is written when l units are missing to whole replies.
LEMMA Unfinished ==
  ASSUME NEW s \in Nat \ {0}, NEW n \in Nat, NEW l \in 1 .. s, (n + l) % s = 0
  PROVE  n % s = IF l = s THEN 0 ELSE s - l
<1> DEFINE r == IF l = s THEN 0 ELSE s - l
           m == n + l
<1>1. m \in Nat /\ m % s = 0
  OBVIOUS
<1> HIDE DEF m
<1>2. PICK q \in Int : m = q * s + (m % s)
  BY <1>1, Quotient
<1>3. m = q * s
  BY <1>1, <1>2
<1>4. PICK p \in Int : n = p * s + r /\ r \in 0 .. s - 1
  <2>1. CASE l = s
    <3>1. n = q * s - s
      BY <1>3, <2>1 DEF m
    <3>2. n = (q - 1) * s + 0
      BY <3>1
    <3> QED BY <2>1, <3>2
  <2>2. CASE l # s
    <3>1. n = q * s - l
      BY <1>3, <2>2 DEF m
    <3>2. n = (q - 1) * s + (s - l)
      BY <3>1
    <3> QED BY <2>2, <3>2
  <2> QED BY <2>1, <2>2
<1> HIDE DEF r
<1>5. n % s = r
  BY <1>4, Remainder
<1> QED BY <1>5 DEF r

LEMMA OneMore ==
  ASSUME NEW s \in Nat \ {0}, NEW n \in Nat, n % s = 0
  PROVE  (n + s) % s = 0
<1>1. PICK q \in Int : n = q * s + (n % s)
  BY Quotient
<1>2. n + s = (q + 1) * s + 0 /\ q + 1 \in Int /\ 0 \in 0 .. s - 1
  BY <1>1
<1> QED BY <1>2, Remainder

-----------------------------------------------------------------------------
(* What the client receives *)

\* The requests that may still be answered.
Pending ==
  {m \in Msg : \/ m \in tasks
               \/ \E i \in DOMAIN queue : queue[i] = m
               \/ \E w \in Workers : at[w] = m}

\* A reply to c is being written: by the sending thread, or by the epoll thread
\* for EPOLLOUT.
Busy(c) ==
  \/ SenderAt(c, {"send", "raise", "arm"})
  \/ armed[c] /\ ~EpollAt(c, {"disarm"})

\* The rest of the reply that is being written fills the output up to whole
\* replies, and the reply is in no other hands.
Rest(c) ==
  /\ cur[c] \in Msg \ Pending
  /\ cur[c].conn = c /\ cur[c].seq = seq[c] /\ cur[c].n <= asked[c]
  /\ left[c] \in 1 .. Size /\ (Len(wire[c]) + left[c]) % Size = 0
  /\ IF left[c] = Size THEN cur[c].n \notin Range(wire[c])
     ELSE cur[c].n = wire[c][Len(wire[c])]

Wire(c) ==
  /\ SenderAt(c, Sending) => at[Sender].seq = seq[c]
  /\ IF Busy(c) THEN Rest(c) ELSE Len(wire[c]) % Size = 0
  /\ \A m \in Pending : m.conn = c /\ m.seq = seq[c] => m.n \notin Range(wire[c])
  /\ \A n \in Range(wire[c]) : n <= asked[c]

WireInv ==
  /\ cur \in [Connections -> Msg \cup {NoMsg}]
  /\ wire \in [Connections -> Seq(1 .. MaxAsk)]
  /\ \A c \in Connections : Live(c) => Wire(c)

\* For a live client the two threads exclude each other.
LEMMA Exclusive ==
  ASSUME WriteInv, NEW c \in Connections, Live(c)
  PROVE  /\ armed[c] => ~SenderAt(c, {"send", "reset", "raise", "arm"}) /\ ~EpollAt(c, {"settle"})
         /\ EpollAt(c, {"settle"}) => ~SenderAt(c, {"send", "reset", "raise", "arm"})
         /\ EpollAt(c, {"disarm"}) => armed[c]
         /\ Writing(c) => armed[c]
         /\ armed[c] => throw[c] > 0
         /\ event.conn = c => ~event.hup
<1>1. Turn(c) /\ (pc[Sender] \in Owning => throw[at[Sender].conn] <= 0)
  BY DEF WriteInv, TurnInv, InTurn, LeftInv
<1> QED
  BY <1>1 DEF Turn, SenderAt, Owning

\* Nothing changes for the client of c.
LEMMA WireSame ==
  ASSUME NEW c \in Connections, Wire(c), UNCHANGED <<wire[c], seq[c], asked[c]>>,
         Pending' \subseteq Pending,
         Busy(c)' <=> Busy(c), Busy(c) => UNCHANGED <<cur[c], left[c]>>,
         SenderAt(c, Sending)' => at'[Sender].seq = seq[c]
  PROVE  Wire(c)'
<1>1. Busy(c) => Rest(c)'
  BY DEF Wire, Rest
<1> QED
  BY <1>1 DEF Wire

\* send has taken r units of the reply to c.
LEMMA Written ==
  ASSUME WireInv, left \in [Connections -> Nat], NEW c \in Connections, Live(c), Rest(c),
         NEW r \in Results(c), Transmit(c, r)
  PROVE  /\ wire' \in [Connections -> Seq(1 .. MaxAsk)]
         /\ \A d \in Connections : d # c => UNCHANGED <<wire[d], left[d]>>
         /\ \A n \in Range(wire'[c]) : n \in Range(wire[c]) \/ n = cur[c].n
         /\ r \in Partly(c) =>
              /\ left'[c] \in 1 .. Size /\ (Len(wire'[c]) + left'[c]) % Size = 0
              /\ IF left'[c] = Size THEN cur[c].n \notin Range(wire'[c])
                 ELSE cur[c].n = wire'[c][Len(wire'[c])]
         /\ r \notin Partly(c) => Len(wire'[c]) % Size = 0
<1> DEFINE n == cur[c].n
           w == wire[c]
           l == left[c]
<1>1. /\ w \in Seq(1 .. MaxAsk) /\ Len(w) \in Nat /\ n \in 1 .. MaxAsk /\ Size \in Nat \ {0}
      /\ l \in 1 .. Size /\ (Len(w) + l) % Size = 0 /\ open[c] /\ peer[c] = "open"
      /\ wire \in [Connections -> Seq(1 .. MaxAsk)]
  BY SendAssumption, LenProperties DEF WireInv, Rest, Msg, Live
<1>2. /\ r = -1 \/ r \in 1 .. l
      /\ r \in Partly(c) <=> r = -1 \/ r \in 1 .. l - 1
  BY <1>1 DEF Results, Partly
<1>3. CASE r = -1
  <2>1. UNCHANGED <<left, wire>>
    BY <1>3 DEF Transmit
  <2> QED BY <1>1, <1>2, <1>3, <2>1 DEF Rest
<1>4. CASE r \in 1 .. l
  <2> DEFINE u == [i \in 1 .. r |-> n]
  <2>1. /\ left' = [left EXCEPT ![c] = IF r = l THEN l ELSE l - r]
        /\ wire' = [wire EXCEPT ![c] = w \o u]
    <3>1. r > 0 /\ peer[c] # "gone"
      BY <1>1, <1>4
    <3> HIDE DEF n, u, w, l
    <3> QED BY <3>1, Zenon DEF Transmit, n, u, w, l
  <2>2. u \in Seq(1 .. MaxAsk) /\ Len(u) = r /\ r \in Nat /\ \A i \in 1 .. r : u[i] = n
    <3>1. r \in Nat /\ u \in [1 .. r -> 1 .. MaxAsk]
      BY <1>1, <1>4
    <3> QED BY <3>1, IsASeq, LenProperties, <1>1
  <2> HIDE DEF u
  <2>3. /\ w \o u \in Seq(1 .. MaxAsk) /\ Len(w \o u) = Len(w) + r
        /\ \A i \in 1 .. Len(w) + r : (w \o u)[i] = IF i <= Len(w) THEN w[i] ELSE u[i - Len(w)]
    <3> HIDE DEF w
    <3>1. w \in Seq(1 .. MaxAsk) /\ u \in Seq(1 .. MaxAsk)
      BY <1>1, <2>2
    <3>2. /\ w \o u \in Seq(1 .. MaxAsk) /\ Len(w \o u) = Len(w) + Len(u)
          /\ \A i \in 1 .. Len(w) + Len(u) : (w \o u)[i] = IF i <= Len(w) THEN w[i] ELSE u[i - Len(w)]
      BY <3>1, ConcatProperties, Zenon
    <3> QED BY <2>2, <3>2
  <2>4. /\ wire' \in [Connections -> Seq(1 .. MaxAsk)] /\ wire'[c] = w \o u
        /\ \A d \in Connections : d # c => UNCHANGED <<wire[d], left[d]>>
        /\ left'[c] = IF r = l THEN l ELSE l - r
    BY <1>1, <2>1, <2>3
  <2>5. ASSUME NEW k \in Range(wire'[c]) PROVE k \in Range(wire[c]) \/ k = n
    <3>1. PICK i \in 1 .. Len(w) + r : k = (w \o u)[i]
      BY <2>3, <2>4, LenProperties DEF Range
    <3>2. CASE i <= Len(w)
      <4>1. i \in DOMAIN w /\ k = w[i]
        BY <1>1, <2>3, <3>1, <3>2, LenProperties
      <4> QED BY <4>1 DEF Range
    <3>3. CASE ~(i <= Len(w))
      <4>1. i - Len(w) \in 1 .. r
        BY <1>1, <2>2, <3>1, <3>3
      <4> QED BY <2>2, <2>3, <3>1, <3>3, <4>1
    <3> QED BY <3>2, <3>3
  <2>6. (w \o u)[Len(w) + r] = n
    BY <1>1, <1>4, <2>2, <2>3
  <2>7. CASE r = l
    BY <1>1, <1>2, <2>3, <2>4, <2>5, <2>7
  <2>8. CASE r # l
    <3>1. /\ r \in Partly(c) /\ left'[c] = l - r /\ l - r \in 1 .. Size /\ l - r # Size
          /\ Len(wire'[c]) + left'[c] = Len(w) + l
      BY <1>1, <1>2, <1>4, <2>3, <2>4, <2>8
    <3> QED BY <1>1, <2>3, <2>4, <2>5, <2>6, <3>1
  <2> QED BY <2>7, <2>8
<1> QED
  BY <1>2, <1>3, <1>4

LEMMA PendingLess ==
  ASSUME SInv, tasks' \subseteq tasks, queue' = queue, \A w \in Workers : at'[w] \in {at[w], NoMsg}
  PROVE  Pending' \subseteq Pending
BY NoMsgAssumption DEF Pending

LEMMA PendingWorker ==
  ASSUME SInv, NEW w \in Workers, WorkerStep(w)
  PROVE  Pending' \subseteq Pending
<1>1. CASE NoReply(w) \/ Lock(w) \/ CheckSize(w) \/ CheckCount(w) \/ Count(w)
  <2>1. UNCHANGED <<tasks, queue>> /\ \A v \in Workers : at'[v] \in {at[v], NoMsg}
    BY <1>1, MessageTypes DEF NoReply, Lock, CheckSize, CheckCount, Count, Return, queueVars
  <2> QED BY <2>1, PendingLess
<1>2. ASSUME NEW m \in tasks, HandleMessage(w, m)
      PROVE  Pending' \subseteq Pending
  <2>1. /\ tasks' \subseteq tasks /\ UNCHANGED queue
        /\ \A v \in Workers : at'[v] = at[v] \/ at'[v] = m
    BY <1>2, MessageTypes DEF HandleMessage
  <2> QED BY <2>1 DEF Pending
<1>3. CASE Push(w)
  <2>1. /\ UNCHANGED tasks /\ pc[w] = "push"
        /\ queue' = Append(queue, at[w]) /\ at' = [at EXCEPT ![w] = NoMsg]
    BY <1>3 DEF Push, Move, Return, connVars
  <2>2. at[w] \in Msg
    BY <2>1 DEF SInv, Locked
  <2>3. /\ DOMAIN queue' = 1 .. Len(queue) + 1 /\ DOMAIN queue = 1 .. Len(queue)
        /\ Len(queue) \in Nat
        /\ \A i \in DOMAIN queue : queue'[i] = queue[i]
        /\ queue'[Len(queue) + 1] = at[w]
    BY <2>1, <2>2, MessageTypes, AppendProperties, LenProperties
  <2>4. \A i \in DOMAIN queue' : queue'[i] = at[w] \/ \E j \in DOMAIN queue : queue'[i] = queue[j]
    BY <2>3
  <2>5. \A v \in Workers : at'[v] \in {at[v], NoMsg}
    BY <2>1, MessageTypes
  <2> QED BY <2>1, <2>4, <2>5, NoMsgAssumption DEF Pending
<1> QED
  BY <1>1, <1>2, <1>3 DEF WorkerStep

\* A step that writes nothing and changes no events that are registered, of a
\* thread that is not the sending thread.
LEMMA WireAway ==
  ASSUME WireInv, UNCHANGED <<cur, left, wire, seq, asked, armed, pc[Sender], at[Sender]>>,
         \A c \in Connections : Live(c)' => Live(c),
         Pending' \subseteq Pending,
         \/ pc[Epoll] # "disarm" /\ pc'[Epoll] # "disarm"
         \/ UNCHANGED <<pc[Epoll], event>>
  PROVE  WireInv'
<1>1. ASSUME NEW c \in Connections, Live(c)'
      PROVE  Wire(c)'
  <2>1. Wire(c) /\ (Busy(c)' <=> Busy(c)) /\ (SenderAt(c, Sending)' => at'[Sender].seq = seq[c])
    BY <1>1 DEF WireInv, Wire, Busy, SenderAt, EpollAt
  <2> QED BY <2>1, WireSame
<1> QED BY <1>1 DEF WireInv

LEMMA WireAccept ==
  ASSUME WriteInv, WireInv, NEW c \in Connections, EventAccept(c)
  PROVE  WireInv'
<1> USE Names
<1>1. /\ place[c] = "free" /\ UNCHANGED <<tasks, queue, pc, at, event, left>>
      /\ open' = [open EXCEPT ![c] = TRUE] /\ armed' = [armed EXCEPT ![c] = FALSE]
      /\ peer' = [peer EXCEPT ![c] = "open"] /\ seq' = [seq EXCEPT ![c] = @ + 1]
      /\ cur' = [cur EXCEPT ![c] = NoMsg] /\ wire' = [wire EXCEPT ![c] = <<>>]
      /\ asked' = [asked EXCEPT ![c] = 0]
  BY DEF EventAccept, queueVars, threadVars
<1>2. /\ ~armed'[c] /\ wire'[c] = <<>>
      /\ \A d \in Connections : d # c =>
           UNCHANGED <<open[d], armed[d], peer[d], seq[d], cur[d], wire[d], asked[d]>>
  <2>1. /\ DOMAIN open = Connections /\ DOMAIN armed = Connections /\ DOMAIN peer = Connections
        /\ DOMAIN seq = Connections /\ DOMAIN asked = Connections
        /\ DOMAIN cur = Connections /\ DOMAIN wire = Connections
    BY DEF WriteInv, LeftInv, TurnInv, SInv, RequestType, WireInv
  <2> QED BY <1>1, <2>1
<1>3. /\ cur' \in [Connections -> Msg \cup {NoMsg}]
      /\ wire' \in [Connections -> Seq(1 .. MaxAsk)]
  BY <1>1, EmptySeq DEF WireInv
<1>4. pc[Sender] \in Sending => at[Sender].conn # c
  BY <1>1, SenderConn DEF LifeInv, WriteInv
<1>5. Wire(c)'
  <2>1. ~Busy(c)' /\ ~SenderAt(c, Sending)'
    BY <1>1, <1>2, <1>4 DEF Busy, SenderAt, Sending
  <2>2. Len(wire'[c]) % Size = 0 /\ Range(wire'[c]) = {}
    <3>1. Len(wire'[c]) = 0 /\ DOMAIN wire'[c] = {}
      BY <1>2, EmptySeq
    <3>2. 0 % Size = 0
      BY Remainder, SendAssumption
    <3> QED BY <3>1, <3>2 DEF Range
  <2> QED BY <2>1, <2>2 DEF Wire
<1>6. ASSUME NEW d \in Connections, d # c, Live(d)'
      PROVE  Wire(d)'
  <2>1. Live(d)
    BY <1>2, <1>6 DEF Live
  <2>2. Wire(d) /\ (Busy(d)' <=> Busy(d)) /\ (SenderAt(d, Sending)' => at'[Sender].seq = seq[d])
    BY <1>1, <1>2, <1>6, <2>1 DEF WireInv, Wire, Busy, SenderAt, EpollAt
  <2>3. Pending' \subseteq Pending
    BY <1>1 DEF Pending
  <2> QED BY <1>1, <1>2, <1>6, <2>2, <2>3, WireSame
<1> QED BY <1>3, <1>5, <1>6 DEF WireInv

LEMMA WireRead ==
  ASSUME WriteInv, WireInv, ReadPacket
  PROVE  WireInv'
<1> USE Names
<1> DEFINE c == event.conn
           new == [conn |-> c, seq |-> seq[c], n |-> asked[c] + 1]
<1>1. /\ pc[Epoll] = "read" /\ pc' = [pc EXCEPT ![Epoll] = "write"]
      /\ asked' = [asked EXCEPT ![c] = @ + 1] /\ tasks' = tasks \cup {new}
      /\ UNCHANGED <<seq, open, peer, cur, left, wire, armed, queue, at, event>>
  BY DEF ReadPacket, Move, sendVars
<1>2. c \in Connections /\ asked \in [Connections -> Nat] /\ UNCHANGED <<pc[Sender], at[Sender]>>
  BY <1>1 DEF WriteInv, SInv, RequestType, ControlType
<1>3. /\ asked[c] \in Nat /\ asked'[c] = asked[c] + 1
      /\ \A d \in Connections : d # c => asked'[d] = asked[d]
  BY <1>1, <1>2
<1>4. \A m \in Pending' : m \in Pending \/ m = new
  BY <1>1 DEF Pending
<1>5. new.conn = c /\ new.seq = seq[c] /\ new.n = asked[c] + 1
  OBVIOUS
<1> HIDE DEF new
<1>6. ASSUME NEW d \in Connections, Live(d)'
      PROVE  Wire(d)'
  <2>1. Wire(d) /\ (Busy(d)' <=> Busy(d)) /\ (SenderAt(d, Sending)' => at'[Sender].seq = seq[d])
    BY <1>1, <1>2, <1>6 DEF WireInv, Wire, Busy, SenderAt, EpollAt, Live, WriteInv, SInv, ControlType
  <2>2. asked[d] \in Nat /\ asked'[d] \in {asked[d], asked[d] + 1}
    BY <1>2, <1>3
  <2>3. ASSUME NEW n \in Range(wire[d]) PROVE n <= asked[d] /\ n <= asked'[d]
    <3>1. n \in 1 .. MaxAsk
      BY <1>6, LenProperties DEF WireInv, Range
    <3> QED BY <2>1, <2>2, <3>1 DEF Wire
  <2>4. \A m \in Pending' : m.conn = d /\ m.seq = seq[d] => m.n \notin Range(wire[d])
    <3>1. d = c => new.n \notin Range(wire[d])
      BY <1>3, <1>5, <2>3
    <3> QED BY <1>4, <1>5, <2>1, <3>1 DEF Wire
  <2>5. Busy(d) => Rest(d)'
    <3>1. SUFFICES ASSUME Rest(d) PROVE Rest(d)'
      BY <2>1 DEF Wire
    <3>2. cur[d].n \in Int /\ cur[d] # new
      BY <1>3, <1>5, <3>1 DEF Rest, Msg
    <3> QED BY <1>1, <1>4, <2>2, <3>1, <3>2 DEF Rest
  <2> QED BY <1>1, <2>1, <2>3, <2>4, <2>5 DEF Wire
<1> QED BY <1>1, <1>6 DEF WireInv

LEMMA SameMessage ==
  ASSUME NEW m \in Msg, NEW k \in Msg, m.conn = k.conn, m.seq = k.seq, m.n = k.n
  PROVE  m = k
BY DEF Msg

\* A step that writes to a live client c and leaves it to nobody to go on if
\* the reply is complete, and that changes nothing for the others.
LEMMA WireWritten ==
  ASSUME WriteInv, WireInv, NEW c \in Connections, Live(c), Busy(c),
         NEW r \in Results(c), Transmit(c, r),
         UNCHANGED <<cur, seq, asked, open, peer>>, Pending' \subseteq Pending,
         Busy(c)' <=> r \in Partly(c),
         \A d \in Connections : d # c => (Busy(d)' <=> Busy(d)),
         \A d \in Connections : SenderAt(d, Sending)' => SenderAt(d, Sending) /\ at'[Sender].seq = at[Sender].seq
  PROVE  WireInv'
<1>1. Wire(c) /\ Rest(c)
  BY DEF WireInv, Wire
<1>2. left \in [Connections -> Nat]
  BY DEF WriteInv, TurnInv, Stocked
<1>3. /\ wire' \in [Connections -> Seq(1 .. MaxAsk)]
      /\ \A d \in Connections : d # c => UNCHANGED <<wire[d], left[d]>>
      /\ \A n \in Range(wire'[c]) : n \in Range(wire[c]) \/ n = cur[c].n
      /\ r \in Partly(c) =>
           /\ left'[c] \in 1 .. Size /\ (Len(wire'[c]) + left'[c]) % Size = 0
           /\ IF left'[c] = Size THEN cur[c].n \notin Range(wire'[c])
              ELSE cur[c].n = wire'[c][Len(wire'[c])]
      /\ r \notin Partly(c) => Len(wire'[c]) % Size = 0
  BY <1>1, <1>2, Written
<1>4. ASSUME NEW d \in Connections, d # c, Live(d)'
      PROVE  Wire(d)'
  <2>1. Wire(d) /\ (SenderAt(d, Sending)' => at'[Sender].seq = seq[d])
    BY <1>4 DEF WireInv, Wire, Live
  <2> QED BY <1>3, <1>4, <2>1, WireSame
<1>5. Wire(c)'
  <2>1. SenderAt(c, Sending)' => at'[Sender].seq = seq'[c]
    BY <1>1 DEF Wire
  <2>2. Busy(c)' => Rest(c)'
    BY <1>1, <1>3 DEF Rest
  <2>3. ASSUME NEW m \in Pending', m.conn = c, m.seq = seq[c]
        PROVE  m.n \notin Range(wire'[c])
    <3>1. m.n # cur[c].n
      <4>1. m \in Msg /\ cur[c] \in Msg /\ m # cur[c]
        BY <1>1, <2>3 DEF Pending, Rest
      <4>2. cur[c].conn = c /\ cur[c].seq = seq[c]
        BY <1>1 DEF Rest
      <4> QED BY <2>3, <4>1, <4>2, SameMessage
    <3>2. m.n \notin Range(wire[c])
      BY <1>1, <2>3 DEF Wire
    <3> QED BY <1>3, <3>1, <3>2
  <2>4. \A n \in Range(wire'[c]) : n <= asked'[c]
    BY <1>1, <1>3 DEF Wire, Rest
  <2> QED BY <1>3, <2>1, <2>2, <2>3, <2>4 DEF Wire
<1> QED BY <1>3, <1>4, <1>5 DEF WireInv

LEMMA WireEpoll ==
  ASSUME WriteInv, WireInv, EpollStep
  PROVE  WireInv'
<1> USE Names
<1> DEFINE e == event.conn
<1>1. UNCHANGED at /\ (UNCHANGED pc \/ \E to : pc' = [pc EXCEPT ![Epoll] = to])
  BY DEF EpollStep, EventAccept, EpollEvent, KickOverdue, ReadPart, ReadPacket, ReadFlood,
         ReadClosed, NoWrite, HangUp, WriteSome, WriteRest, WriteFailed, Disarm, Settle, Move, threadVars
<1>2. UNCHANGED <<pc[Sender], at[Sender]>>
  BY <1>1 DEF WriteInv, SInv, ControlType
<1>3. CASE \/ \E c \in Connections : EpollEvent(c) \/ KickOverdue(c)
           \/ ReadPart \/ ReadFlood \/ ReadClosed \/ NoWrite \/ HangUp \/ WriteFailed
  <2>1. /\ UNCHANGED <<cur, left, wire, seq, asked, armed, open, peer, tasks, queue>>
        /\ pc[Epoll] # "disarm" /\ pc'[Epoll] # "disarm"
    BY <1>3 DEF EpollEvent, KickOverdue, ReadPart, ReadFlood, ReadClosed, NoWrite, HangUp, WriteFailed,
       Move, connVars, sendVars, queueVars, WriteInv, SInv, ControlType
  <2>2. Pending' \subseteq Pending
    BY <1>1, <2>1 DEF Pending
  <2> QED BY <1>2, <2>1, <2>2, WireAway DEF Live
<1>4. CASE WriteSome \/ WriteRest
  <2>1. /\ pc[Epoll] = "write" /\ event.out /\ ~event.hup
        /\ UNCHANGED <<cur, seq, asked, armed, open, peer, tasks, queue>>
        /\ \/ pc'[Epoll] = "idle" /\ \E r \in Partly(e) : Transmit(e, r)
           \/ pc'[Epoll] = "disarm" /\ UNCHANGED event
              /\ left[e] \in Results(e) \ {0} /\ Transmit(e, left[e])
    BY <1>4 DEF WriteSome, WriteRest, Move, connVars, queueVars, WriteInv, SInv, ControlType
  <2>2. Pending' \subseteq Pending
    BY <1>1, <2>1 DEF Pending
  <2>3. ASSUME NEW c \in Connections, c = e, Live(c)
        PROVE  WireInv'
    <3>1. armed[c] /\ Busy(c)
      BY <2>1, <2>3, Exclusive DEF Writing, EpollAt, Before, Busy
    <3>2. ~SenderAt(c, {"send", "raise", "arm"})
      BY <2>3, <3>1, Exclusive DEF SenderAt
    <3>3. \A d \in Connections : d # c => (Busy(d)' <=> Busy(d))
      BY <1>2, <2>1, <2>3 DEF Busy, SenderAt, EpollAt
    <3>4. \A d \in Connections : SenderAt(d, Sending)' => SenderAt(d, Sending) /\ at'[Sender].seq = at[Sender].seq
      BY <1>2 DEF SenderAt
    <3>5. CASE pc'[Epoll] = "idle"
      <4>1. PICK r \in Partly(c) : Transmit(c, r)
        BY <2>1, <2>3, <3>5
      <4>2. r \in Results(c)
        BY DEF Partly
      <4>3. Busy(c)'
        BY <2>1, <3>1, <3>5 DEF Busy, EpollAt
      <4> QED BY <2>1, <2>2, <2>3, <3>1, <3>3, <3>4, <4>1, <4>2, <4>3, WireWritten
    <3>6. CASE pc'[Epoll] = "disarm"
      <4>1. left[c] \in Results(c) \ {0} /\ Transmit(c, left[c]) /\ UNCHANGED event
        BY <2>1, <2>3, <3>6
      <4>2. left[c] \notin Partly(c)
        BY <2>3 DEF Partly, WriteInv, TurnInv, Stocked
      <4>3. ~Busy(c)'
        BY <1>2, <2>3, <3>2, <3>6, <4>1 DEF Busy, SenderAt, EpollAt
      <4> QED BY <2>1, <2>2, <2>3, <3>1, <3>3, <3>4, <4>1, <4>2, <4>3, WireWritten
    <3> QED BY <2>1, <3>5, <3>6
  <2>4. CASE ~(e \in Connections /\ Live(e))
    <3>1. \A d \in Connections : Live(d) => d # e
      BY <2>4
    <3>2. UNCHANGED wire /\ \A d \in Connections : d # e => left'[d] = left[d]
      <4>1. PICK r \in Results(e) : Transmit(e, r)
        BY <2>1 DEF Partly
      <4>2. left \in [Connections -> Nat] /\ wire \in [Connections -> Seq(1 .. MaxAsk)]
            /\ peer \in [Connections -> {"open", "gone"}]
        BY DEF WriteInv, TurnInv, Stocked, WireInv
      <4>3. CASE e \notin Connections
        BY <4>1, <4>2, <4>3 DEF Transmit
      <4>4. CASE e \in Connections /\ ~open[e]
        BY <4>1, <4>4 DEF Transmit, Results
      <4>5. CASE e \in Connections /\ peer[e] = "gone"
        BY <4>1, <4>2, <4>5 DEF Transmit
      <4> QED BY <2>4, <4>2, <4>3, <4>4, <4>5 DEF Live
    <3>3. ASSUME NEW d \in Connections, Live(d)'
          PROVE  Wire(d)'
      <4>1. Live(d) /\ d # e
        BY <2>1, <3>1, <3>3 DEF Live
      <4>2. Wire(d) /\ (Busy(d)' <=> Busy(d)) /\ (SenderAt(d, Sending)' => at'[Sender].seq = seq[d])
        BY <1>2, <2>1, <4>1 DEF WireInv, Wire, Busy, SenderAt, EpollAt
      <4> QED BY <2>1, <2>2, <3>2, <4>1, <4>2, WireSame
    <3> QED BY <2>1, <3>2, <3>3 DEF WireInv
  <2> QED BY <2>3, <2>4
<1>5. CASE Disarm \/ Settle
  <2>1. /\ UNCHANGED <<left, wire, seq, asked, open, peer, tasks, queue>>
        /\ \A d \in Connections : d # e => UNCHANGED <<cur[d], armed[d]>>
        /\ cur' \in [Connections -> Msg \cup {NoMsg}]
        /\ \/ /\ pc[Epoll] = "disarm" /\ pc'[Epoll] = "settle" /\ UNCHANGED <<cur, event>>
              /\ \A d \in Connections : d = e => ~armed'[d]
           \/ pc[Epoll] = "settle" /\ pc'[Epoll] = "idle" /\ UNCHANGED armed
    BY <1>5 DEF Disarm, Settle, Move, connVars, queueVars, WriteInv, SInv, ControlType, WireInv, LeftInv
  <2>2. Pending' \subseteq Pending
    BY <1>1, <2>1 DEF Pending
  <2>3. ASSUME NEW d \in Connections, Live(d)'
        PROVE  Wire(d)'
    <3>1. Live(d) /\ Wire(d) /\ (SenderAt(d, Sending)' => at'[Sender].seq = seq[d])
      BY <1>2, <2>1, <2>3 DEF WireInv, Wire, SenderAt, Live
    <3>2. (Busy(d)' <=> Busy(d)) /\ (Busy(d) => UNCHANGED cur[d])
      <4>1. CASE d # e
        BY <1>2, <2>1, <4>1 DEF Busy, SenderAt, EpollAt
      <4>2. CASE d = e /\ pc[Epoll] = "disarm"
        BY <1>2, <2>1, <4>2 DEF Busy, SenderAt, EpollAt
      <4>3. CASE d = e /\ pc[Epoll] = "settle"
        <5>1. ~armed[d] /\ ~SenderAt(d, {"send", "reset", "raise", "arm"})
          BY <3>1, <4>3, Exclusive DEF EpollAt
        <5> QED BY <1>2, <2>1, <4>3, <5>1 DEF Busy, SenderAt, EpollAt
      <4> QED BY <2>1, <4>1, <4>2, <4>3
    <3> QED BY <2>1, <2>2, <3>1, <3>2, WireSame
  <2> QED BY <2>1, <2>3 DEF WireInv
<1> QED BY <1>3, <1>4, <1>5, WireAccept, WireRead DEF EpollStep

LEMMA WireClose ==
  ASSUME WriteInv, WireInv, NEW t \in Workers \cup {Epoll}, CloseStep(t)
  PROVE  WireInv'
<1> USE Names
<1> DEFINE c == Conn(t)
<1>1. /\ UNCHANGED at \/ \E m : t # Epoll /\ at' = [at EXCEPT ![t] = m]
      /\ \E to : pc' = [pc EXCEPT ![t] = to]
      /\ UNCHANGED <<cur, left, wire, asked, peer, tasks, queue>>
  BY DEF CloseStep, Close, Test, Decrement, Park, Move, Return, connVars, sendVars, queueVars
<1>2. UNCHANGED <<pc[Sender], at[Sender]>>
  BY <1>1 DEF WriteInv, SInv, ControlType
<1>3. \/ pc[Epoll] # "disarm" /\ pc'[Epoll] # "disarm"
      \/ UNCHANGED <<pc[Epoll], event>>
  BY DEF CloseStep, Close, Test, Decrement, Park, Move, WriteInv, SInv, ControlType
<1>4. Pending' \subseteq Pending
  <2>1. \A w \in Workers : at'[w] \in {at[w], NoMsg}
    BY MessageTypes DEF WriteInv, CloseStep, Close, Test, Decrement, Park, Return
  <2> QED BY <1>1, <2>1, PendingLess DEF WriteInv
<1>5. ASSUME NEW d \in Connections, Live(d)'
      PROVE  Live(d) /\ UNCHANGED <<armed[d], seq[d]>>
  <2>1. CASE Close(t)
    <3>1. /\ open' = [open EXCEPT ![c] = FALSE] /\ armed' = [armed EXCEPT ![c] = FALSE]
          /\ UNCHANGED seq
      BY <2>1 DEF Close
    <3> HIDE DEF c
    <3> QED BY <1>1, <1>5, <3>1 DEF Live, WriteInv, LeftInv
  <2>2. CASE Test(t) \/ Decrement(t)
    BY <1>5, <2>2 DEF Test, Decrement, Live, connVars, sendVars
  <2>3. CASE Park(t)
    <3>1. /\ pc[t] \in Shut /\ UNCHANGED <<open, armed>>
          /\ UNCHANGED seq \/ seq' = [seq EXCEPT ![c] = @ + 1]
      BY <2>3 DEF Park, Move, Shut, sendVars
    <3>2. d # c
      BY <1>5, <3>1 DEF WriteInv, LifeInv, Live
    <3> HIDE DEF c
    <3> QED BY <1>1, <1>5, <3>1, <3>2 DEF Live, WriteInv, SInv, RequestType
  <2> QED BY <2>1, <2>2, <2>3 DEF CloseStep
<1>6. ASSUME NEW d \in Connections, Live(d)'
      PROVE  Wire(d)'
  <2>1. Live(d) /\ UNCHANGED <<armed[d], seq[d]>>
    BY <1>5, <1>6
  <2>2. Wire(d) /\ (Busy(d)' <=> Busy(d)) /\ (SenderAt(d, Sending)' => at'[Sender].seq = seq[d])
    BY <1>2, <1>3, <2>1 DEF WireInv, Wire, Busy, SenderAt, EpollAt
  <2> QED BY <1>1, <1>4, <2>1, <2>2, WireSame
<1> QED BY <1>1, <1>6 DEF WireInv

LEMMA WireWorker ==
  ASSUME WriteInv, WireInv, NEW w \in Workers, WorkerStep(w)
  PROVE  WireInv'
<1> USE Names
<1>1. /\ UNCHANGED <<cur, left, wire, seq, asked, armed, open, peer, event>>
      /\ UNCHANGED at \/ \E m : at' = [at EXCEPT ![w] = m]
      /\ UNCHANGED pc \/ \E to : pc' = [pc EXCEPT ![w] = to]
  BY DEF WorkerStep, HandleMessage, NoReply, Lock, CheckSize, CheckCount, Count, Push, Move, Return,
         connVars, sendVars
<1>2. UNCHANGED <<pc[Sender], at[Sender], pc[Epoll]>>
  BY <1>1 DEF WriteInv, SInv, ControlType
<1>3. Pending' \subseteq Pending
  BY PendingWorker DEF WriteInv
<1> QED
  BY <1>1, <1>2, <1>3, WireAway DEF Live

LEMMA WireTake ==
  ASSUME WriteInv, WriteInv', WireInv, Take
  PROVE  WireInv'
<1> USE Names
<1> DEFINE m == queue[pos]
<1>1. /\ pc[Sender] = "throw" /\ pc' = [pc EXCEPT ![Sender] = "send"]
      /\ throw[Conn(Sender)] <= 0
      /\ cur' = [cur EXCEPT ![Conn(Sender)] = at[Sender]]
      /\ left' = [left EXCEPT ![Conn(Sender)] = Size] /\ queue' = RemoveAt(queue, pos)
      /\ UNCHANGED <<wire, armed, tasks, at, event, place, seq, open, peer, asked, throw>>
  BY DEF Take, Move, connVars
<1>2. /\ pos \in DOMAIN queue /\ at[Sender] = m /\ m \in Msg /\ m \in Known \ tasks
      /\ pc'[Sender] = "send" /\ pc'[Epoll] = pc[Epoll]
  BY <1>1, MessageTypes DEF WriteInv, SInv, Cursor, AtCursor, ControlType, MessageInv
<1>3. PICK c \in Connections : c = m.conn
  BY <1>2
<1>4. Conn(Sender) = c
  BY <1>2, <1>3 DEF Conn
<1>5. /\ cur' \in [Connections -> Msg \cup {NoMsg}] /\ cur'[c] = m /\ left'[c] = Size
      /\ \A d \in Connections : d # c => UNCHANGED <<cur[d], left[d]>>
  BY <1>1, <1>2, <1>4 DEF WireInv, WriteInv, TurnInv, Stocked
<1>6. /\ \A i \in DOMAIN queue' : queue'[i] # m
      /\ \A i \in DOMAIN queue' : \E j \in DOMAIN queue : queue'[i] = queue[j]
  BY <1>1, <1>2, MessageTaken DEF WriteInv
<1>7. \A w \in Workers : at[w] # m
  BY <1>2, NoMsgAssumption DEF WriteInv, MessageInv
<1> HIDE DEF m
<1>8. Pending' \subseteq Pending \ {m}
  BY <1>1, <1>2, <1>6, <1>7 DEF Pending
<1>9. m \in Pending
  BY <1>2 DEF Pending, m
<1>10. ASSUME NEW d \in Connections, d # c, Live(d)'
       PROVE  Wire(d)'
  <2>1. Wire(d) /\ (Busy(d)' <=> Busy(d)) /\ (SenderAt(d, Sending)' => at'[Sender].seq = seq[d])
    BY <1>1, <1>2, <1>3, <1>10 DEF WireInv, Wire, Busy, SenderAt, EpollAt, Live
  <2> QED BY <1>1, <1>5, <1>8, <1>10, <2>1, WireSame
<1>11. ASSUME Live(c)' PROVE Wire(c)'
  <2>1. Live(c) /\ Wire(c)
    BY <1>1, <1>11 DEF Live, WireInv
  <2>2. m.seq = seq[c] /\ m.conn = c /\ m.n <= asked[c] /\ m.n \notin Range(wire[c])
    BY <1>1, <1>2, <1>3, <1>9, <2>1 DEF Wire, SenderAt, Sending, Known
  <2>3. ~armed[c] /\ ~Busy(c)
    <3>1. ~(throw[c] > 0)
      BY <1>1, <1>4 DEF WriteInv, LeftInv
    <3> QED BY <1>1, <2>1, <3>1, Exclusive DEF Busy, SenderAt
  <2>4. Len(wire[c]) % Size = 0 /\ Len(wire[c]) \in Nat
    BY <2>1, <2>3, LenProperties DEF Wire, WireInv
  <2>5. (Len(wire[c]) + Size) % Size = 0 /\ Size \in 1 .. Size
    BY <2>4, OneMore, SendAssumption
  <2>6. Rest(c)'
    BY <1>1, <1>2, <1>5, <1>8, <2>2, <2>5 DEF Rest
  <2> QED BY <1>1, <1>2, <1>8, <2>1, <2>2, <2>6 DEF Wire, Busy, SenderAt
<1> QED BY <1>1, <1>5, <1>10, <1>11 DEF WireInv

LEMMA WireSend ==
  ASSUME WriteInv, WireInv, SendDone \/ SendPart
  PROVE  WireInv'
<1> USE Names
<1>1. /\ pc[Sender] = "send" /\ pc'[Epoll] = pc[Epoll]
      /\ UNCHANGED <<cur, armed, tasks, queue, at, event, seq, open, peer, asked>>
      /\ \/ pc'[Sender] = "reset" /\ \E r \in Results(Conn(Sender)) \ Partly(Conn(Sender)) : Transmit(Conn(Sender), r)
         \/ pc'[Sender] = "raise" /\ \E r \in Partly(Conn(Sender)) : Transmit(Conn(Sender), r)
  BY DEF SendDone, SendPart, Move, connVars, queueVars, WriteInv, SInv, ControlType
<1>2. PICK c \in Connections : c = Conn(Sender) /\ c = at[Sender].conn
  BY <1>1, SenderConn DEF Sending, WriteInv
<1>3. PICK r \in Results(c) : Transmit(c, r) /\ (pc'[Sender] = "raise" <=> r \in Partly(c))
                              /\ pc'[Sender] \in {"reset", "raise"}
  BY <1>1, <1>2 DEF Partly
<1>4. Pending' \subseteq Pending
  BY <1>1 DEF Pending
<1>5. \A d \in Connections : d # c => (Busy(d)' <=> Busy(d))
  BY <1>1, <1>2 DEF Busy, SenderAt, EpollAt
<1>6. \A d \in Connections : SenderAt(d, Sending)' => SenderAt(d, Sending) /\ at'[Sender].seq = at[Sender].seq
  BY <1>1 DEF SenderAt, Sending
<1>7. CASE Live(c)
  <2>1. Busy(c) /\ ~armed[c]
    BY <1>1, <1>2, <1>7, Exclusive DEF Busy, SenderAt
  <2>2. Busy(c)' <=> r \in Partly(c)
    BY <1>1, <1>2, <1>3, <2>1 DEF Busy, SenderAt
  <2> QED BY <1>1, <1>3, <1>4, <1>5, <1>6, <1>7, <2>1, <2>2, WireWritten
<1>8. CASE ~Live(c)
  <2>1. left \in [Connections -> Nat] /\ wire \in [Connections -> Seq(1 .. MaxAsk)]
        /\ peer \in [Connections -> {"open", "gone"}]
    BY DEF WriteInv, TurnInv, Stocked, WireInv
  <2>2. UNCHANGED wire /\ \A d \in Connections : d # c => left'[d] = left[d]
    <3>1. CASE ~open[c]
      BY <1>3, <3>1 DEF Transmit, Results
    <3>2. CASE peer[c] = "gone"
      BY <1>3, <2>1, <3>2 DEF Transmit
    <3> QED BY <1>8, <2>1, <3>1, <3>2 DEF Live
  <2>3. ASSUME NEW d \in Connections, Live(d)'
        PROVE  Wire(d)'
    <3>1. Live(d) /\ d # c
      BY <1>1, <1>8, <2>3 DEF Live
    <3>2. Wire(d) /\ (Busy(d)' <=> Busy(d)) /\ (SenderAt(d, Sending)' => at'[Sender].seq = seq[d])
      BY <1>5, <1>6, <3>1 DEF WireInv, Wire
    <3> QED BY <1>1, <1>4, <2>2, <3>1, <3>2, WireSame
  <2> QED BY <1>1, <2>1, <2>2, <2>3 DEF WireInv
<1> QED BY <1>7, <1>8

LEMMA WireSender ==
  ASSUME WriteInv, WriteInv', WireInv, SenderStep
  PROVE  WireInv'
<1> USE Names
<1>1. /\ UNCHANGED <<place, seq, open, peer, asked, tasks, event>>
      /\ \A w \in Workers : at'[w] = at[w]
      /\ UNCHANGED at \/ \E m : at' = [at EXCEPT ![Sender] = m]
      /\ UNCHANGED pc \/ \E to : pc' = [pc EXCEPT ![Sender] = to]
  BY MessageTypes DEF SenderStep, Wake, EndOfWalk, Expired, Current, Skip, Take, SendDone, SendPart, Reset,
         Raise, Arm, Move, connVars, threadVars, queueVars, WriteInv
<1>2. UNCHANGED pc[Epoll]
  BY <1>1 DEF WriteInv, SInv, ControlType
<1>3. ASSUME UNCHANGED <<left, wire>>, Pending' \subseteq Pending,
             cur' \in [Connections -> Msg \cup {NoMsg}],
             \A d \in Connections : Live(d) =>
               /\ Busy(d)' <=> Busy(d)
               /\ Busy(d) => UNCHANGED cur[d]
               /\ SenderAt(d, Sending)' => at'[Sender].seq = seq[d]
      PROVE  WireInv'
  <2>1. ASSUME NEW d \in Connections, Live(d)' PROVE Wire(d)'
    <3>1. Live(d) /\ Wire(d)
      BY <1>1, <2>1 DEF Live, WireInv
    <3> QED BY <1>1, <1>3, <3>1, WireSame
  <2> QED BY <1>3, <2>1 DEF WireInv
<1>4. CASE Wake \/ EndOfWalk \/ Expired \/ Skip
  <2>1. /\ UNCHANGED <<cur, left, wire, armed>>
        /\ pc[Sender] \notin {"send", "raise", "arm"} /\ pc'[Sender] \in {"wait", "walk"}
    BY <1>4 DEF Wake, EndOfWalk, Expired, Skip, Move, sendVars, threadVars, WriteInv, SInv, ControlType
  <2>2. Pending' \subseteq Pending
    <3>1. CASE Expired
      <4>1. pos \in DOMAIN queue /\ queue' = RemoveAt(queue, pos)
        BY <3>1, MessageTypes DEF Expired, WriteInv, SInv, ControlType
      <4>2. \A i \in DOMAIN queue' : \E j \in DOMAIN queue : queue'[i] = queue[j]
        BY <1>1, <4>1, MessageTaken DEF WriteInv
      <4> QED BY <1>1, <4>2 DEF Pending
    <3>2. CASE Wake \/ EndOfWalk \/ Skip
      <4>1. UNCHANGED queue
        BY <3>2 DEF Wake, EndOfWalk, Skip
      <4> QED BY <1>1, <4>1 DEF Pending
    <3> QED BY <1>4, <3>1, <3>2
  <2>3. \A d \in Connections : (Busy(d)' <=> Busy(d)) /\ ~SenderAt(d, Sending)'
    BY <1>1, <1>2, <2>1 DEF Busy, SenderAt, EpollAt, Sending
  <2> QED BY <1>3, <2>1, <2>2, <2>3 DEF WireInv
<1>5. CASE Current
  <2>1. /\ UNCHANGED <<cur, left, wire, armed, queue>> /\ pos \in DOMAIN queue
        /\ pc[Sender] = "walk" /\ pc'[Sender] = "throw" /\ at'[Sender] = queue[pos]
        /\ seq[queue[pos].conn] = queue[pos].seq
    BY <1>5, MessageTypes DEF Current, Move, sendVars, queueVars, WriteInv, SInv, ControlType
  <2>2. Pending' \subseteq Pending
    BY <1>1, <2>1 DEF Pending
  <2>3. \A d \in Connections : (Busy(d)' <=> Busy(d)) /\ (SenderAt(d, Sending)' => at'[Sender].seq = seq[d])
    BY <1>1, <1>2, <2>1 DEF Busy, SenderAt, EpollAt
  <2> QED BY <1>3, <2>1, <2>2, <2>3 DEF WireInv
<1>6. CASE Raise \/ Arm \/ Reset
  <2>1. /\ UNCHANGED <<left, wire, queue>>
        /\ \/ pc[Sender] = "raise" /\ pc'[Sender] = "arm" /\ UNCHANGED <<cur, armed, at>>
           \/ pc[Sender] = "arm" /\ pc'[Sender] = "walk" /\ UNCHANGED cur
              /\ armed' = [armed EXCEPT ![Conn(Sender)] = open[Conn(Sender)]]
           \/ pc[Sender] = "reset" /\ pc'[Sender] = "walk" /\ UNCHANGED armed
              /\ cur' = [cur EXCEPT ![Conn(Sender)] = NoMsg]
    BY <1>6 DEF Raise, Arm, Reset, Move, queueVars, WriteInv, SInv, ControlType
  <2>2. PICK c \in Connections : c = Conn(Sender) /\ c = at[Sender].conn
    BY <2>1, SenderConn DEF Sending, WriteInv
  <2>3. Pending' \subseteq Pending
    BY <1>1, <2>1 DEF Pending
  <2>4. /\ cur' \in [Connections -> Msg \cup {NoMsg}]
        /\ \A d \in Connections : d # c => UNCHANGED <<cur[d], armed[d]>>
        /\ pc[Sender] = "arm" => (armed'[c] <=> open[c])
    BY <2>1, <2>2 DEF WireInv, WriteInv, LeftInv
  <2>5. ASSUME NEW d \in Connections, Live(d)
        PROVE  /\ Busy(d)' <=> Busy(d)
               /\ Busy(d) => UNCHANGED cur[d]
               /\ SenderAt(d, Sending)' => at'[Sender].seq = seq[d]
    <3>1. SenderAt(d, Sending)' => at'[Sender].seq = seq[d]
      BY <2>1, <2>5 DEF SenderAt, Sending, WireInv, Wire
    <3>2. CASE d # c
      BY <1>1, <1>2, <2>1, <2>2, <2>4, <3>1, <3>2 DEF Busy, SenderAt, EpollAt
    <3>3. CASE d = c /\ pc[Sender] = "raise"
      BY <1>1, <1>2, <2>1, <2>2, <3>1, <3>3 DEF Busy, SenderAt, EpollAt
    <3>4. CASE d = c /\ pc[Sender] = "arm"
      <4>1. armed'[d] /\ ~armed[d] /\ ~EpollAt(d, {"disarm"})
        BY <2>2, <2>4, <2>5, <3>4, Exclusive DEF SenderAt, Live
      <4> QED BY <1>1, <1>2, <2>1, <2>2, <3>1, <3>4, <4>1 DEF Busy, SenderAt, EpollAt
    <3>5. CASE d = c /\ pc[Sender] = "reset"
      <4>1. ~armed[d]
        BY <2>2, <2>5, <3>5, Exclusive DEF SenderAt
      <4> QED BY <1>1, <1>2, <2>1, <2>2, <3>1, <3>5, <4>1 DEF Busy, SenderAt, EpollAt
    <3> QED BY <2>1, <3>2, <3>3, <3>4, <3>5
  <2> QED BY <1>3, <2>1, <2>3, <2>4, <2>5
<1> QED BY <1>4, <1>5, <1>6, WireTake, WireSend DEF SenderStep

LEMMA WireStep ==
  ASSUME WriteInv, WriteInv', WireInv, [Next]_vars
  PROVE  WireInv'
<1>1. CASE ClientStep \/ UNCHANGED vars
  <2>1. UNCHANGED <<cur, left, wire, seq, asked, armed, open, tasks, queue, at, pc, event>>
    BY <1>1 DEF ClientStep, Send, Leave, vars, connVars, sendVars, queueVars, threadVars
  <2>2. \A d \in Connections : Live(d)' => Live(d)
    BY <1>1, SendAssumption DEF ClientStep, Send, Leave, vars, connVars, Live, WriteInv, TurnInv
  <2>3. Pending' \subseteq Pending
    BY <2>1 DEF Pending
  <2> QED BY <2>1, <2>2, <2>3, WireAway
<1>2. ASSUME NEW c \in Connections, Recycle(c)
      PROVE  WireInv'
  <2>1. /\ place[c] = "parked" /\ cur' = [cur EXCEPT ![c] = NoMsg]
        /\ seq' = [seq EXCEPT ![c] = @ + 1]
        /\ UNCHANGED <<left, wire, asked, armed, open, peer, tasks, queue, at, pc, event>>
    BY <1>2 DEF Recycle, queueVars, threadVars
  <2>2. ~open[c] /\ \A d \in Connections : d # c => UNCHANGED <<cur[d], seq[d]>>
    BY <2>1 DEF WriteInv, LifeInv, WireInv, SInv, RequestType
  <2>3. cur' \in [Connections -> Msg \cup {NoMsg}]
    BY <2>1 DEF WireInv
  <2>4. Pending' \subseteq Pending
    BY <2>1 DEF Pending
  <2>5. ASSUME NEW d \in Connections, Live(d)'
        PROVE  Wire(d)'
    <3>1. Live(d) /\ d # c
      BY <2>1, <2>2, <2>5 DEF Live
    <3>2. Wire(d) /\ (Busy(d)' <=> Busy(d)) /\ (SenderAt(d, Sending)' => at'[Sender].seq = seq[d])
      BY <2>1, <3>1 DEF WireInv, Wire, Busy, SenderAt, EpollAt
    <3> QED BY <2>1, <2>2, <2>4, <3>1, <3>2, WireSame
  <2> QED BY <2>1, <2>3, <2>5 DEF WireInv
<1> QED BY <1>1, <1>2, WireEpoll, WireClose, WireWorker, WireSender DEF Next

LEMMA WireInit ==
  ASSUME Init
  PROVE  WireInv
<1>1. /\ cur = [c \in Connections |-> NoMsg] /\ wire = [c \in Connections |-> <<>>]
      /\ open = [c \in Connections |-> FALSE]
  BY DEF Init
<1> QED BY <1>1, EmptySeq DEF WireInv, Live

-----------------------------------------------------------------------------
(* The refinement *)

LEMMA StreamWrite ==
  ASSUME WireInv, left \in [Connections -> Nat], NEW c \in Connections, Live(c), Busy(c),
         NEW r \in Results(c), Transmit(c, r), UNCHANGED asked
  PROVE  [Stream!Next]_<<asked, wire>>
<1> DEFINE n == cur[c].n
           k == Len(wire[c])
           l == left[c]
<1>1. Wire(c) /\ Rest(c)
  BY DEF WireInv, Wire
<1>2. /\ wire[c] \in Seq(1 .. MaxAsk) /\ k \in Nat /\ n \in 1 .. MaxAsk /\ Size \in Nat \ {0}
      /\ l \in 1 .. Size /\ (k + l) % Size = 0 /\ open[c] /\ peer[c] = "open" /\ n <= asked[c]
      /\ IF l = Size THEN n \notin Range(wire[c]) ELSE n = wire[c][k]
  BY <1>1, SendAssumption, LenProperties DEF WireInv, Rest, Msg, Live
<1>3. r = -1 \/ r \in 1 .. l
  BY <1>2 DEF Results
<1>4. CASE r = -1
  BY <1>4 DEF Transmit
<1>5. CASE r \in 1 .. l
  <2>1. k % Size = IF l = Size THEN 0 ELSE Size - l
    BY <1>2, Unfinished
  <2> HIDE DEF n, k, l
  <2>2. Stream!Missing(c) = IF l = Size THEN 0 ELSE l
    BY <1>2, <2>1 DEF Stream!Missing, k
  <2>3. r > 0 /\ peer[c] # "gone" /\ r \in 1 .. Size /\ r <= l /\ r <= Size
    BY <1>2, <1>5
  <2>4. wire' = [wire EXCEPT ![c] = @ \o [i \in 1 .. r |-> n]]
    BY <2>3, Zenon DEF Transmit, n
  <2>5. IF Stream!Missing(c) > 0
        THEN n = wire[c][Len(wire[c])] /\ r <= Stream!Missing(c)
        ELSE n \notin Range(wire[c]) /\ r <= Size
    BY <1>2, <2>2, <2>3 DEF k
  <2>6. Stream!Write(c, n, r)
    BY <2>4, <2>5 DEF Stream!Write, Stream!Range, Range
  <2>7. n \in 1 .. asked[c]
    <3>1. n \in Int /\ 1 <= n
      BY <1>2
    <3> QED BY <1>2, <3>1
  <2> QED BY <2>3, <2>6, <2>7 DEF Stream!Next
<1> QED BY <1>3, <1>4, <1>5

\* What is written to a client that is not there is not received.
LEMMA NotReceived ==
  ASSUME WireInv, TurnInv, NEW c, ~(c \in Connections /\ Live(c)),
         NEW r \in Results(c), Transmit(c, r)
  PROVE  UNCHANGED wire
<1>1. /\ left \in [Connections -> Nat] /\ wire \in [Connections -> Seq(1 .. MaxAsk)]
      /\ peer \in [Connections -> {"open", "gone"}]
  BY DEF TurnInv, Stocked, WireInv
<1>2. CASE c \notin Connections
  BY <1>1, <1>2 DEF Transmit
<1>3. CASE ~open[c]
  BY <1>3 DEF Transmit, Results
<1>4. CASE peer[c] = "gone"
  BY <1>4 DEF Transmit
<1> QED BY <1>1, <1>2, <1>3, <1>4 DEF Live

LEMMA StreamStep ==
  ASSUME WriteInv, WireInv, [Next]_vars
  PROVE  [Stream!Next]_<<asked, wire>>
<1> USE Names
<1>1. ASSUME NEW c \in Connections, EventAccept(c)
      PROVE  [Stream!Next]_<<asked, wire>>
  <2>1. Stream!Accept(c)
    BY <1>1 DEF EventAccept, Stream!Accept
  <2> QED BY <2>1 DEF Stream!Next
<1>2. CASE ReadPacket
  <2>1. /\ pc[Epoll] = "read" /\ asked' = [asked EXCEPT ![event.conn] = @ + 1] /\ UNCHANGED wire
    BY <1>2 DEF ReadPacket, Move, sendVars
  <2>2. PICK c \in Connections : c = event.conn
    BY <2>1 DEF WriteInv, SInv, RequestType
  <2>3. Stream!Ask(c)
    BY <2>1, <2>2 DEF Stream!Ask
  <2> QED BY <2>3 DEF Stream!Next
<1>3. CASE WriteSome \/ WriteRest
  <2> DEFINE e == event.conn
  <2>1. /\ pc[Epoll] = "write" /\ event.out /\ ~event.hup /\ UNCHANGED asked
        /\ \E r \in Results(e) : Transmit(e, r)
    BY <1>3 DEF WriteSome, WriteRest, Move, connVars, Partly
  <2>2. CASE e \in Connections /\ Live(e)
    <3>1. PICK c \in Connections : c = e /\ Live(c)
      BY <2>2
    <3>2. Busy(c)
      BY <2>1, <3>1, Exclusive DEF Writing, EpollAt, Before, Busy
    <3>3. PICK r \in Results(c) : Transmit(c, r)
      BY <2>1, <3>1
    <3> QED BY <2>1, <3>1, <3>2, <3>3, StreamWrite DEF WriteInv, TurnInv, Stocked
  <2>3. CASE ~(e \in Connections /\ Live(e))
    <3>1. PICK r \in Results(e) : Transmit(e, r)
      BY <2>1
    <3>2. UNCHANGED wire
      BY <2>3, <3>1, NotReceived DEF WriteInv
    <3> QED BY <2>1, <3>2
  <2> QED BY <2>2, <2>3
<1>4. CASE SendDone \/ SendPart
  <2>1. /\ pc[Sender] = "send" /\ UNCHANGED asked
        /\ \E r \in Results(Conn(Sender)) : Transmit(Conn(Sender), r)
    BY <1>4 DEF SendDone, SendPart, Move, connVars, Partly
  <2>2. PICK c \in Connections : c = Conn(Sender) /\ c = at[Sender].conn
    BY <2>1, SenderConn DEF Sending, WriteInv
  <2>3. PICK r \in Results(c) : Transmit(c, r)
    BY <2>1, <2>2
  <2>4. Busy(c)
    BY <2>1, <2>2 DEF Busy, SenderAt
  <2>5. CASE Live(c)
    BY <2>1, <2>3, <2>4, <2>5, StreamWrite DEF WriteInv, TurnInv, Stocked
  <2>6. CASE ~Live(c)
    <3>1. UNCHANGED wire
      BY <2>3, <2>6, NotReceived DEF WriteInv
    <3> QED BY <2>1, <3>1
  <2> QED BY <2>5, <2>6
<1>5. CASE \/ ClientStep \/ UNCHANGED vars
           \/ \E c \in Connections : EpollEvent(c) \/ KickOverdue(c) \/ Recycle(c)
           \/ ReadPart \/ ReadFlood \/ ReadClosed \/ NoWrite \/ HangUp \/ WriteFailed \/ Disarm \/ Settle
  BY <1>5 DEF ClientStep, Send, Leave, vars, connVars, sendVars, EpollEvent, KickOverdue, Recycle,
     ReadPart, ReadFlood, ReadClosed, NoWrite, HangUp, WriteFailed, Disarm, Settle
<1>6. ASSUME NEW t \in Workers \cup {Epoll}, CloseStep(t)
      PROVE  UNCHANGED <<asked, wire>>
  BY <1>6 DEF CloseStep, Close, Test, Decrement, Park, connVars, sendVars
<1>7. ASSUME NEW w \in Workers, WorkerStep(w)
      PROVE  UNCHANGED <<asked, wire>>
  BY <1>7 DEF WorkerStep, HandleMessage, NoReply, Lock, CheckSize, CheckCount, Count, Push, connVars, sendVars
<1>8. CASE SenderStep /\ ~(SendDone \/ SendPart)
  BY <1>8 DEF SenderStep, Wake, EndOfWalk, Expired, Current, Skip, Take, Reset, Raise, Arm, connVars, sendVars
<1> QED BY <1>1, <1>2, <1>3, <1>4, <1>5, <1>6, <1>7, <1>8 DEF Next, EpollStep

\* What a client receives is what ReplyStream allows: whole replies to its own
\* requests, one after the other and each at most once, although two threads
\* write them, in pieces, to Connections that are closed under both and reused;
\* as long as no client half-closes its socket.
THEOREM WholeReplies ==
  ASSUME "half" \notin Leaving
  PROVE  Spec => Replies
<1>1. Init => WriteInv /\ WireInv /\ Stream!Init
  BY WriteInit, WireInit DEF Init, Stream!Init
<1>2. WriteInv /\ WireInv /\ [Next]_vars => WriteInv' /\ WireInv' /\ [Stream!Next]_<<asked, wire>>
  BY WriteStep, WireStep, StreamStep
<1> QED BY <1>1, <1>2, PTL DEF Spec, Replies, Stream!Spec
=============================================================================
