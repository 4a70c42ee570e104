--------------------------- MODULE ConnectionPool ---------------------------
(***************************************************************************)
(* The life cycle of a Connection object in one worker process: taken from *)
(* free_connection_pool_ by the epoll thread, closed by the epoll thread   *)
(* or by a pool thread, parked in recycle_connection_pool_ and given back  *)
(* by the recycle thread once recycle_connection_wait_time_ has passed.    *)
(*                                                                         *)
(* A Connection is reached through bare pointers: by epoll's data.ptr, by  *)
(* the header of every message in the task queue and in the send queue.    *)
(* Nothing counts those pointers.  What keeps a pointer good is the        *)
(* sequence number copied next to it and the delay before reuse; this      *)
(* module is about those two.                                              *)
(*                                                                         *)
(* Timestamps are modelled by their differences: age[c] is the time since  *)
(* c was parked and hold[t] the time since thread t obtained the pointers  *)
(* it is working with, both in ticks.  The heartbeat timer is reduced to   *)
(* the calls it makes (KickOverdue); the send buffers are not here.        *)
(***************************************************************************)
EXTENDS Integers, Sequences, FiniteSets

CONSTANTS
  NListeners,   \* listening sockets, the first Connections handed out
  N,            \* worker_connections_
  PoolLimit,    \* worker_connections_ * 5
  RecycleWait,  \* recycle_connection_wait_time_, in ticks
  MaxHold,      \* longest time a thread works with the pointers it obtained,
                \* and the timer keeps that of a parked Connection
  Fds,          \* descriptors the kernel may hand out
  Clients,      \* clients, each of which connects once
  Workers,      \* threads of g_threadpool
  Kickers,      \* the workers that may reach the kick in MsgSend
  Epoll,        \* the epoll thread
  Sender,       \* the thread running SendQueueThread
  NoFd, NoClient

ASSUME SizesAssumption ==
  /\ NListeners \in Nat
  /\ N \in Nat \ {0}
  /\ NListeners <= N
  /\ PoolLimit \in Nat
  /\ N <= PoolLimit

\* A thread is done with a pointer before the object behind it can be
\* reused: the reason for the delayed recycling.
ASSUME GraceAssumption ==
  /\ RecycleWait \in Nat
  /\ MaxHold \in Nat
  /\ MaxHold < RecycleWait

ASSUME NamesAssumption ==
  /\ Epoll \notin Workers
  /\ Sender \notin Workers
  /\ Epoll # Sender
  /\ Kickers \subseteq Workers
  /\ NoFd \notin Fds
  /\ NoClient \notin Clients

Handlers == Workers \cup {Sender}
Threads  == Handlers \cup {Epoll}

\* connection_id_ of every Connection the checks of EventAccept allow for.
Conn == 0 .. PoolLimit
NoConn == -1

\* The Connections Epoll_init bound to the listening sockets.
Listening == 0 .. NListeners - 1

\* A descriptor in the kernel: whose socket it is, and the data.ptr epoll
\* returns for it.
Socket == [client : Clients \cup {NoClient}, conn : Conn \cup {NoConn}]
Closed == [client |-> NoClient, conn |-> NoConn]

\* MsgHeader, with the client the message came from (which the program does
\* not store) and the queue the message is in.
Header == [conn : Conn, seq : Nat, from : Clients \cup {NoClient},
           kind : {"request", "reply"}]
NoHeader == [conn |-> 0, seq |-> 0, from |-> NoClient, kind |-> "request"]

VARIABLES
  free,      \* free_connection_pool_
  total,     \* connection_pool_.size()
  recycle,   \* the keys of recycle_connection_pool_
  age,       \* now - recycle_time, for the parked Connections
  seq,       \* sequence_num
  fd,        \* Connection::fd
  online,    \* online_user_count_
  sock,      \* the kernel's descriptors
  waiting,   \* clients that have not been accepted
  robbed,    \* ghost: Connections whose socket has been closed by a closer of
             \* another one, which another closer had closed already
  msgs,      \* headers in the task queue and in the send queue
  pc,        \* what each thread is doing
  ref,       \* the Connection* it is working with
  lfd,       \* the descriptor it has accepted
  hdr,       \* the message it is handling
  hold,      \* how long it has been working with its pointers
  batch,     \* the epoll events not yet dispatched
  again,     \* ReadRequestHandler will close the Connection a second time
  rpc,       \* the recycle thread
  todo       \* what it found due in this pass

poolVars   == <<free, total, recycle, age, seq, fd, online>>
kernelVars == <<sock, waiting, robbed>>
threadVars == <<pc, ref, lfd, hdr, hold, batch, again>>
vars == <<poolVars, kernelVars, msgs, threadVars, rpc, todo>>

-----------------------------------------------------------------------------
\* The Connections constructed so far.
Created == 0 .. total - 1

InFree == {free[i] : i \in DOMAIN free}

\* The Connection the epoll thread has obtained and not yet counted online.
Fresh == IF pc[Epoll] = "obtained" THEN {ref[Epoll]} ELSE {}

\* The Connections that stand for a client.
InUse == Created \ (Listening \cup InFree \cup recycle \cup Fresh)

\* Inside zd_close_socket_proc.
Closing == {"zd_check", "zd_close", "zd_clear", "zd_recycle"}

\* Where a thread can be, and for how long.
Control == {"idle", "batch", "accepted", "obtained", "handling"} \cup Closing
Span == 0 .. MaxHold

\* How long a Connection has been parked; beyond RecycleWait it does not matter.
Ages == 0 .. RecycleWait

\* The Connection pointers a thread may still follow.
Held(t) ==
  (IF pc[t] \in Closing \cup {"handling"} THEN {ref[t]} ELSE {})
    \cup (IF t = Epoll THEN batch \ Listening ELSE {})

Init ==
  /\ free = [i \in 1 .. N - NListeners |-> NListeners + i - 1]
  /\ total = N
  /\ recycle = {}
  /\ age = [c \in Conn |-> 0]
  /\ seq = [c \in Conn |-> IF c < NListeners THEN 2 ELSE IF c < N THEN 1 ELSE 0]
  /\ fd = [c \in Conn |-> NoFd]
  /\ online = 0
  /\ sock = [f \in Fds |-> Closed]
  /\ waiting = Clients
  /\ robbed = {}
  /\ msgs = {}
  /\ pc = [t \in Threads |-> "idle"]
  /\ ref = [t \in Threads |-> 0]
  /\ lfd = [t \in Threads |-> NoFd]
  /\ hdr = [t \in Threads |-> NoHeader]
  /\ hold = [t \in Threads |-> 0]
  /\ batch = {}
  /\ again = FALSE
  /\ rpc = "wait"
  /\ todo = {}

-----------------------------------------------------------------------------
(* The epoll thread: Epoll_Process_Events *)

\* What epoll_wait can return: the data.ptr of the registered descriptors.
Ready == ({sock[f].conn : f \in Fds} \ {NoConn})
           \cup (IF waiting = {} THEN {} ELSE Listening)

EpollWait ==
  /\ pc[Epoll] = "idle"
  /\ \E events \in SUBSET Ready \ {{}} : batch' = events
  /\ pc' = [pc EXCEPT ![Epoll] = "batch"]
  /\ hold' = [hold EXCEPT ![Epoll] = 0]
  /\ UNCHANGED <<poolVars, kernelVars, msgs, ref, lfd, hdr, again, rpc, todo>>

\* Where the epoll thread goes when the handler of an event returns.
NextEvent == IF batch' = {} THEN "idle" ELSE "batch"

\* A thread's locals go out of scope.
Forget(t) ==
  /\ ref' = [ref EXCEPT ![t] = 0]
  /\ lfd' = [lfd EXCEPT ![t] = NoFd]
  /\ hdr' = [hdr EXCEPT ![t] = NoHeader]
  /\ hold' = IF t = Epoll THEN hold ELSE [hold EXCEPT ![t] = 0]

\* The epoll thread starts on event c of the batch.
Dispatch(c) ==
  /\ pc[Epoll] = "batch"
  /\ c \in batch
  /\ batch' = batch \ {c}
  /\ UNCHANGED <<hold, rpc, todo>>

\* EventAccept's two reasons to close the new socket at once.
Refused ==
  \/ online >= N
  \/ total > PoolLimit /\ Len(free) < N

AcceptNothing(l) ==
  /\ l \in Listening
  /\ Dispatch(l)
  /\ pc' = [pc EXCEPT ![Epoll] = NextEvent]
  /\ UNCHANGED <<poolVars, kernelVars, msgs, ref, lfd, hdr, again>>

AcceptRefuse(l, k) ==
  /\ l \in Listening
  /\ Dispatch(l)
  /\ k \in waiting
  /\ Refused
  /\ waiting' = waiting \ {k}
  /\ pc' = [pc EXCEPT ![Epoll] = NextEvent]
  /\ UNCHANGED <<poolVars, sock, robbed, msgs, ref, lfd, hdr, again>>

Accept(l, k, f) ==
  /\ l \in Listening
  /\ Dispatch(l)
  /\ k \in waiting
  /\ sock[f] = Closed
  /\ ~Refused
  /\ waiting' = waiting \ {k}
  /\ sock' = [sock EXCEPT ![f] = [client |-> k, conn |-> NoConn]]
  /\ pc' = [pc EXCEPT ![Epoll] = "accepted"]
  /\ lfd' = [lfd EXCEPT ![Epoll] = f]
  /\ UNCHANGED <<poolVars, robbed, msgs, ref, hdr, again>>

\* Under connection_pool_mutex_: the oldest free Connection, or a new one.
GetConnection ==
  /\ pc[Epoll] = "accepted"
  /\ LET c == IF free = <<>> THEN total ELSE Head(free)
     IN  /\ ref' = [ref EXCEPT ![Epoll] = c]
         /\ seq' = [seq EXCEPT ![c] = @ + 1]
         /\ fd' = [fd EXCEPT ![c] = lfd[Epoll]]
  /\ free' = IF free = <<>> THEN free ELSE Tail(free)
  /\ total' = IF free = <<>> THEN total + 1 ELSE total
  /\ pc' = [pc EXCEPT ![Epoll] = "obtained"]
  /\ UNCHANGED <<recycle, age, online, kernelVars, msgs, lfd, hdr, hold, batch,
                 again, rpc, todo>>

\* Epoll_Oper_Event(ADD) succeeds: events for the socket carry the Connection.
Register ==
  /\ pc[Epoll] = "obtained"
  /\ sock[lfd[Epoll]] # Closed
  /\ sock' = [sock EXCEPT ![lfd[Epoll]].conn = ref[Epoll]]
  /\ online' = online + 1
  /\ batch' = batch
  /\ pc' = [pc EXCEPT ![Epoll] = NextEvent]
  /\ Forget(Epoll)
  /\ UNCHANGED <<free, total, recycle, age, seq, fd, waiting, robbed, msgs, again,
                 rpc, todo>>

\* It fails (or SetNonBlocking does): the Connection goes straight back.
CloseConnection ==
  /\ pc[Epoll] = "obtained"
  /\ LET c == ref[Epoll]
     IN  /\ free' = Append(free, c)
         /\ seq' = [seq EXCEPT ![c] = @ + 1]
         /\ fd' = [fd EXCEPT ![c] = NoFd]
         /\ sock' = [sock EXCEPT ![fd[c]] = Closed]
  /\ batch' = batch
  /\ pc' = [pc EXCEPT ![Epoll] = NextEvent]
  /\ Forget(Epoll)
  /\ UNCHANGED <<total, recycle, age, online, waiting, robbed, msgs, again, rpc,
                 todo>>

\* recv on c's descriptor can return data: the descriptor is open.
Readable(c) == fd[c] # NoFd /\ sock[fd[c]] # Closed

\* Part of a packet, EAGAIN, EINTR or an illegal length.
ReadNothing(c) ==
  /\ c \notin Listening
  /\ Dispatch(c)
  /\ Readable(c)
  /\ pc' = [pc EXCEPT ![Epoll] = NextEvent]
  /\ UNCHANGED <<poolVars, kernelVars, msgs, ref, lfd, hdr, again>>

\* A packet is complete: its header goes to the task queue.
ReadPacket(c) ==
  /\ c \notin Listening
  /\ Dispatch(c)
  /\ Readable(c)
  /\ msgs' = msgs \cup {[conn |-> c, seq |-> seq[c], kind |-> "request",
                         from |-> sock[fd[c]].client]}
  /\ pc' = [pc EXCEPT ![Epoll] = NextEvent]
  /\ UNCHANGED <<poolVars, kernelVars, ref, lfd, hdr, again>>

\* The packet makes a flood: WaitRequestHandlerProcPlast closes c, and
\* ReadRequestHandler closes it again.
ReadFlood(c) ==
  /\ c \notin Listening
  /\ Dispatch(c)
  /\ Readable(c)
  /\ pc' = [pc EXCEPT ![Epoll] = "zd_check"]
  /\ ref' = [ref EXCEPT ![Epoll] = c]
  /\ again' = TRUE
  /\ UNCHANGED <<poolVars, kernelVars, msgs, lfd, hdr>>

\* End of stream, or any other error, EBADF for a closed c among them.
ReadClosed(c) ==
  /\ c \notin Listening
  /\ Dispatch(c)
  /\ pc' = [pc EXCEPT ![Epoll] = "zd_check"]
  /\ ref' = [ref EXCEPT ![Epoll] = c]
  /\ again' = FALSE
  /\ UNCHANGED <<poolVars, kernelVars, msgs, lfd, hdr>>

\* TimerHeartBeatCheck, between two calls of epoll_wait, closes the
\* Connection of an expired timer (the list of expired timers is walked one
\* Connection at a time).  The Connection may have been parked since; the
\* timer has had the pointer all that time.
KickOverdue(c) ==
  /\ pc[Epoll] = "idle"
  /\ c \in InUse \/ (c \in recycle /\ age[c] <= MaxHold)
  /\ pc' = [pc EXCEPT ![Epoll] = "zd_check"]
  /\ ref' = [ref EXCEPT ![Epoll] = c]
  /\ hold' = [hold EXCEPT ![Epoll] = IF c \in recycle THEN age[c] ELSE 0]
  /\ again' = FALSE
  /\ UNCHANGED <<poolVars, kernelVars, msgs, lfd, hdr, batch, rpc, todo>>

-----------------------------------------------------------------------------
(* zd_close_socket_proc, run by the epoll thread and by the pool threads *)

ZdCheck(t) ==
  /\ pc[t] = "zd_check"
  /\ pc' = [pc EXCEPT ![t] = IF fd[ref[t]] = NoFd THEN "zd_recycle"
                                                  ELSE "zd_close"]
  /\ UNCHANGED <<poolVars, kernelVars, msgs, ref, lfd, hdr, hold, batch, again,
                 rpc, todo>>

\* Mutant of ZdClose: the descriptor is forgotten without being closed.
MutZdCloseNoClose(t) ==
  /\ pc[t] = "zd_close"
  /\ pc' = [pc EXCEPT ![t] = "zd_clear"]
  /\ UNCHANGED <<poolVars, kernelVars, msgs, ref, lfd, hdr, hold, batch, again,
                 rpc, todo>>

\* Another thread has closed c's descriptor and not yet forgotten it, or has
\* done that to a Connection with the same descriptor.
Lost(t, c) ==
  \/ \E u \in Threads \ {t} : pc[u] = "zd_clear" /\ ref[u] = c
  \/ c \in robbed

\* fd is read again.  close() also takes the descriptor out of the epoll set.
ZdClose(t) ==
  /\ pc[t] = "zd_close"
  /\ LET c == ref[t]
         f == fd[c]
     IN  IF f = NoFd
         THEN UNCHANGED <<sock, robbed>>
         ELSE /\ sock' = [sock EXCEPT ![f] = Closed]
              /\ robbed' = IF Lost(t, c) /\ sock[f].conn \notin {c, NoConn}
                           THEN robbed \cup {sock[f].conn} ELSE robbed
  /\ pc' = [pc EXCEPT ![t] = "zd_clear"]
  /\ UNCHANGED <<poolVars, waiting, msgs, ref, lfd, hdr, hold, batch, again,
                 rpc, todo>>

\* Mutant of ZdClear: fd keeps its value.
MutZdClearNot(t) ==
  /\ pc[t] = "zd_clear"
  /\ pc' = [pc EXCEPT ![t] = "zd_recycle"]
  /\ UNCHANGED <<poolVars, kernelVars, msgs, ref, lfd, hdr, hold, batch, again,
                 rpc, todo>>

ZdClear(t) ==
  /\ pc[t] = "zd_clear"
  /\ fd' = [fd EXCEPT ![ref[t]] = NoFd]
  /\ robbed' = robbed \ {ref[t]}
  /\ pc' = [pc EXCEPT ![t] = "zd_recycle"]
  /\ UNCHANGED <<free, total, recycle, age, seq, online, sock, waiting, msgs, ref,
                 lfd, hdr, hold, batch, again, rpc, todo>>

\* Where a thread goes when zd_close_socket_proc returns.
Return(t) ==
  IF t = Epoll /\ again
  THEN /\ pc' = [pc EXCEPT ![t] = "zd_check"]
       /\ again' = FALSE
       /\ UNCHANGED <<ref, lfd, hdr, hold>>
  ELSE /\ pc' = [pc EXCEPT ![t] = IF t = Epoll THEN NextEvent ELSE "idle"]
       /\ Forget(t)
       /\ UNCHANGED again

\* Mutant of InRecyConnectQueue: no look whether the Connection is already
\* parked.
MutInRecyNoCount(t) ==
  /\ pc[t] = "zd_recycle"
  /\ rpc = "wait"
  /\ LET c == ref[t]
     IN  /\ recycle' = recycle \cup {c}
         /\ age' = [age EXCEPT ![c] = 0]
         /\ seq' = [seq EXCEPT ![c] = @ + 1]
         /\ online' = online - 1
  /\ batch' = batch
  /\ Return(t)
  /\ UNCHANGED <<free, total, fd, kernelVars, msgs, rpc, todo>>

\* Under recycle_connection_pool_mutex_, which the recycle thread holds for
\* the whole of a pass.
InRecyConnectQueue(t) ==
  /\ pc[t] = "zd_recycle"
  /\ rpc = "wait"
  /\ LET c == ref[t]
     IN  IF c \in recycle
         THEN UNCHANGED <<recycle, age, seq, online>>
         ELSE /\ recycle' = recycle \cup {c}
              /\ age' = [age EXCEPT ![c] = 0]
              /\ seq' = [seq EXCEPT ![c] = @ + 1]
              /\ online' = online - 1
  /\ batch' = batch
  /\ Return(t)
  /\ UNCHANGED <<free, total, fd, kernelVars, msgs, rpc, todo>>

-----------------------------------------------------------------------------
(* Messages: HandleMessage in the pool threads, SendQueueThread *)

\* The queue a thread serves.
Serves(t) == IF t = Sender THEN "reply" ELSE "request"

\* A message leaves its queue, unless another with the same header is there.
Take(m) == \E rest \in {msgs, msgs \ {m}} : msgs' = rest

\* The sequence number has moved on: the message is dropped.
Drop(t, m) ==
  /\ t \in Handlers
  /\ pc[t] = "idle"
  /\ m \in msgs
  /\ m.kind = Serves(t)
  /\ seq[m.conn] # m.seq
  /\ Take(m)
  /\ UNCHANGED <<poolVars, kernelVars, threadVars, rpc, todo>>

\* Mutant of Begin: the sequence number is not looked at.
MutBeginNoSeqCheck(t, m) ==
  /\ t \in Handlers
  /\ pc[t] = "idle"
  /\ m \in msgs
  /\ m.kind = Serves(t)
  /\ Take(m)
  /\ pc' = [pc EXCEPT ![t] = "handling"]
  /\ ref' = [ref EXCEPT ![t] = m.conn]
  /\ hdr' = [hdr EXCEPT ![t] = m]
  /\ hold' = [hold EXCEPT ![t] = 0]
  /\ UNCHANGED <<poolVars, kernelVars, lfd, batch, again, rpc, todo>>

Begin(t, m) ==
  /\ t \in Handlers
  /\ pc[t] = "idle"
  /\ m \in msgs
  /\ m.kind = Serves(t)
  /\ seq[m.conn] = m.seq
  /\ Take(m)
  /\ pc' = [pc EXCEPT ![t] = "handling"]
  /\ ref' = [ref EXCEPT ![t] = m.conn]
  /\ hdr' = [hdr EXCEPT ![t] = m]
  /\ hold' = [hold EXCEPT ![t] = 0]
  /\ UNCHANGED <<poolVars, kernelVars, lfd, batch, again, rpc, todo>>

\* The handler returns: nothing to answer, the reply dropped for a full
\* queue, or, in SendQueueThread, the reply sent.
Done(t) ==
  /\ t \in Handlers
  /\ pc[t] = "handling"
  /\ pc' = [pc EXCEPT ![t] = "idle"]
  /\ Forget(t)
  /\ UNCHANGED <<poolVars, kernelVars, msgs, batch, again, rpc, todo>>

\* MsgSend queues the reply, under a copy of the request's header.
Reply(t) ==
  /\ t \in Workers
  /\ pc[t] = "handling"
  /\ msgs' = msgs \cup {[hdr[t] EXCEPT !.kind = "reply"]}
  /\ pc' = [pc EXCEPT ![t] = "idle"]
  /\ Forget(t)
  /\ UNCHANGED <<poolVars, kernelVars, batch, again, rpc, todo>>

\* MsgSend finds too many replies waiting for this client and closes it.
Kick(t) ==
  /\ t \in Kickers
  /\ pc[t] = "handling"
  /\ pc' = [pc EXCEPT ![t] = "zd_check"]
  /\ UNCHANGED <<poolVars, kernelVars, msgs, ref, lfd, hdr, hold, batch, again,
                 rpc, todo>>

-----------------------------------------------------------------------------
(* RecycleConnectionThread *)

\* Mutants of RecycleScan: no delay; the comparison the wrong way round.
MutRecycleScanNoDelay ==
  /\ rpc = "wait"
  /\ recycle # {}
  /\ todo' = recycle
  /\ rpc' = "scan"
  /\ UNCHANGED <<poolVars, kernelVars, msgs, threadVars>>
MutRecycleScanInverted ==
  /\ rpc = "wait"
  /\ recycle # {}
  /\ todo' = {c \in recycle : age[c] < RecycleWait}
  /\ rpc' = "scan"
  /\ UNCHANGED <<poolVars, kernelVars, msgs, threadVars>>

RecycleScan ==
  /\ rpc = "wait"
  /\ recycle # {}
  /\ todo' = {c \in recycle : age[c] >= RecycleWait}
  /\ rpc' = "scan"
  /\ UNCHANGED <<poolVars, kernelVars, msgs, threadVars>>

\* Mutant of RecycleFree: the entry is not erased.
MutRecycleFreeNoErase(c) ==
  /\ rpc = "scan"
  /\ c \in todo
  /\ todo' = todo \ {c}
  /\ seq' = [seq EXCEPT ![c] = @ + 1]
  /\ free' = Append(free, c)
  /\ UNCHANGED <<total, recycle, age, fd, online, kernelVars, msgs, threadVars,
                 rpc>>

\* Erased from the map, then FreeConnection.
RecycleFree(c) ==
  /\ rpc = "scan"
  /\ c \in todo
  /\ todo' = todo \ {c}
  /\ recycle' = recycle \ {c}
  /\ seq' = [seq EXCEPT ![c] = @ + 1]
  /\ free' = Append(free, c)
  /\ UNCHANGED <<total, age, fd, online, kernelVars, msgs, threadVars, rpc>>

RecycleEnd ==
  /\ rpc = "scan"
  /\ todo = {}
  /\ rpc' = "wait"
  /\ UNCHANGED <<poolVars, kernelVars, msgs, threadVars, todo>>

-----------------------------------------------------------------------------
\* A tick of the clock.  No thread works with its pointers for more than
\* MaxHold ticks.
Tick ==
  /\ \A t \in Threads : pc[t] = "idle" \/ hold[t] < MaxHold
  /\ hold' = [t \in Threads |-> IF pc[t] = "idle" THEN hold[t] ELSE hold[t] + 1]
  /\ age' = [c \in Conn |-> IF c \in recycle /\ age[c] < RecycleWait
                            THEN age[c] + 1 ELSE age[c]]
  /\ hold' # hold \/ age' # age
  /\ UNCHANGED <<free, total, recycle, seq, fd, online, kernelVars, msgs, pc,
                 ref, lfd, hdr, batch, again, rpc, todo>>

EpollStep ==
  \/ EpollWait
  \/ \E c \in Conn :
       \/ AcceptNothing(c)
       \/ \E k \in Clients : AcceptRefuse(c, k)
       \/ \E k \in Clients, f \in Fds : Accept(c, k, f)
       \/ ReadNothing(c)
       \/ ReadPacket(c)
       \/ ReadFlood(c)
       \/ ReadClosed(c)
       \/ KickOverdue(c)
  \/ GetConnection
  \/ Register
  \/ CloseConnection

CloseStep(t) ==
  \/ ZdCheck(t)
  \/ ZdClose(t)
  \/ ZdClear(t)
  \/ InRecyConnectQueue(t)

HandlerStep(t) ==
  \/ \E m \in msgs : Drop(t, m) \/ Begin(t, m)
  \/ Done(t)
  \/ Reply(t)
  \/ Kick(t)

RecycleStep ==
  \/ RecycleScan
  \/ \E c \in Conn : RecycleFree(c)
  \/ RecycleEnd

Next ==
  \/ EpollStep
  \/ \E t \in Threads : CloseStep(t) \/ HandlerStep(t)
  \/ RecycleStep
  \/ Tick

Spec == Init /\ [][Next]_vars

\* The threads keep running and the clock advances.  A handler that has begun
\* returns; nothing makes the epoll thread find work to begin.  Strong
\* fairness of InRecyConnectQueue: the recycle thread takes and gives back the
\* lock over and over while a Connection is parked, and a thread waiting for
\* it is assumed to get it in the end.
Fairness ==
  /\ WF_vars(EpollStep /\ pc[Epoll] # "idle")
  /\ \A t \in {Epoll} \cup Kickers :
       /\ WF_vars(ZdCheck(t) \/ ZdClose(t) \/ ZdClear(t))
       /\ SF_vars(InRecyConnectQueue(t))
  /\ \A t \in Handlers : WF_vars(Done(t) \/ Reply(t) \/ Kick(t))
  /\ WF_vars(RecycleStep)
  /\ SF_vars(Tick)

FairSpec == Spec /\ Fairness

-----------------------------------------------------------------------------
\* Every variable has its type.
PoolTypeOK ==
  /\ free \in Seq(Conn)
  /\ total \in Nat
  /\ recycle \in SUBSET Conn
  /\ age \in [Conn -> Ages]
  /\ seq \in [Conn -> Nat]
  /\ fd \in [Conn -> Fds \cup {NoFd}]
  /\ online \in Int
  /\ rpc \in {"wait", "scan"}
  /\ todo \in SUBSET Conn

KernelTypeOK ==
  /\ sock \in [Fds -> Socket]
  /\ waiting \in SUBSET Clients
  /\ robbed \in SUBSET Conn
  /\ msgs \in SUBSET Header

ThreadTypeOK ==
  /\ pc \in [Threads -> Control]
  /\ ref \in [Threads -> Conn]
  /\ lfd \in [Threads -> Fds \cup {NoFd}]
  /\ hdr \in [Threads -> Header]
  /\ hold \in [Threads -> Span]
  /\ batch \in SUBSET Conn
  /\ again \in BOOLEAN

TypeOK ==
  /\ PoolTypeOK
  /\ KernelTypeOK
  /\ ThreadTypeOK

\* A Connection is in at most one place: once in free_connection_pool_, or
\* parked, or bound to a listening socket, or just obtained, or in use.  Two
\* closers of one Connection, or a closer racing the recycle thread, must not
\* put it in the free pool twice: the next two clients would share it.
PoolPartition ==
  /\ \A i, j \in DOMAIN free : free[i] = free[j] => i = j
  /\ InFree \cup recycle \cup Fresh \cup Listening \subseteq Created
  /\ InFree \cap recycle = {}
  /\ Fresh \cap (InFree \cup recycle) = {}
  /\ Listening \cap (InFree \cup recycle \cup Fresh) = {}

\* online_user_count_ is the number of Connections that stand for a client:
\* every accepted client is counted once, and discounted once however many
\* threads close it and however often.
OnlineCount == online = Cardinality(InUse)

\* worker_connections_ is a bound on the clients served at a time, though the
\* count is checked before the client is counted.
OnlineBound == online <= N

\* The pool outgrows PoolLimit by at most the one Connection that EventAccept
\* may still create when the pool is exactly that large.
PoolBound == total <= PoolLimit + 1

\* What delayed recycling is for: a Connection some thread still holds a
\* pointer to is not free, so that it cannot be handed to another client, and
\* a thread past its sequence number check sees at most the one increment
\* made when the Connection was parked.
GracePeriod ==
  \A t \in Threads :
    /\ Held(t) \cap InFree = {}
    /\ pc[t] = "handling" => seq[ref[t]] - hdr[t].seq \in {0, 1}

\* Every registered descriptor belongs to the one Connection in use that has
\* it in its fd field, so that an event is never for a Connection that has lost
\* its client.
Ownership ==
  \A f \in Fds :
    LET c == sock[f].conn
    IN  c # NoConn => c \in InUse /\ fd[c] = f

\* A Connection that has a descriptor in its fd field has it to itself: the
\* kernel has not taken it back and given it to another client meanwhile, but
\* for a Connection being accepted, or one whose descriptor a thread has closed
\* and not yet forgotten.  The one way to lose it otherwise is another closer
\* of such a Connection (hao_socket.cpp:364-369).
OwnDescriptor ==
  \A c \in Conn :
    fd[c] # NoFd => \/ sock[fd[c]].conn = c
                    \/ pc[Epoll] = "obtained" /\ ref[Epoll] = c
                    \/ \E t \in Threads : pc[t] = "zd_clear" /\ ref[t] = c
                    \/ c \in robbed

\* A handler past its sequence number check that follows Connection::fd
\* reaches the client whose message it is handling, or a closed descriptor,
\* but never another client.
ReplyReachesAsker ==
  \A t \in Handlers :
    LET f == fd[ref[t]]
    IN  pc[t] = "handling" /\ f # NoFd
          => sock[f].client \in {hdr[t].from, NoClient}

\* A Connection whose descriptor has been closed, parked or about to be, is
\* given back to the pool in the end.
Released ==
  \A c \in Conn :
    (c \in recycle \/ (c \in InUse /\ fd[c] = NoFd)) ~> c \in InFree

-----------------------------------------------------------------------------
(* The invariant behind those above: what the threads know. *)

\* Only Connections in use are registered, and no thread is about to park one
\* that still is.
Registered ==
  \A f \in Fds :
    LET c == sock[f].conn
    IN  c # NoConn =>
          /\ c \in InUse
          /\ fd[c] = f
          /\ \A t \in Threads : pc[t] \in {"zd_clear", "zd_recycle"} => ref[t] # c

\* A Connection nobody uses has no descriptor.
NoStrayFd ==
  /\ \A c \in InFree \cup recycle : fd[c] = NoFd
  /\ \A t \in Threads : pc[t] = "zd_recycle" => fd[ref[t]] = NoFd

\* A pointer is to a Connection in use, or parked after the thread obtained
\* the pointer.
Pointers ==
  \A t \in Threads : \A c \in Held(t) :
    /\ c \in InUse \cup recycle
    /\ c \in recycle => age[c] <= hold[t]

\* A sequence number that still matches is that of a Connection in use.
Messages ==
  /\ \A m \in msgs : /\ m.seq <= seq[m.conn]
                     /\ m.seq = seq[m.conn] => m.conn \in InUse
  /\ \A t \in Threads : pc[t] = "handling" =>
       /\ hdr[t].conn = ref[t]
       /\ seq[ref[t]] = hdr[t].seq + (IF ref[t] \in recycle THEN 1 ELSE 0)

\* What a pass of the recycle thread found due stays due.
Due ==
  /\ todo \subseteq recycle
  /\ \A c \in todo : age[c] = RecycleWait

\* Where each kind of thread can be, and what the epoll thread knows between
\* the steps of EventAccept.
Places ==
  /\ pc[Sender] \in {"idle", "handling"}
  /\ \A w \in Workers : pc[w] \in {"idle", "handling"} \cup Closing
  /\ pc[Epoll] # "handling"
  /\ pc[Epoll] = "idle" => batch = {}
  /\ pc[Epoll] \in {"accepted", "obtained"} => online < N /\ lfd[Epoll] \in Fds
  /\ pc[Epoll] = "accepted" /\ total > PoolLimit => Len(free) >= N
  /\ pc[Epoll] = "obtained" => fd[ref[Epoll]] = lfd[Epoll]

Shape ==
  /\ PoolPartition
  /\ OnlineCount
  /\ OnlineBound
  /\ Registered
  /\ NoStrayFd
  /\ Pointers
  /\ Messages
  /\ Due
  /\ Places

\* The inductive invariant: a step of Next leads from any state of it to
\* another, so that the places of the Connections, the threads' pointers, the
\* descriptors, the sequence numbers and the clock agree in every reachable
\* state.
IInv ==
  /\ TypeOK
  /\ PoolBound
  /\ Shape

=============================================================================
