----------------------- MODULE ConnectionPoolProofs -----------------------
(***************************************************************************)
(* Theorems about ConnectionPool, for every number of clients, threads,    *)
(* descriptors and Connections.                                            *)
(***************************************************************************)
EXTENDS ConnectionPool, FiniteSetTheorems, SequenceTheorems, TLAPS

-----------------------------------------------------------------------------
(* Types *)

LEMMA Constants ==
  /\ Epoll \in Threads /\ Sender \in Threads /\ Workers \subseteq Threads
  /\ Handlers \subseteq Threads
  /\ 0 \in Conn /\ NoConn \notin Conn
  /\ Listening \subseteq Conn
  /\ NoHeader \in Header
  /\ Closed \in Socket
  /\ 0 \in Span /\ 0 \in Ages
  /\ {"idle", "batch", "accepted", "obtained", "handling"} \subseteq Control
  /\ {"zd_check", "zd_close", "zd_clear", "zd_recycle"} \subseteq Control
BY SizesAssumption, GraceAssumption DEF Threads, Handlers, Conn, NoConn, Listening, NoHeader, Header, Closed, Socket, Span, Ages, Control, Closing

LEMMA ForgetType ==
  ASSUME ThreadTypeOK, NEW t \in Threads, Forget(t)
  PROVE  /\ ref' \in [Threads -> Conn]
         /\ lfd' \in [Threads -> Fds \cup {NoFd}]
         /\ hdr' \in [Threads -> Header]
         /\ hold' \in [Threads -> Span]
BY Constants DEF ThreadTypeOK, Forget

LEMMA CloseConnectionType ==
  ASSUME TypeOK, PoolBound, CloseConnection
  PROVE  TypeOK' /\ PoolBound'
<1> USE Constants DEF TypeOK
<1>1. PoolTypeOK' /\ PoolBound'
  <2>1. free' \in Seq(Conn)
    BY AppendProperties DEF CloseConnection, PoolTypeOK, ThreadTypeOK
  <2>2. /\ seq' \in [Conn -> Nat]
        /\ fd' \in [Conn -> Fds \cup {NoFd}]
        /\ UNCHANGED <<total, recycle, age, online, rpc, todo>>
    BY DEF CloseConnection, PoolTypeOK, ThreadTypeOK
  <2> QED
    BY <2>1, <2>2 DEF PoolTypeOK, PoolBound
<1>2. KernelTypeOK'
  BY DEF CloseConnection, KernelTypeOK
<1>3. ThreadTypeOK'
  <2>1. pc' \in [Threads -> Control] /\ Forget(Epoll) /\ UNCHANGED <<batch, again>>
    BY DEF CloseConnection, NextEvent, ThreadTypeOK
  <2> QED
    BY <2>1, ForgetType DEF ThreadTypeOK
<1> QED
  BY <1>1, <1>2, <1>3

LEMMA InRecyType ==
  ASSUME TypeOK, PoolBound, NEW t \in Threads, InRecyConnectQueue(t)
  PROVE  TypeOK' /\ PoolBound'
<1> USE Constants DEF TypeOK
<1>1. PoolTypeOK' /\ PoolBound'
  <2>1. UNCHANGED <<free, total, fd, rpc, todo>>
    BY DEF InRecyConnectQueue
  <2>2. /\ recycle' \in SUBSET Conn
        /\ age' \in [Conn -> Ages]
        /\ seq' \in [Conn -> Nat]
        /\ online' \in Int
    <3> ref[t] \in Conn
      BY DEF ThreadTypeOK
    <3>1. CASE ref[t] \in recycle
      BY <3>1 DEF InRecyConnectQueue, PoolTypeOK
    <3>2. CASE ref[t] \notin recycle
      <4>1. /\ recycle' = recycle \cup {ref[t]}
            /\ age' = [age EXCEPT ![ref[t]] = 0]
            /\ seq' = [seq EXCEPT ![ref[t]] = @ + 1]
            /\ online' = online - 1
        BY <3>2 DEF InRecyConnectQueue
      <4> QED
        BY <4>1 DEF PoolTypeOK
    <3> QED
      BY <3>1, <3>2
  <2> QED
    BY <2>1, <2>2 DEF PoolTypeOK, PoolBound
<1>2. KernelTypeOK'
  BY DEF InRecyConnectQueue, KernelTypeOK, kernelVars
<1>3. ThreadTypeOK'
  <2>1. Return(t) /\ batch' = batch
    BY DEF InRecyConnectQueue
  <2>2. CASE t = Epoll /\ again
    BY <2>1, <2>2 DEF Return, ThreadTypeOK
  <2>3. CASE ~(t = Epoll /\ again)
    <3>1. Forget(t) /\ pc' \in [Threads -> Control] /\ UNCHANGED again
      BY <2>1, <2>3 DEF Return, NextEvent, ThreadTypeOK
    <3> QED
      BY <2>1, <3>1, ForgetType DEF ThreadTypeOK
  <2> QED
    BY <2>2, <2>3
<1> QED
  BY <1>1, <1>2, <1>3

LEMMA TypeStep ==
  ASSUME TypeOK, PoolBound, Places, [Next]_vars
  PROVE  TypeOK' /\ PoolBound'
<1> USE Constants
     DEF TypeOK, PoolTypeOK, KernelTypeOK, ThreadTypeOK, PoolBound
<1>1. CASE EpollWait
  <2>1. Ready \subseteq Conn
    BY DEF Ready, Socket
  <2> QED
    BY <1>1, <2>1 DEF EpollWait, poolVars, kernelVars
<1>2. ASSUME NEW c \in Conn, AcceptNothing(c) PROVE TypeOK' /\ PoolBound'
  BY <1>2 DEF AcceptNothing, Dispatch, NextEvent, poolVars, kernelVars
<1>3. ASSUME NEW c \in Conn, NEW k \in Clients, AcceptRefuse(c, k)
      PROVE  TypeOK' /\ PoolBound'
  BY <1>3 DEF AcceptRefuse, Dispatch, NextEvent, poolVars
<1>4. ASSUME NEW c \in Conn, NEW k \in Clients, NEW f \in Fds, Accept(c, k, f)
      PROVE  TypeOK' /\ PoolBound'
  <2>1. [client |-> k, conn |-> NoConn] \in Socket BY DEF Socket
  <2> QED
  BY <1>4, <2>1 DEF Accept, Dispatch, poolVars
<1>5. CASE GetConnection
  <2> DEFINE c == IF free = <<>> THEN total ELSE Head(free)
  <2>1. /\ c \in Conn
        /\ free' \in Seq(Conn)
        /\ total' \in Nat
        /\ total' <= PoolLimit + 1
    <3>1. CASE free = <<>>
      <4>1. total <= PoolLimit
        BY <1>5, <3>1, SizesAssumption DEF GetConnection, Places
      <4> QED
        BY <1>5, <3>1, <4>1, SizesAssumption DEF GetConnection, Conn
    <3>2. CASE free # <<>>
      BY <1>5, <3>2, HeadTailProperties DEF GetConnection
    <3> QED BY <3>1, <3>2
  <2>2. /\ ref' = [ref EXCEPT ![Epoll] = c]
        /\ seq' = [seq EXCEPT ![c] = @ + 1]
        /\ fd' = [fd EXCEPT ![c] = lfd[Epoll]]
        /\ pc' = [pc EXCEPT ![Epoll] = "obtained"]
        /\ UNCHANGED <<recycle, age, online, kernelVars, msgs, lfd, hdr, hold,
                       batch, again, rpc, todo>>
    BY <1>5 DEF GetConnection
  <2> HIDE DEF c
  <2> QED
    BY <2>1, <2>2 DEF kernelVars
<1>6. CASE Register
  <2>1. sock' \in [Fds -> Socket]
    BY <1>6 DEF Register, Socket
  <2>2. online' \in Int /\ UNCHANGED free
    BY <1>6 DEF Register
  <2> QED
    BY <1>6, <2>1, <2>2 DEF Register, Forget, NextEvent
<1>7. CASE CloseConnection
  BY <1>7, CloseConnectionType
<1>8. ASSUME NEW c \in Conn, ReadNothing(c) PROVE TypeOK' /\ PoolBound'
  BY <1>8 DEF ReadNothing, Dispatch, NextEvent, poolVars, kernelVars
<1>9. ASSUME NEW c \in Conn, ReadPacket(c) PROVE TypeOK' /\ PoolBound'
  <2>1. msgs' \in SUBSET Header
    <3>1. fd[c] \in Fds
      BY <1>9 DEF ReadPacket, Readable
    <3>2. sock[fd[c]].client \in Clients \cup {NoClient}
      BY <3>1 DEF Socket
    <3> QED
      BY <1>9, <3>2 DEF ReadPacket, Header
  <2> QED
    BY <1>9, <2>1 DEF ReadPacket, Dispatch, NextEvent, poolVars, kernelVars
<1>10. ASSUME NEW c \in Conn, ReadFlood(c) PROVE TypeOK' /\ PoolBound'
  BY <1>10 DEF ReadFlood, Dispatch, poolVars, kernelVars
<1>11. ASSUME NEW c \in Conn, ReadClosed(c) PROVE TypeOK' /\ PoolBound'
  BY <1>11 DEF ReadClosed, Dispatch, poolVars, kernelVars
<1>12. ASSUME NEW c \in Conn, KickOverdue(c) PROVE TypeOK' /\ PoolBound'
  <2>1. (IF c \in recycle THEN age[c] ELSE 0) \in Span
    BY <1>12, GraceAssumption DEF KickOverdue, Span, Ages, InUse
  <2> QED
    BY <1>12, <2>1 DEF KickOverdue, poolVars, kernelVars
<1>13. ASSUME NEW t \in Threads, ZdCheck(t) PROVE TypeOK' /\ PoolBound'
  BY <1>13 DEF ZdCheck, poolVars, kernelVars
<1>14. ASSUME NEW t \in Threads, ZdClose(t) PROVE TypeOK' /\ PoolBound'
  <2>1. fd[ref[t]] \in Fds \cup {NoFd} /\ ref[t] \in Conn
    OBVIOUS
  <2>2. fd[ref[t]] \in Fds => sock[fd[ref[t]]].conn \in Conn \cup {NoConn}
    BY <2>1 DEF Socket
  <2>3. sock' \in [Fds -> Socket] /\ robbed' \in SUBSET Conn
    BY <1>14, <2>1, <2>2 DEF ZdClose
  <2>4. pc' \in [Threads -> Control]
    BY <1>14 DEF ZdClose
  <2> QED
    BY <1>14, <2>3, <2>4 DEF ZdClose, poolVars
<1>15. ASSUME NEW t \in Threads, ZdClear(t) PROVE TypeOK' /\ PoolBound'
  BY <1>15 DEF ZdClear, kernelVars
<1>16. ASSUME NEW t \in Threads, InRecyConnectQueue(t)
       PROVE  TypeOK' /\ PoolBound'
  BY <1>16, InRecyType
<1>17. ASSUME NEW t \in Threads, NEW m \in msgs, Drop(t, m)
       PROVE  TypeOK' /\ PoolBound'
  BY <1>17 DEF Drop, Take, poolVars, kernelVars, threadVars
<1>18. ASSUME NEW t \in Threads, NEW m \in msgs, Begin(t, m)
       PROVE  TypeOK' /\ PoolBound'
  <2>1. m \in Header /\ m.conn \in Conn
    BY DEF Header
  <2> QED
    BY <1>18, <2>1 DEF Begin, Take, poolVars, kernelVars
<1>19. ASSUME NEW t \in Threads, Done(t) PROVE TypeOK' /\ PoolBound'
  BY <1>19 DEF Done, Forget, poolVars, kernelVars
<1>20. ASSUME NEW t \in Threads, Reply(t) PROVE TypeOK' /\ PoolBound'
  <2>1. msgs' \in SUBSET Header
    <3>1. [hdr[t] EXCEPT !.kind = "reply"] \in Header
      BY DEF Header
    <3> QED
      BY <1>20, <3>1 DEF Reply
  <2> QED
    BY <1>20, <2>1, ForgetType DEF Reply, poolVars, kernelVars
<1>21. ASSUME NEW t \in Threads, Kick(t) PROVE TypeOK' /\ PoolBound'
  BY <1>21 DEF Kick, poolVars, kernelVars
<1>22. CASE RecycleScan
  BY <1>22 DEF RecycleScan, poolVars, kernelVars, threadVars
<1>23. ASSUME NEW c \in Conn, RecycleFree(c) PROVE TypeOK' /\ PoolBound'
  <2>1. free' \in Seq(Conn)
    BY <1>23, AppendProperties DEF RecycleFree
  <2>2. /\ todo' = todo \ {c}
        /\ recycle' = recycle \ {c}
        /\ seq' = [seq EXCEPT ![c] = @ + 1]
        /\ UNCHANGED <<total, age, fd, online, kernelVars, msgs, threadVars, rpc>>
    BY <1>23 DEF RecycleFree
  <2> QED
    BY <2>1, <2>2 DEF kernelVars, threadVars
<1>24. CASE RecycleEnd
  BY <1>24 DEF RecycleEnd, poolVars, kernelVars, threadVars
<1>25. CASE Tick
  <2>1. hold' \in [Threads -> Span]
    <3>1. \A t \in Threads : /\ hold[t] \in Span
                              /\ hold[t] < MaxHold => hold[t] + 1 \in Span
      BY GraceAssumption DEF Span
    <3> QED
      BY <1>25, <3>1 DEF Tick
  <2>2. age' \in [Conn -> Ages]
    <3>1. \A c \in Conn : /\ age[c] \in Ages
                           /\ age[c] < RecycleWait => age[c] + 1 \in Ages
      BY GraceAssumption DEF Ages
    <3> QED
      BY <1>25, <3>1 DEF Tick
  <2>3. UNCHANGED <<free, total, recycle, seq, fd, online, kernelVars, msgs, pc,
                    ref, lfd, hdr, batch, again, rpc, todo>>
    BY <1>25 DEF Tick
  <2> QED
    BY <2>1, <2>2, <2>3 DEF kernelVars
<1>26. CASE UNCHANGED vars
  BY <1>26 DEF vars, poolVars, kernelVars, threadVars
<1> QED
  BY <1>1, <1>2, <1>3, <1>4, <1>5, <1>6, <1>7, <1>8, <1>9, <1>10, <1>11, <1>12,
     <1>13, <1>14, <1>15, <1>16, <1>17, <1>18, <1>19, <1>20, <1>21, <1>22,
     <1>23, <1>24, <1>25, <1>26
     DEF Next, EpollStep, CloseStep, HandlerStep, RecycleStep

-----------------------------------------------------------------------------
(* The steps that move no Connection between the places of PoolPartition *)

\* The sets of Connections stay as they are.
LEMMA SameSets ==
  ASSUME UNCHANGED <<free, total, recycle, online>>, Fresh' = Fresh,
         PoolPartition, OnlineCount, OnlineBound
  PROVE  /\ InFree' = InFree /\ InUse' = InUse
         /\ PoolPartition' /\ OnlineCount' /\ OnlineBound'
<1>1. InFree' = InFree /\ Created' = Created /\ InUse' = InUse
  BY DEF InFree, Created, InUse
<1> QED
  BY <1>1 DEF PoolPartition, OnlineCount, OnlineBound

LEMMA EpollWaitStep ==
  ASSUME IInv, EpollWait
  PROVE  Shape'
<1> USE Constants, NamesAssumption DEF IInv, Shape, TypeOK
<1>1. UNCHANGED <<free, total, recycle, online>> /\ Fresh' = Fresh
  BY DEF EpollWait, poolVars, kernelVars, Fresh, ThreadTypeOK
<1>2. /\ InFree' = InFree /\ InUse' = InUse
      /\ PoolPartition' /\ OnlineCount' /\ OnlineBound'
  BY <1>1, SameSets
<1>3. Registered' /\ NoStrayFd' /\ Messages' /\ Due' /\ Places'
  BY <1>1, <1>2 DEF EpollWait, poolVars, kernelVars, Registered, Closed,
       ThreadTypeOK, NoStrayFd, PoolTypeOK, Messages, Due, Places, Closing,
       Handlers, Threads
<1>4. Pointers'
  <2>1. \A c \in batch' \ Listening : c \in InUse /\ c \notin recycle
    BY DEF EpollWait, Ready, Registered, InUse
  <2>2. ASSUME NEW t \in Threads, NEW c \in Held(t)'
        PROVE  /\ c \in InUse' \cup recycle'
               /\ c \in recycle' => age'[c] <= hold'[t]
    <3>1. CASE t = Epoll
      BY <1>1, <1>2, <2>1, <2>2, <3>1 DEF EpollWait, Held, Closing, ThreadTypeOK
    <3>2. CASE t # Epoll
      BY <1>1, <1>2, <2>2, <3>2 DEF EpollWait, Held, Pointers, poolVars, ThreadTypeOK
    <3> QED
      BY <3>1, <3>2
  <2> QED
    BY <2>2 DEF Pointers
<1> QED
  BY <1>2, <1>3, <1>4

LEMMA AcceptNothingStep ==
  ASSUME IInv, NEW c \in Conn, AcceptNothing(c)
  PROVE  Shape'
<1> USE Constants, NamesAssumption DEF IInv, Shape, TypeOK
<1>1. UNCHANGED <<free, total, recycle, online>> /\ Fresh' = Fresh
  BY DEF AcceptNothing, Dispatch, NextEvent, poolVars, kernelVars, Fresh,
       ThreadTypeOK
<1>2. /\ InFree' = InFree /\ InUse' = InUse
      /\ PoolPartition' /\ OnlineCount' /\ OnlineBound'
  BY <1>1, SameSets
<1>3. Registered' /\ NoStrayFd' /\ Pointers' /\ Messages' /\ Due' /\ Places'
  BY <1>1, <1>2 DEF AcceptNothing, Dispatch, NextEvent, poolVars, kernelVars,
       Registered, Closed, ThreadTypeOK, NoStrayFd, PoolTypeOK, Pointers,
       Held, Closing, Messages, Due, Places, Handlers, Threads
<1> QED
  BY <1>2, <1>3

LEMMA AcceptRefuseStep ==
  ASSUME IInv, NEW c \in Conn, NEW k \in Clients, AcceptRefuse(c, k)
  PROVE  Shape'
<1> USE Constants, NamesAssumption DEF IInv, Shape, TypeOK
<1>1. UNCHANGED <<free, total, recycle, online>> /\ Fresh' = Fresh
  BY DEF AcceptRefuse, Dispatch, NextEvent, poolVars, Fresh, ThreadTypeOK
<1>2. /\ InFree' = InFree /\ InUse' = InUse
      /\ PoolPartition' /\ OnlineCount' /\ OnlineBound'
  BY <1>1, SameSets
<1>3. Registered' /\ NoStrayFd' /\ Pointers' /\ Messages' /\ Due' /\ Places'
  BY <1>1, <1>2 DEF AcceptRefuse, Dispatch, NextEvent, poolVars, Registered,
       Closed, ThreadTypeOK, NoStrayFd, PoolTypeOK, Pointers, Held, Closing,
       Messages, Due, Places, Handlers, Threads
<1> QED
  BY <1>2, <1>3

LEMMA AcceptStep ==
  ASSUME IInv, NEW c \in Conn, NEW k \in Clients, NEW f \in Fds, Accept(c, k, f)
  PROVE  Shape'
<1> USE Constants, NamesAssumption DEF IInv, Shape, TypeOK
<1>1. UNCHANGED <<free, total, recycle, online>> /\ Fresh' = Fresh
  BY DEF Accept, Dispatch, poolVars, Fresh, ThreadTypeOK
<1>2. /\ InFree' = InFree /\ InUse' = InUse
      /\ PoolPartition' /\ OnlineCount' /\ OnlineBound'
  BY <1>1, SameSets
<1>3. Registered' /\ NoStrayFd' /\ Pointers' /\ Messages' /\ Due'
  BY <1>1, <1>2 DEF Accept, Dispatch, poolVars, Registered, Closed,
       ThreadTypeOK, NoStrayFd, PoolTypeOK, Pointers, Held, Closing,
       Messages, Due
<1>4. Places'
  <2>1. online < N /\ (total > PoolLimit => Len(free) >= N)
    <3>1. online \in Int /\ total \in Int /\ Len(free) \in Int /\ N \in Int /\ PoolLimit \in Int
      BY SizesAssumption DEF PoolTypeOK, Conn
    <3> QED
      BY <3>1 DEF Accept, Refused
  <2> QED
    BY <1>1, <2>1 DEF Accept, Dispatch, poolVars, Places, Closing, Handlers, Threads,
                      ThreadTypeOK
<1> QED
  BY <1>2, <1>3, <1>4

LEMMA ReadNothingStep ==
  ASSUME IInv, NEW c \in Conn, ReadNothing(c)
  PROVE  Shape'
<1> USE Constants, NamesAssumption DEF IInv, Shape, TypeOK
<1>1. UNCHANGED <<free, total, recycle, online>> /\ Fresh' = Fresh
  BY DEF ReadNothing, Dispatch, NextEvent, poolVars, kernelVars, Fresh,
       ThreadTypeOK
<1>2. /\ InFree' = InFree /\ InUse' = InUse
      /\ PoolPartition' /\ OnlineCount' /\ OnlineBound'
  BY <1>1, SameSets
<1>3. Registered' /\ NoStrayFd' /\ Pointers' /\ Messages' /\ Due' /\ Places'
  BY <1>1, <1>2 DEF ReadNothing, Dispatch, NextEvent, poolVars, kernelVars,
       Registered, Closed, ThreadTypeOK, NoStrayFd, PoolTypeOK, Pointers,
       Held, Closing, Messages, Due, Places, Handlers, Threads
<1> QED
  BY <1>2, <1>3

LEMMA ReadPacketStep ==
  ASSUME IInv, NEW c \in Conn, ReadPacket(c)
  PROVE  Shape'
<1> USE Constants, NamesAssumption DEF IInv, Shape, TypeOK
<1>1. UNCHANGED <<free, total, recycle, online>> /\ Fresh' = Fresh
  BY DEF ReadPacket, Dispatch, NextEvent, poolVars, kernelVars, Fresh,
       ThreadTypeOK
<1>2. /\ InFree' = InFree /\ InUse' = InUse
      /\ PoolPartition' /\ OnlineCount' /\ OnlineBound'
  BY <1>1, SameSets
<1>3. Registered' /\ NoStrayFd' /\ Pointers' /\ Due' /\ Places'
  BY <1>1, <1>2 DEF ReadPacket, Dispatch, NextEvent, poolVars, kernelVars,
       Registered, Closed, ThreadTypeOK, NoStrayFd, PoolTypeOK, Pointers,
       Held, Closing, Due, Places, Handlers, Threads
<1>4. Messages'
  <2>1. c \in InUse
    <3>1. c \in Held(Epoll)
      BY DEF ReadPacket, Dispatch, Held
    <3> QED
      BY <3>1 DEF ReadPacket, Readable, Pointers, NoStrayFd
  <2>2. \A m \in msgs' : m \in msgs \/ (m.conn = c /\ m.seq = seq[c])
    BY DEF ReadPacket
  <2>3. UNCHANGED <<seq, recycle, hdr, ref>> /\ pc' = [pc EXCEPT ![Epoll] = NextEvent]
    BY DEF ReadPacket, poolVars
  <2>4. seq[c] \in Nat
    BY DEF PoolTypeOK
  <2> QED
    BY <1>2, <2>1, <2>2, <2>3, <2>4 DEF Messages, NextEvent, ThreadTypeOK
<1> QED
  BY <1>2, <1>3, <1>4

LEMMA ReadFloodStep ==
  ASSUME IInv, NEW c \in Conn, ReadFlood(c)
  PROVE  Shape'
<1> USE Constants, NamesAssumption DEF IInv, Shape, TypeOK
<1>1. UNCHANGED <<free, total, recycle, online>> /\ Fresh' = Fresh
  BY DEF ReadFlood, Dispatch, poolVars, kernelVars, Fresh, ThreadTypeOK
<1>2. /\ InFree' = InFree /\ InUse' = InUse
      /\ PoolPartition' /\ OnlineCount' /\ OnlineBound'
  BY <1>1, SameSets
<1>3. Registered' /\ NoStrayFd' /\ Pointers' /\ Messages' /\ Due' /\ Places'
  BY <1>1, <1>2 DEF ReadFlood, Dispatch, poolVars, kernelVars, Registered,
       Closed, ThreadTypeOK, NoStrayFd, PoolTypeOK, Pointers, Held, Closing,
       Messages, Due, Places, Handlers, Threads
<1> QED
  BY <1>2, <1>3

LEMMA ReadClosedStep ==
  ASSUME IInv, NEW c \in Conn, ReadClosed(c)
  PROVE  Shape'
<1> USE Constants, NamesAssumption DEF IInv, Shape, TypeOK
<1>1. UNCHANGED <<free, total, recycle, online>> /\ Fresh' = Fresh
  BY DEF ReadClosed, Dispatch, poolVars, kernelVars, Fresh, ThreadTypeOK
<1>2. /\ InFree' = InFree /\ InUse' = InUse
      /\ PoolPartition' /\ OnlineCount' /\ OnlineBound'
  BY <1>1, SameSets
<1>3. Registered' /\ NoStrayFd' /\ Pointers' /\ Messages' /\ Due' /\ Places'
  BY <1>1, <1>2 DEF ReadClosed, Dispatch, poolVars, kernelVars, Registered,
       Closed, ThreadTypeOK, NoStrayFd, PoolTypeOK, Pointers, Held, Closing,
       Messages, Due, Places, Handlers, Threads
<1> QED
  BY <1>2, <1>3

LEMMA KickOverdueStep ==
  ASSUME IInv, NEW c \in Conn, KickOverdue(c)
  PROVE  Shape'
<1> USE Constants, NamesAssumption DEF IInv, Shape, TypeOK
<1>1. UNCHANGED <<free, total, recycle, online>> /\ Fresh' = Fresh
  BY DEF KickOverdue, poolVars, kernelVars, Fresh, ThreadTypeOK
<1>2. /\ InFree' = InFree /\ InUse' = InUse
      /\ PoolPartition' /\ OnlineCount' /\ OnlineBound'
  BY <1>1, SameSets
<1>3. Registered' /\ NoStrayFd' /\ Messages' /\ Due' /\ Places'
  BY <1>1, <1>2 DEF KickOverdue, poolVars, kernelVars, Registered, Closed,
       ThreadTypeOK, NoStrayFd, PoolTypeOK, Messages, Due, Places, Closing,
       Handlers, Threads
<1>4. Pointers'
  <2>1. batch = {} /\ (c \in InUse => c \notin recycle)
    BY DEF KickOverdue, Places, InUse
  <2>2. ASSUME NEW t \in Threads, NEW d \in Held(t)'
        PROVE  /\ d \in InUse' \cup recycle'
               /\ d \in recycle' => age'[d] <= hold'[t]
    <3>1. CASE t = Epoll
      <4>1. d = c
        BY <2>1, <2>2, <3>1 DEF KickOverdue, Held, ThreadTypeOK
      <4>2. hold'[Epoll] = IF c \in recycle THEN age[c] ELSE 0
        BY DEF KickOverdue, ThreadTypeOK
      <4>3. c \in InUse \cup recycle /\ UNCHANGED <<recycle, age>> /\ age[c] \in Int
        BY DEF KickOverdue, poolVars, PoolTypeOK, Ages
      <4> QED
        BY <1>2, <3>1, <4>1, <4>2, <4>3
    <3>2. CASE t # Epoll
      BY <1>2, <2>2, <3>2 DEF KickOverdue, Held, Pointers, poolVars, ThreadTypeOK
    <3> QED
      BY <3>1, <3>2
  <2> QED
    BY <2>2 DEF Pointers
<1> QED
  BY <1>2, <1>3, <1>4

LEMMA ZdCheckStep ==
  ASSUME IInv, NEW t \in Threads, ZdCheck(t)
  PROVE  Shape'
<1> USE Constants, NamesAssumption DEF IInv, Shape, TypeOK
<1>1. UNCHANGED <<free, total, recycle, online>> /\ Fresh' = Fresh
  BY DEF ZdCheck, poolVars, kernelVars, Fresh, ThreadTypeOK
<1>2. /\ InFree' = InFree /\ InUse' = InUse
      /\ PoolPartition' /\ OnlineCount' /\ OnlineBound'
  BY <1>1, SameSets
<1>3. Registered' /\ NoStrayFd' /\ Pointers' /\ Messages' /\ Due' /\ Places'
  BY <1>1, <1>2 DEF ZdCheck, poolVars, kernelVars, Registered, Closed,
       ThreadTypeOK, NoStrayFd, PoolTypeOK, Pointers, Held, Closing,
       Messages, Due, Places, Handlers, Threads
<1> QED
  BY <1>2, <1>3

LEMMA ZdCloseStep ==
  ASSUME IInv, NEW t \in Threads, ZdClose(t)
  PROVE  Shape'
<1> USE Constants, NamesAssumption DEF IInv, Shape, TypeOK
<1>1. UNCHANGED <<free, total, recycle, online>> /\ Fresh' = Fresh
  BY DEF ZdClose, poolVars, Fresh, ThreadTypeOK
<1>2. /\ InFree' = InFree /\ InUse' = InUse
      /\ PoolPartition' /\ OnlineCount' /\ OnlineBound'
  BY <1>1, SameSets
<1>3. NoStrayFd' /\ Pointers' /\ Messages' /\ Due' /\ Places'
  BY <1>1, <1>2 DEF ZdClose, poolVars, NoStrayFd, PoolTypeOK, ThreadTypeOK,
       Pointers, Held, Closing, Messages, Due, Places, Handlers, Threads
<1>4. Registered'
  <2>1. ref[t] \in Conn /\ fd[ref[t]] \in Fds \cup {NoFd}
    BY DEF ThreadTypeOK, PoolTypeOK
  <2>2. \A f \in Fds : sock'[f].conn = IF f = fd[ref[t]] THEN NoConn ELSE sock[f].conn
    BY <2>1 DEF ZdClose, KernelTypeOK, Closed
  <2>3. \A f \in Fds : sock'[f].conn # NoConn => sock'[f].conn # ref[t]
    BY <2>1, <2>2 DEF Registered
  <2> QED
    BY <1>2, <2>2, <2>3 DEF ZdClose, poolVars, Registered, ThreadTypeOK
<1> QED
  BY <1>2, <1>3, <1>4

LEMMA ZdClearStep ==
  ASSUME IInv, NEW t \in Threads, ZdClear(t)
  PROVE  Shape'
<1> USE Constants, NamesAssumption DEF IInv, Shape, TypeOK
<1>1. UNCHANGED <<free, total, recycle, online>> /\ Fresh' = Fresh
  BY DEF ZdClear, kernelVars, Fresh, ThreadTypeOK
<1>2. /\ InFree' = InFree /\ InUse' = InUse
      /\ PoolPartition' /\ OnlineCount' /\ OnlineBound'
  BY <1>1, SameSets
<1>3. Registered' /\ NoStrayFd' /\ Pointers' /\ Messages' /\ Due'
  BY <1>1, <1>2 DEF ZdClear, kernelVars, Registered, Closed, ThreadTypeOK,
       NoStrayFd, PoolTypeOK, Pointers, Held, Closing, Messages, Due
<1>4. Places'
  <2>1. pc[Epoll] = "obtained" => ref[t] # ref[Epoll]
    <3>1. ref[t] \in InUse \cup recycle
      BY DEF ZdClear, Held, Closing, Pointers
    <3> QED
      BY <3>1 DEF InUse, Fresh, PoolPartition
  <2> QED
    BY <1>1, <2>1 DEF ZdClear, kernelVars, Places, Closing, PoolTypeOK, ThreadTypeOK
<1> QED
  BY <1>2, <1>3, <1>4

LEMMA DropStep ==
  ASSUME IInv, NEW t \in Threads, NEW m \in msgs, Drop(t, m)
  PROVE  Shape'
<1> USE Constants, NamesAssumption DEF IInv, Shape, TypeOK
<1>1. UNCHANGED <<free, total, recycle, online>> /\ Fresh' = Fresh
  BY DEF Drop, Take, poolVars, kernelVars, threadVars, Fresh, ThreadTypeOK
<1>2. /\ InFree' = InFree /\ InUse' = InUse
      /\ PoolPartition' /\ OnlineCount' /\ OnlineBound'
  BY <1>1, SameSets
<1>3. Registered' /\ NoStrayFd' /\ Pointers' /\ Messages' /\ Due' /\ Places'
  BY <1>1, <1>2 DEF Drop, Take, poolVars, kernelVars, threadVars, Registered,
       Closed, ThreadTypeOK, NoStrayFd, PoolTypeOK, Pointers, Held, Closing,
       Messages, Due, Places, Handlers, Threads
<1> QED
  BY <1>2, <1>3

LEMMA BeginStep ==
  ASSUME IInv, NEW t \in Threads, NEW m \in msgs, Begin(t, m)
  PROVE  Shape'
<1> USE Constants, NamesAssumption DEF IInv, Shape, TypeOK
<1>1. UNCHANGED <<free, total, recycle, online>> /\ Fresh' = Fresh
  BY DEF Begin, Take, poolVars, kernelVars, Fresh, ThreadTypeOK
<1>2. /\ InFree' = InFree /\ InUse' = InUse
      /\ PoolPartition' /\ OnlineCount' /\ OnlineBound'
  BY <1>1, SameSets
<1>3. Registered' /\ NoStrayFd' /\ Due' /\ Places'
  BY <1>1, <1>2 DEF Begin, Take, poolVars, kernelVars, Registered, Closed,
       ThreadTypeOK, NoStrayFd, PoolTypeOK, Due, Places, Closing, Handlers,
       Threads
<1>4. Pointers'
  <2>1. m.conn \in InUse /\ m.conn \notin recycle
    BY DEF Begin, Messages, InUse
  <2>2. ASSUME NEW u \in Threads, NEW d \in Held(u)'
        PROVE  /\ d \in InUse' \cup recycle'
               /\ d \in recycle' => age'[d] <= hold'[u]
    <3>1. CASE u = t
      BY <1>2, <2>1, <2>2, <3>1 DEF Begin, poolVars, Held, Handlers, ThreadTypeOK
    <3>2. CASE u # t
      BY <1>2, <2>2, <3>2 DEF Begin, Held, Pointers, poolVars, ThreadTypeOK
    <3> QED
      BY <3>1, <3>2
  <2> QED
    BY <2>2 DEF Pointers
<1>5. Messages'
  <2>1. m.conn \in InUse /\ m.conn \notin recycle
    BY DEF Begin, Messages, InUse
  <2>2. m.seq \in Nat
    BY DEF KernelTypeOK, Header
  <2>3. msgs' \subseteq msgs
    BY DEF Begin, Take
  <2>4. \A u \in Threads : pc'[u] = "handling" =>
          /\ hdr'[u].conn = ref'[u]
          /\ seq[ref'[u]] = hdr'[u].seq + (IF ref'[u] \in recycle THEN 1 ELSE 0)
    BY <2>1, <2>2 DEF Begin, Messages, ThreadTypeOK
  <2> QED
    BY <1>1, <1>2, <2>3, <2>4 DEF Begin, poolVars, Messages
<1> QED
  BY <1>2, <1>3, <1>4, <1>5

LEMMA DoneStep ==
  ASSUME IInv, NEW t \in Threads, Done(t)
  PROVE  Shape'
<1> USE Constants, NamesAssumption DEF IInv, Shape, TypeOK
<1>1. UNCHANGED <<free, total, recycle, online>> /\ Fresh' = Fresh
  BY DEF Done, Forget, poolVars, kernelVars, Fresh, ThreadTypeOK
<1>2. /\ InFree' = InFree /\ InUse' = InUse
      /\ PoolPartition' /\ OnlineCount' /\ OnlineBound'
  BY <1>1, SameSets
<1>3. Registered' /\ NoStrayFd' /\ Pointers' /\ Messages' /\ Due' /\ Places'
  BY <1>1, <1>2 DEF Done, Forget, poolVars, kernelVars, Registered, Closed,
       ThreadTypeOK, NoStrayFd, PoolTypeOK, Pointers, Held, Closing,
       Messages, Due, Places, Handlers, Threads
<1> QED
  BY <1>2, <1>3

LEMMA ReplyStep ==
  ASSUME IInv, NEW t \in Threads, Reply(t)
  PROVE  Shape'
<1> USE Constants, NamesAssumption DEF IInv, Shape, TypeOK
<1>1. UNCHANGED <<free, total, recycle, online>> /\ Fresh' = Fresh
  BY DEF Reply, Forget, poolVars, kernelVars, Fresh, ThreadTypeOK
<1>2. /\ InFree' = InFree /\ InUse' = InUse
      /\ PoolPartition' /\ OnlineCount' /\ OnlineBound'
  BY <1>1, SameSets
<1>3. Registered' /\ NoStrayFd' /\ Pointers' /\ Due' /\ Places'
  BY <1>1, <1>2 DEF Reply, Forget, poolVars, kernelVars, Registered, Closed,
       ThreadTypeOK, NoStrayFd, PoolTypeOK, Pointers, Held, Closing, Due,
       Places, Handlers, Threads
<1>4. Messages'
  <2>1. ref[t] \in InUse \cup recycle
    BY DEF Reply, Held, Pointers
  <2>2. hdr[t].seq \in Nat /\ seq[ref[t]] \in Nat /\ hdr[t] \in Header
    BY DEF ThreadTypeOK, PoolTypeOK, Header
  <2>3. /\ hdr[t].conn = ref[t]
        /\ hdr[t].seq <= seq[hdr[t].conn]
        /\ hdr[t].seq = seq[hdr[t].conn] => hdr[t].conn \in InUse
    BY <2>1, <2>2 DEF Reply, Messages
  <2>4. ASSUME NEW m \in msgs'
        PROVE  m.seq <= seq[m.conn] /\ (m.seq = seq[m.conn] => m.conn \in InUse)
    <3>1. CASE m \in msgs
      BY <3>1 DEF Messages
    <3>2. CASE m = [hdr[t] EXCEPT !.kind = "reply"]
      BY <2>2, <2>3, <3>2 DEF Header
    <3> QED
      BY <2>4, <3>1, <3>2 DEF Reply
  <2> QED
    BY <1>1, <1>2, <2>4 DEF Reply, Forget, poolVars, Messages, ThreadTypeOK
<1> QED
  BY <1>2, <1>3, <1>4

LEMMA KickStep ==
  ASSUME IInv, NEW t \in Threads, Kick(t)
  PROVE  Shape'
<1> USE Constants, NamesAssumption DEF IInv, Shape, TypeOK
<1>1. UNCHANGED <<free, total, recycle, online>> /\ Fresh' = Fresh
  BY DEF Kick, poolVars, kernelVars, Fresh, ThreadTypeOK
<1>2. /\ InFree' = InFree /\ InUse' = InUse
      /\ PoolPartition' /\ OnlineCount' /\ OnlineBound'
  BY <1>1, SameSets
<1>3. Registered' /\ NoStrayFd' /\ Pointers' /\ Messages' /\ Due' /\ Places'
  BY <1>1, <1>2 DEF Kick, poolVars, kernelVars, Registered, Closed,
       ThreadTypeOK, NoStrayFd, PoolTypeOK, Pointers, Held, Closing,
       Messages, Due, Places, Handlers, Threads
<1> QED
  BY <1>2, <1>3

LEMMA RecycleScanStep ==
  ASSUME IInv, RecycleScan
  PROVE  Shape'
<1> USE Constants, NamesAssumption DEF IInv, Shape, TypeOK
<1>1. UNCHANGED <<free, total, recycle, online>> /\ Fresh' = Fresh
  BY DEF RecycleScan, poolVars, kernelVars, threadVars, Fresh, ThreadTypeOK
<1>2. /\ InFree' = InFree /\ InUse' = InUse
      /\ PoolPartition' /\ OnlineCount' /\ OnlineBound'
  BY <1>1, SameSets
<1>3. Registered' /\ NoStrayFd' /\ Pointers' /\ Messages' /\ Places'
  BY <1>1, <1>2 DEF RecycleScan, poolVars, kernelVars, threadVars,
       Registered, Closed, ThreadTypeOK, NoStrayFd, PoolTypeOK, Pointers,
       Held, Closing, Messages, Places, Handlers, Threads
<1>4. Due'
  BY <1>1, GraceAssumption DEF RecycleScan, poolVars, Due, PoolTypeOK, Ages
<1> QED
  BY <1>2, <1>3, <1>4

LEMMA RecycleEndStep ==
  ASSUME IInv, RecycleEnd
  PROVE  Shape'
<1> USE Constants, NamesAssumption DEF IInv, Shape, TypeOK
<1>1. UNCHANGED <<free, total, recycle, online>> /\ Fresh' = Fresh
  BY DEF RecycleEnd, poolVars, kernelVars, threadVars, Fresh, ThreadTypeOK
<1>2. /\ InFree' = InFree /\ InUse' = InUse
      /\ PoolPartition' /\ OnlineCount' /\ OnlineBound'
  BY <1>1, SameSets
<1>3. Registered' /\ NoStrayFd' /\ Pointers' /\ Messages' /\ Due' /\ Places'
  BY <1>1, <1>2 DEF RecycleEnd, poolVars, kernelVars, threadVars, Registered,
       Closed, ThreadTypeOK, NoStrayFd, PoolTypeOK, Pointers, Held, Closing,
       Messages, Due, Places, Handlers, Threads
<1> QED
  BY <1>2, <1>3

LEMMA TickStep ==
  ASSUME IInv, Tick
  PROVE  Shape'
<1> USE Constants, NamesAssumption DEF IInv, Shape, TypeOK
<1>1. UNCHANGED <<free, total, recycle, online>> /\ Fresh' = Fresh
  BY DEF Tick, kernelVars, Fresh, ThreadTypeOK
<1>2. /\ InFree' = InFree /\ InUse' = InUse
      /\ PoolPartition' /\ OnlineCount' /\ OnlineBound'
  BY <1>1, SameSets
<1>3. Registered' /\ NoStrayFd' /\ Messages' /\ Places'
  BY <1>1, <1>2 DEF Tick, kernelVars, Registered, Closed, ThreadTypeOK,
       NoStrayFd, PoolTypeOK, Messages, Places, Closing, Handlers, Threads
<1>4. Pointers'
  <2>1. \A u \in Threads : Held(u)' = Held(u)
    BY DEF Tick, Held
  <2>2. ASSUME NEW u \in Threads, NEW d \in Held(u), d \in recycle
        PROVE  age'[d] <= hold'[u]
    <3>1. pc[u] # "idle"
      BY <2>2 DEF Held, Closing, Places
    <3>2. hold'[u] = hold[u] + 1
      BY <3>1 DEF Tick
    <3>3. d \in Conn /\ age'[d] <= age[d] + 1
      BY <2>2, GraceAssumption DEF Tick, PoolTypeOK, Ages
    <3>4. age'[d] \in Int /\ age[d] \in Int /\ hold[u] \in Int /\ age[d] <= hold[u]
      BY <2>2, <3>3, GraceAssumption
         DEF Tick, PoolTypeOK, ThreadTypeOK, Ages, Span, Pointers
    <3> QED
      BY <3>2, <3>3, <3>4
  <2> QED
    BY <1>1, <1>2, <2>1, <2>2 DEF Pointers
<1>5. Due'
  BY <1>1, GraceAssumption DEF Tick, Due, PoolTypeOK, Ages
<1> QED
  BY <1>2, <1>3, <1>4, <1>5

-----------------------------------------------------------------------------
(* The steps that move a Connection *)

\* What FreeConnection does to free_connection_pool_.
LEMMA FreeAppend ==
  ASSUME PoolTypeOK, NEW c \in Conn, free' = Append(free, c)
  PROVE  /\ InFree' = InFree \cup {c}
         /\ DOMAIN free' = 1 .. Len(free) + 1
         /\ Len(free') = Len(free) + 1
         /\ \A i \in DOMAIN free : free'[i] = free[i]
         /\ free'[Len(free) + 1] = c
         /\ DOMAIN free = 1 .. Len(free) /\ Len(free) \in Nat
<1>1. /\ free' \in Seq(Conn)
      /\ Len(free') = Len(free) + 1
      /\ \A i \in 1 .. Len(free) : free'[i] = free[i]
      /\ free'[Len(free) + 1] = c
  BY AppendProperties DEF PoolTypeOK
<1>2. DOMAIN free = 1 .. Len(free) /\ Len(free) \in Nat /\ DOMAIN free' = 1 .. Len(free')
  BY <1>1 DEF PoolTypeOK
<1>3. InFree' = InFree \cup {c}
  BY <1>1, <1>2 DEF InFree
<1> QED
  BY <1>1, <1>2, <1>3

\* What GetConnection does to it.
LEMMA FreeTail ==
  ASSUME PoolTypeOK, PoolPartition, free # <<>>, free' = Tail(free)
  PROVE  /\ Head(free) \in InFree
         /\ InFree' = InFree \ {Head(free)}
         /\ \A i, j \in DOMAIN free' : free'[i] = free'[j] => i = j
<1>1. /\ free' \in Seq(Conn)
      /\ Len(free') = Len(free) - 1
      /\ \A i \in 1 .. Len(free') : free'[i] = free[i + 1]
  BY HeadTailProperties DEF PoolTypeOK
<1>2. /\ DOMAIN free = 1 .. Len(free)
      /\ Len(free) \in Nat \ {0}
      /\ DOMAIN free' = 1 .. Len(free')
      /\ Head(free) = free[1]
  BY <1>1, EmptySeq DEF PoolTypeOK
<1>3. \A i, j \in DOMAIN free : free[i] = free[j] => i = j
  BY DEF PoolPartition
<1>4. \A i \in DOMAIN free' : i + 1 \in DOMAIN free /\ free'[i] = free[i + 1]
  BY <1>1, <1>2
<1>5. \A i, j \in DOMAIN free' : free'[i] = free'[j] => i = j
  <2> SUFFICES ASSUME NEW i \in DOMAIN free', NEW j \in DOMAIN free', free'[i] = free'[j]
               PROVE  i = j
    OBVIOUS
  <2>1. i + 1 = j + 1
    BY <1>3, <1>4
  <2> QED
    BY <1>1, <1>2, <2>1
<1>6. InFree' \subseteq InFree \ {Head(free)}
  <2> SUFFICES ASSUME NEW i \in DOMAIN free'
               PROVE  free'[i] \in InFree /\ free'[i] # Head(free)
    BY DEF InFree
  <2>1. i + 1 # 1 /\ 1 \in DOMAIN free /\ i + 1 \in DOMAIN free
    BY <1>1, <1>2, <1>4
  <2> QED
    BY <1>2, <1>3, <1>4, <2>1 DEF InFree
<1>7. InFree \ {Head(free)} \subseteq InFree'
  <2> SUFFICES ASSUME NEW i \in DOMAIN free, free[i] # Head(free)
               PROVE  free[i] \in InFree'
    BY DEF InFree
  <2>1. i - 1 \in DOMAIN free' /\ (i - 1) + 1 = i
    BY <1>1, <1>2
  <2>2. free'[i - 1] = free[i]
    BY <1>1, <1>2, <2>1
  <2> QED
    BY <2>1, <2>2 DEF InFree
<1> QED
  BY <1>2, <1>5, <1>6, <1>7 DEF InFree

\* The Connections in use are finitely many.
LEMMA InUseFinite ==
  ASSUME PoolTypeOK
  PROVE  IsFiniteSet(InUse) /\ IsFiniteSet(Created)
<1>1. IsFiniteSet(Created)
  BY FS_Interval, SizesAssumption DEF Created, PoolTypeOK
<1> QED
  BY <1>1, FS_Subset DEF InUse

LEMMA GetConnectionStep ==
  ASSUME IInv, GetConnection
  PROVE  Shape'
<1> USE Constants, NamesAssumption DEF IInv, Shape, TypeOK
<1> DEFINE c == IF free = <<>> THEN total ELSE Head(free)
<1>1. /\ pc[Epoll] = "accepted" /\ pc' = [pc EXCEPT ![Epoll] = "obtained"]
      /\ ref' = [ref EXCEPT ![Epoll] = c]
      /\ seq' = [seq EXCEPT ![c] = @ + 1]
      /\ fd' = [fd EXCEPT ![c] = lfd[Epoll]]
      /\ UNCHANGED <<recycle, age, online, sock, waiting, msgs, lfd, hdr, hold,
                     batch, again, rpc, todo>>
  BY DEF GetConnection, kernelVars
<1>2. Fresh = {} /\ Fresh' = {c}
  BY <1>1 DEF Fresh, ThreadTypeOK
<1>3. /\ c \in Conn
      /\ c \notin InFree' \cup recycle \cup Listening \cup InUse
      /\ c \in Created'
      /\ Created \subseteq Created'
      /\ InFree' \subseteq InFree
      /\ InUse' = InUse
      /\ \A i, j \in DOMAIN free' : free'[i] = free'[j] => i = j
  <2>1. CASE free = <<>>
    <3>1. total' = total + 1 /\ free' = free /\ c = total
      BY <2>1 DEF GetConnection
    <3>2. total <= PoolLimit
      <4>1. Len(free) = 0 /\ total \in Int
        BY <2>1, EmptySeq DEF PoolTypeOK
      <4> QED
        BY <1>1, <4>1, SizesAssumption DEF Places
    <3>3. c \in Conn /\ c \notin Created /\ Created' = Created \cup {c}
      <4>1. total \in Nat /\ total \in Conn /\ total' \in Nat
        BY <3>1, <3>2, SizesAssumption DEF PoolTypeOK, Conn
      <4>2. total \notin 0 .. total - 1 /\ 0 .. total' - 1 = (0 .. total - 1) \cup {total}
        BY <3>1, <4>1
      <4> QED
        BY <3>1, <4>1, <4>2 DEF Created
    <3>4. InFree' = InFree
      BY <3>1 DEF InFree
    <3> HIDE DEF c
    <3> QED
      BY <1>1, <1>2, <3>1, <3>3, <3>4 DEF PoolPartition, InUse
  <2>2. CASE free # <<>>
    <3>1. total' = total /\ free' = Tail(free) /\ c = Head(free)
      BY <2>2 DEF GetConnection
    <3>2. /\ c \in InFree /\ InFree' = InFree \ {c} /\ Created' = Created
          /\ \A i, j \in DOMAIN free' : free'[i] = free'[j] => i = j
      BY <2>2, <3>1, FreeTail DEF Created
    <3>3. c \in Conn
      BY <3>2 DEF InFree, PoolTypeOK
    <3> HIDE DEF c
    <3> QED
      BY <1>1, <1>2, <3>2, <3>3 DEF PoolPartition, InUse
  <2> QED
    BY <2>1, <2>2
<1> HIDE DEF c
<1>4. \A t \in Threads : c \notin Held(t)
  BY <1>3, <1>1 DEF Pointers
<1>5. PoolPartition' /\ OnlineCount' /\ OnlineBound'
  BY <1>1, <1>2, <1>3 DEF PoolPartition, OnlineCount, OnlineBound
<1>6. Registered'
  BY <1>1, <1>3 DEF Registered, ThreadTypeOK, PoolTypeOK
<1>7. NoStrayFd'
  <2>1. \A t \in Threads : pc[t] = "zd_recycle" => ref[t] # c
    BY <1>4 DEF Held, Closing
  <2> QED
    BY <1>1, <1>3, <2>1 DEF NoStrayFd, ThreadTypeOK, PoolTypeOK
<1>8. Pointers'
  BY <1>1, <1>3 DEF Pointers, Held, Closing, ThreadTypeOK
<1>9. Messages'
  <2>1. \A m \in msgs : /\ m.seq <= seq'[m.conn]
                        /\ m.seq = seq'[m.conn] => m.conn \in InUse
    <3> SUFFICES ASSUME NEW m \in msgs
                 PROVE  m.seq <= seq'[m.conn] /\ (m.seq = seq'[m.conn] => m.conn \in InUse)
      OBVIOUS
    <3>1. m.conn \in Conn /\ m.seq \in Nat /\ seq[m.conn] \in Nat /\ m.seq <= seq[m.conn]
      BY DEF Messages, KernelTypeOK, PoolTypeOK, Header
    <3>2. seq'[m.conn] = IF m.conn = c THEN seq[m.conn] + 1 ELSE seq[m.conn]
      BY <1>1, <3>1 DEF PoolTypeOK
    <3> QED
      BY <3>1, <3>2 DEF Messages
  <2>2. \A t \in Threads : pc'[t] = "handling" => pc[t] = "handling" /\ ref'[t] = ref[t] /\ ref[t] # c
    BY <1>1, <1>4 DEF Held, ThreadTypeOK
  <2> QED
    BY <1>1, <1>3, <2>1, <2>2 DEF Messages, PoolTypeOK, ThreadTypeOK
<1>10. Due'
  BY <1>1 DEF Due
<1>11. Places'
  <2>1. \A t \in Threads : pc[t] = "zd_close" => ref[t] # c
    BY <1>4 DEF Held, Closing
  <2> QED
    BY <1>1, <1>3, <2>1 DEF Places, ThreadTypeOK, PoolTypeOK, Handlers, Threads, Closing
<1> QED
  BY <1>5, <1>6, <1>7, <1>8, <1>9, <1>10, <1>11

LEMMA RegisterStep ==
  ASSUME IInv, Register
  PROVE  Shape'
<1> USE Constants, NamesAssumption DEF IInv, Shape, TypeOK
<1> DEFINE c == ref[Epoll]
<1>1. /\ pc[Epoll] = "obtained" /\ pc' = [pc EXCEPT ![Epoll] = NextEvent]
      /\ sock' = [sock EXCEPT ![lfd[Epoll]].conn = c]
      /\ online' = online + 1
      /\ batch' = batch
      /\ Forget(Epoll)
      /\ UNCHANGED <<free, total, recycle, age, seq, fd, waiting, msgs, again,
                     rpc, todo>>
  BY DEF Register
<1>2. /\ NextEvent \in {"idle", "batch"} /\ (NextEvent = "idle" => batch' = {})
      /\ ref' = [ref EXCEPT ![Epoll] = 0] /\ hdr' = [hdr EXCEPT ![Epoll] = NoHeader]
      /\ lfd' = [lfd EXCEPT ![Epoll] = NoFd] /\ hold' = hold
  BY <1>1 DEF NextEvent, Forget
<1>3. Fresh = {c} /\ Fresh' = {}
  BY <1>1, <1>2 DEF Fresh, ThreadTypeOK
<1>4. /\ InFree' = InFree /\ Created' = Created
      /\ c \notin InUse
      /\ InUse' = InUse \cup {c}
  <2>1. InFree' = InFree /\ Created' = Created
    BY <1>1 DEF InFree, Created
  <2> QED
    BY <1>1, <1>3, <2>1 DEF PoolPartition, InUse
<1>5. \A t \in Threads : c \notin Held(t)
  BY <1>3, <1>4 DEF Pointers, PoolPartition
<1>6. /\ lfd[Epoll] \in Fds /\ fd[c] = lfd[Epoll] /\ online < N
      /\ \A f \in Fds : sock'[f].conn = IF f = lfd[Epoll] THEN c ELSE sock[f].conn
  BY <1>1 DEF Places, KernelTypeOK, Socket
<1> HIDE DEF c
<1>7. PoolPartition'
  BY <1>1, <1>3, <1>4 DEF PoolPartition
<1>8. OnlineCount' /\ OnlineBound'
  <2>1. Cardinality(InUse \cup {c}) = Cardinality(InUse) + 1
    BY <1>4, InUseFinite, FS_AddElement
  <2>2. online + 1 <= N
    BY <1>6, SizesAssumption DEF PoolTypeOK
  <2> QED
    BY <1>1, <1>4, <2>1, <2>2 DEF OnlineCount, OnlineBound
<1>9. Registered'
  <2>1. \A t \in Threads : pc'[t] \in {"zd_clear", "zd_recycle"} =>
          pc[t] = pc'[t] /\ ref'[t] = ref[t] /\ ref[t] # c
    BY <1>1, <1>2, <1>5 DEF ThreadTypeOK, Held, Closing
  <2> QED
    BY <1>1, <1>4, <1>6, <2>1 DEF Registered
<1>10. NoStrayFd'
  BY <1>1, <1>2, <1>4 DEF NoStrayFd, ThreadTypeOK
<1>11. Pointers'
  BY <1>1, <1>2, <1>4 DEF Pointers, Held, Closing, ThreadTypeOK
<1>12. Messages'
  BY <1>1, <1>2, <1>4 DEF Messages, ThreadTypeOK
<1>13. Due'
  BY <1>1 DEF Due
<1>14. Places'
  BY <1>1, <1>2 DEF Places, ThreadTypeOK, Handlers, Threads, Closing
<1> QED
  BY <1>7, <1>8, <1>9, <1>10, <1>11, <1>12, <1>13, <1>14

LEMMA CloseConnectionStep ==
  ASSUME IInv, CloseConnection
  PROVE  Shape'
<1> USE Constants, NamesAssumption DEF IInv, Shape, TypeOK
<1> DEFINE c == ref[Epoll]
<1>1. /\ pc[Epoll] = "obtained" /\ pc' = [pc EXCEPT ![Epoll] = NextEvent]
      /\ free' = Append(free, c)
      /\ seq' = [seq EXCEPT ![c] = @ + 1]
      /\ fd' = [fd EXCEPT ![c] = NoFd]
      /\ sock' = [sock EXCEPT ![fd[c]] = Closed]
      /\ batch' = batch
      /\ Forget(Epoll)
      /\ UNCHANGED <<total, recycle, age, online, waiting, msgs, again, rpc, todo>>
  BY DEF CloseConnection
<1>2. /\ NextEvent \in {"idle", "batch"} /\ (NextEvent = "idle" => batch' = {})
      /\ ref' = [ref EXCEPT ![Epoll] = 0] /\ hdr' = [hdr EXCEPT ![Epoll] = NoHeader]
      /\ lfd' = [lfd EXCEPT ![Epoll] = NoFd] /\ hold' = hold
  BY <1>1 DEF NextEvent, Forget
<1>3. c \in Conn /\ Fresh = {c} /\ Fresh' = {}
  BY <1>1, <1>2 DEF Fresh, ThreadTypeOK
<1>4. /\ InFree' = InFree \cup {c}
      /\ \A i, j \in DOMAIN free' : free'[i] = free'[j] => i = j
      /\ Created' = Created
      /\ InUse' = InUse
      /\ c \notin InUse \cup InFree \cup recycle
  <2>1. c \notin InFree
    BY <1>3 DEF PoolPartition
  <2> HIDE DEF c
  <2>2. /\ InFree' = InFree \cup {c}
        /\ \A i, j \in DOMAIN free' : free'[i] = free'[j] => i = j
    BY <1>1, <1>3, <2>1, FreeAppend DEF PoolPartition, InFree
  <2>3. Created' = Created
    BY <1>1 DEF Created
  <2> QED
    BY <1>1, <1>3, <2>1, <2>2, <2>3 DEF PoolPartition, InUse
<1>5. \A t \in Threads : c \notin Held(t)
  BY <1>4 DEF Pointers
<1>6. \A f \in Fds : sock'[f].conn \in {NoConn, sock[f].conn}
  BY <1>1 DEF KernelTypeOK, Closed
<1> HIDE DEF c
<1>7. PoolPartition' /\ OnlineCount' /\ OnlineBound'
  BY <1>1, <1>3, <1>4 DEF PoolPartition, OnlineCount, OnlineBound
<1>8. Registered'
  <2>1. \A f \in Fds : sock[f].conn # c \/ sock[f].conn = NoConn
    BY <1>4 DEF Registered
  <2>2. \A d \in Conn : d # c => fd'[d] = fd[d]
    BY <1>1 DEF PoolTypeOK
  <2>3. \A f \in Fds : sock[f].conn \in Conn \cup {NoConn}
    BY DEF KernelTypeOK, Socket
  <2> QED
    BY <1>1, <1>2, <1>4, <1>6, <2>1, <2>2, <2>3 DEF Registered, ThreadTypeOK
<1>9. NoStrayFd'
  BY <1>1, <1>2, <1>3, <1>4 DEF NoStrayFd, ThreadTypeOK, PoolTypeOK
<1>10. Pointers'
  BY <1>1, <1>2, <1>4 DEF Pointers, Held, Closing, ThreadTypeOK
<1>11. Messages'
  <2>1. \A m \in msgs : /\ m.seq <= seq'[m.conn]
                        /\ m.seq = seq'[m.conn] => m.conn \in InUse
    <3> SUFFICES ASSUME NEW m \in msgs
                 PROVE  m.seq <= seq'[m.conn] /\ (m.seq = seq'[m.conn] => m.conn \in InUse)
      OBVIOUS
    <3>1. m.conn \in Conn /\ m.seq \in Nat /\ seq[m.conn] \in Nat /\ m.seq <= seq[m.conn]
      BY DEF Messages, KernelTypeOK, PoolTypeOK, Header
    <3>2. seq'[m.conn] = IF m.conn = c THEN seq[m.conn] + 1 ELSE seq[m.conn]
      BY <1>1, <3>1 DEF PoolTypeOK
    <3> QED
      BY <3>1, <3>2 DEF Messages
  <2>2. \A t \in Threads : pc'[t] = "handling" =>
          pc[t] = "handling" /\ ref'[t] = ref[t] /\ hdr'[t] = hdr[t] /\ ref[t] # c
    BY <1>1, <1>2, <1>5 DEF Held, ThreadTypeOK
  <2> QED
    BY <1>1, <1>4, <2>1, <2>2 DEF Messages, PoolTypeOK, ThreadTypeOK
<1>12. Due'
  BY <1>1 DEF Due
<1>13. Places'
  BY <1>1, <1>2 DEF Places, ThreadTypeOK, PoolTypeOK, Handlers, Threads, Closing
<1> QED
  BY <1>7, <1>8, <1>9, <1>10, <1>11, <1>12, <1>13

LEMMA InRecyConnectQueueStep ==
  ASSUME IInv, NEW t \in Threads, InRecyConnectQueue(t)
  PROVE  Shape'
<1> USE Constants, NamesAssumption DEF IInv, Shape, TypeOK
<1> DEFINE c == ref[t]
<1>1. /\ pc[t] = "zd_recycle" /\ rpc = "wait"
      /\ batch' = batch
      /\ Return(t)
      /\ UNCHANGED <<free, total, fd, sock, waiting, msgs, rpc, todo>>
  BY DEF InRecyConnectQueue, kernelVars
\* The thread leaves zd_close_socket_proc, or runs it once more.
<1>2. /\ pc' = [pc EXCEPT ![t] = pc'[t]]
      /\ pc'[t] \in {"zd_check", "idle", "batch"}
      /\ pc'[t] = "zd_check" => t = Epoll /\ ref' = ref /\ hold' = hold
      /\ pc'[t] = "batch" => t = Epoll
      /\ pc'[t] = "idle" /\ t = Epoll => batch' = {}
      /\ \A u \in Threads : u # t =>
           /\ ref'[u] = ref[u] /\ hdr'[u] = hdr[u] /\ lfd'[u] = lfd[u]
           /\ hold'[u] = hold[u]
      /\ hold'[Epoll] = hold[Epoll]
  <2>1. CASE t = Epoll /\ again
    BY <1>1, <2>1 DEF Return, ThreadTypeOK
  <2>2. CASE ~(t = Epoll /\ again)
    BY <1>1, <2>2 DEF Return, Forget, NextEvent, ThreadTypeOK
  <2> QED
    BY <2>1, <2>2
<1>3. c \in Conn /\ c \in Held(t) /\ c \in InUse \cup recycle
  BY <1>1 DEF Held, Closing, Pointers, ThreadTypeOK
<1>4. Fresh' = Fresh
  BY <1>1, <1>2 DEF Fresh, ThreadTypeOK
<1>5. InFree' = InFree /\ Created' = Created
  BY <1>1 DEF InFree, Created
<1>6. \A u \in Threads, d \in Conn : d \in Held(u)' => d \in Held(u) /\ hold'[u] = hold[u]
  <2>1. \A u \in Threads, d \in Conn : u # t /\ d \in Held(u)' => d \in Held(u) /\ hold'[u] = hold[u]
    BY <1>1, <1>2 DEF Held, ThreadTypeOK
  <2>2. \A d \in Conn : d \in Held(t)' => d \in Held(t) /\ hold'[t] = hold[t]
    BY <1>1, <1>2 DEF Held, ThreadTypeOK, Closing
  <2> QED
    BY <2>1, <2>2
<1>7. \A u \in Threads : pc'[u] \in {"zd_close", "zd_clear", "zd_recycle", "handling"} =>
        /\ u # t /\ pc'[u] = pc[u] /\ ref'[u] = ref[u] /\ hdr'[u] = hdr[u]
        /\ lfd'[u] = lfd[u]
  BY <1>2 DEF ThreadTypeOK
<1>8. \A u \in Threads : Held(u)' \subseteq Conn
  <2>1. ThreadTypeOK'
    BY TypeStep, <1>1 DEF Next, CloseStep
  <2> QED
    BY <2>1 DEF Held, ThreadTypeOK
<1>9. CASE c \in recycle
  <2>1. UNCHANGED <<recycle, age, seq, online>>
    BY <1>9 DEF InRecyConnectQueue
  <2>2. InUse' = InUse /\ PoolPartition' /\ OnlineCount' /\ OnlineBound'
    BY <1>1, <1>4, <2>1, SameSets
  <2> HIDE DEF c
  <2>3. Registered'
    BY <1>1, <1>7, <2>2 DEF Registered
  <2>4. NoStrayFd'
    BY <1>1, <1>5, <1>7, <2>1 DEF NoStrayFd
  <2>5. Pointers'
    BY <1>6, <1>8, <2>1, <2>2 DEF Pointers
  <2>6. Messages'
    BY <1>1, <1>7, <2>1, <2>2 DEF Messages
  <2>7. Due'
    BY <1>1, <2>1 DEF Due
  <2>8. Places'
    BY <1>1, <1>2, <1>7, <2>1
       DEF Places, ThreadTypeOK, Handlers, Threads, Closing
  <2> QED
    BY <2>2, <2>3, <2>4, <2>5, <2>6, <2>7, <2>8
<1>10. CASE c \notin recycle
  <2>1. /\ recycle' = recycle \cup {c}
        /\ age' = [age EXCEPT ![c] = 0]
        /\ seq' = [seq EXCEPT ![c] = @ + 1]
        /\ online' = online - 1
    BY <1>10 DEF InRecyConnectQueue
  <2> HIDE DEF c
  <2>2. c \in InUse /\ InUse' = InUse \ {c}
    BY <1>3, <1>4, <1>5, <1>10, <2>1 DEF InUse
  <2>3. PoolPartition'
    BY <1>1, <1>4, <1>5, <2>1, <2>2 DEF PoolPartition, InUse
  <2>4. OnlineCount' /\ OnlineBound'
    <3>1. Cardinality(InUse \ {c}) = Cardinality(InUse) - 1
      BY <2>2, InUseFinite, FS_RemoveElement
    <3>2. online - 1 <= N
      BY SizesAssumption DEF PoolTypeOK, OnlineBound
    <3> QED
      BY <2>1, <2>2, <3>1, <3>2 DEF OnlineCount, OnlineBound
  <2>5. Registered'
    <3>1. \A f \in Fds : sock[f].conn # c \/ sock[f].conn = NoConn
      BY <1>1 DEF Registered, c
    <3> QED
      BY <1>1, <1>7, <2>2, <3>1 DEF Registered
  <2>6. NoStrayFd'
    <3>1. fd[c] = NoFd
      BY <1>1 DEF NoStrayFd, c
    <3> QED
      BY <1>1, <1>5, <1>7, <2>1, <3>1 DEF NoStrayFd
  <2>7. Pointers'
    <3> SUFFICES ASSUME NEW u \in Threads, NEW d \in Held(u)'
                 PROVE  /\ d \in InUse' \cup recycle'
                        /\ d \in recycle' => age'[d] <= hold'[u]
      BY DEF Pointers
    <3>1. d \in Conn /\ d \in Held(u) /\ hold'[u] = hold[u]
      BY <1>6, <1>8
    <3>2. hold[u] \in Nat
      BY GraceAssumption DEF ThreadTypeOK, Span
    <3>3. CASE d = c
      BY <1>3, <2>1, <3>1, <3>2, <3>3 DEF PoolTypeOK
    <3>4. CASE d # c
      BY <2>1, <2>2, <3>1, <3>4 DEF Pointers, PoolTypeOK
    <3> QED
      BY <3>3, <3>4
  <2>8. Messages'
    <3>1. \A m \in msgs : /\ m.seq <= seq'[m.conn]
                          /\ m.seq = seq'[m.conn] => m.conn \in InUse'
      <4> SUFFICES ASSUME NEW m \in msgs
                   PROVE  /\ m.seq <= seq'[m.conn]
                          /\ m.seq = seq'[m.conn] => m.conn \in InUse'
        OBVIOUS
      <4>1. m.conn \in Conn /\ m.seq \in Nat /\ seq[m.conn] \in Nat /\ m.seq <= seq[m.conn]
        BY DEF Messages, KernelTypeOK, PoolTypeOK, Header
      <4>2. seq'[m.conn] = IF m.conn = c THEN seq[m.conn] + 1 ELSE seq[m.conn]
        BY <2>1, <4>1 DEF PoolTypeOK
      <4> QED
        BY <2>2, <4>1, <4>2 DEF Messages
    <3>2. ASSUME NEW u \in Threads, pc'[u] = "handling"
          PROVE  /\ hdr'[u].conn = ref'[u]
                 /\ seq'[ref'[u]] = hdr'[u].seq + (IF ref'[u] \in recycle' THEN 1 ELSE 0)
      <4>1. /\ pc[u] = "handling" /\ ref'[u] = ref[u] /\ hdr'[u] = hdr[u]
            /\ ref[u] \in Conn
        BY <1>7, <3>2 DEF ThreadTypeOK
      <4>2. seq'[ref[u]] = IF ref[u] = c THEN seq[ref[u]] + 1 ELSE seq[ref[u]]
        BY <2>1, <4>1 DEF PoolTypeOK
      <4>3. hdr[u].seq \in Nat
        BY DEF ThreadTypeOK, Header
      <4> QED
        BY <1>10, <2>1, <4>1, <4>2, <4>3 DEF Messages
    <3> QED
      BY <1>1, <3>1, <3>2 DEF Messages
  <2>9. Due'
    BY <1>1, <1>10, <2>1 DEF Due, PoolTypeOK
  <2>10. Places'
    <3>1. online' < N \/ ~(online < N)
      BY <2>1, SizesAssumption DEF PoolTypeOK
    <3> QED
      BY <1>1, <1>2, <1>7, <3>1
         DEF Places, ThreadTypeOK, Handlers, Threads, Closing
  <2> QED
    BY <2>3, <2>4, <2>5, <2>6, <2>7, <2>8, <2>9, <2>10
<1> QED
  BY <1>9, <1>10

LEMMA RecycleFreeStep ==
  ASSUME IInv, NEW c \in Conn, RecycleFree(c)
  PROVE  Shape'
<1> USE Constants, NamesAssumption DEF IInv, Shape, TypeOK
<1>1. /\ c \in todo /\ c \in recycle /\ age[c] = RecycleWait
      /\ todo' = todo \ {c}
      /\ recycle' = recycle \ {c}
      /\ seq' = [seq EXCEPT ![c] = @ + 1]
      /\ free' = Append(free, c)
      /\ UNCHANGED <<total, age, fd, online, sock, waiting, msgs, pc, ref, lfd,
                     hdr, hold, batch, again, rpc>>
  BY DEF RecycleFree, Due, kernelVars, threadVars
\* Why the delay is long enough.
<1>2. \A t \in Threads : c \notin Held(t)
  <2> SUFFICES ASSUME NEW t \in Threads, c \in Held(t) PROVE FALSE
    OBVIOUS
  <2>1. age[c] <= hold[t]
    BY <1>1 DEF Pointers
  <2>2. hold[t] \in Int /\ hold[t] <= MaxHold
    BY GraceAssumption DEF ThreadTypeOK, Span
  <2> QED
    BY <1>1, <2>1, <2>2, GraceAssumption
<1>3. /\ InFree' = InFree \cup {c}
      /\ \A i, j \in DOMAIN free' : free'[i] = free'[j] => i = j
      /\ Len(free') = Len(free) + 1 /\ Len(free) \in Nat
  <2>1. c \notin InFree
    BY <1>1 DEF PoolPartition
  <2> QED
    BY <1>1, <2>1, FreeAppend DEF PoolPartition, InFree
<1>4. Fresh' = Fresh /\ Created' = Created
  BY <1>1 DEF Fresh, Created
<1>5. InUse' = InUse /\ c \notin InUse
  BY <1>1, <1>3, <1>4 DEF InUse
<1>6. \A t \in Threads : Held(t)' = Held(t)
  BY <1>1 DEF Held
<1>7. PoolPartition' /\ OnlineCount' /\ OnlineBound'
  BY <1>1, <1>3, <1>4, <1>5 DEF PoolPartition, OnlineCount, OnlineBound
<1>8. Registered'
  BY <1>1, <1>5 DEF Registered
<1>9. NoStrayFd'
  BY <1>1, <1>3 DEF NoStrayFd
<1>10. Pointers'
  BY <1>1, <1>2, <1>5, <1>6 DEF Pointers
<1>11. Messages'
  <2>1. \A m \in msgs : /\ m.seq <= seq'[m.conn]
                        /\ m.seq = seq'[m.conn] => m.conn \in InUse
    <3> SUFFICES ASSUME NEW m \in msgs
                 PROVE  m.seq <= seq'[m.conn] /\ (m.seq = seq'[m.conn] => m.conn \in InUse)
      OBVIOUS
    <3>1. m.conn \in Conn /\ m.seq \in Nat /\ seq[m.conn] \in Nat /\ m.seq <= seq[m.conn]
      BY DEF Messages, KernelTypeOK, PoolTypeOK, Header
    <3>2. seq'[m.conn] = IF m.conn = c THEN seq[m.conn] + 1 ELSE seq[m.conn]
      BY <1>1, <3>1 DEF PoolTypeOK
    <3> QED
      BY <3>1, <3>2 DEF Messages
  <2>2. \A t \in Threads : pc[t] = "handling" => ref[t] # c /\ ref[t] \in Conn
    BY <1>2 DEF Held, ThreadTypeOK
  <2> QED
    BY <1>1, <1>5, <2>1, <2>2 DEF Messages, PoolTypeOK
<1>12. Due'
  BY <1>1 DEF Due
<1>13. Places'
  <2>1. Len(free) >= N => Len(free') >= N
    BY <1>3, SizesAssumption
  <2> QED
    BY <1>1, <2>1 DEF Places
<1> QED
  BY <1>7, <1>8, <1>9, <1>10, <1>11, <1>12, <1>13

-----------------------------------------------------------------------------
(* The theorems *)

LEMMA InitIInv == Init => IInv
<1> SUFFICES ASSUME Init PROVE IInv
  OBVIOUS
<1> USE Constants, SizesAssumption, GraceAssumption, NamesAssumption
<1>1. /\ free = [i \in 1 .. N - NListeners |-> NListeners + i - 1]
      /\ DOMAIN free = 1 .. N - NListeners
      /\ \A i \in DOMAIN free : free[i] = NListeners + i - 1
      /\ total = N /\ recycle = {}
  BY DEF Init
<1>2. free \in Seq(Conn)
  <2>1. \A i \in 1 .. N - NListeners : NListeners + i - 1 \in Conn
    BY DEF Conn
  <2>2. N - NListeners \in Nat
    OBVIOUS
  <2> QED
    BY <1>1, <2>1, <2>2
<1>3. InFree = NListeners .. N - 1
  <2>1. \A x \in NListeners .. N - 1 : /\ (x - NListeners) + 1 \in DOMAIN free
                                       /\ free[(x - NListeners) + 1] = x
    BY <1>1
  <2>2. \A i \in DOMAIN free : free[i] \in NListeners .. N - 1
    BY <1>1
  <2> QED
    BY <2>1, <2>2 DEF InFree
<1>4. Fresh = {} /\ InUse = {}
  <2>1. Fresh = {}
    BY DEF Init, Fresh
  <2>2. Created = Listening \cup InFree
    BY <1>1, <1>3 DEF Created, Listening
  <2> QED
    BY <2>1, <2>2 DEF InUse
<1>5. TypeOK
  <2>1. PoolTypeOK
    BY <1>2 DEF Init, PoolTypeOK, Ages
  <2>2. KernelTypeOK
    BY DEF Init, KernelTypeOK
  <2>3. ThreadTypeOK
    BY DEF Init, ThreadTypeOK
  <2> QED
    BY <2>1, <2>2, <2>3 DEF TypeOK
<1>6. PoolBound
  BY <1>1 DEF PoolBound
<1>7. PoolPartition
  <2>1. \A i, j \in DOMAIN free : free[i] = free[j] => i = j
    BY <1>1
  <2> QED
    BY <1>1, <1>3, <1>4, <2>1 DEF PoolPartition, Created, Listening
<1>8. OnlineCount /\ OnlineBound
  BY <1>4, FS_EmptySet DEF Init, OnlineCount, OnlineBound
<1>9. Registered
  BY DEF Init, Registered, Closed
<1>10. NoStrayFd
  <2>1. InFree \subseteq Conn
    BY <1>3 DEF Conn
  <2> QED
    BY <1>1, <2>1 DEF Init, NoStrayFd
<1>11. Pointers
  BY DEF Init, Pointers, Held, Closing
<1>12. Messages /\ Due /\ Places
  BY DEF Init, Messages, Due, Places, Threads, Handlers
<1> QED
  BY <1>5, <1>6, <1>7, <1>8, <1>9, <1>10, <1>11, <1>12 DEF IInv, Shape

LEMMA ShapeStep ==
  ASSUME IInv, [Next]_vars
  PROVE  Shape'
<1>1. CASE UNCHANGED vars
  BY <1>1 DEF vars, poolVars, kernelVars, threadVars, IInv, Shape, PoolPartition,
     OnlineCount, OnlineBound, Registered, NoStrayFd, Pointers, Messages, Due,
     Places, InFree, InUse, Fresh, Created, Held
<1>2. CASE EpollStep
  BY <1>2, EpollWaitStep, AcceptNothingStep, AcceptRefuseStep, AcceptStep,
     GetConnectionStep, RegisterStep, CloseConnectionStep, ReadNothingStep,
     ReadPacketStep, ReadFloodStep, ReadClosedStep, KickOverdueStep
     DEF EpollStep
<1>3. ASSUME NEW t \in Threads, CloseStep(t) PROVE Shape'
  BY <1>3, ZdCheckStep, ZdCloseStep, ZdClearStep, InRecyConnectQueueStep
     DEF CloseStep
<1>4. ASSUME NEW t \in Threads, HandlerStep(t) PROVE Shape'
  BY <1>4, DropStep, BeginStep, DoneStep, ReplyStep, KickStep DEF HandlerStep
<1>5. CASE RecycleStep
  BY <1>5, RecycleScanStep, RecycleFreeStep, RecycleEndStep DEF RecycleStep
<1>6. CASE Tick
  BY <1>6, TickStep
<1> QED
  BY <1>1, <1>2, <1>3, <1>4, <1>5, <1>6 DEF Next

\* IInv holds of every reachable state: Connections, pointers, sequence
\* numbers and the clock keep each other right under every interleaving of
\* the epoll thread, the pool threads, the sender and the recycle thread.
THEOREM Invariance == Spec => []IInv
<1>1. Init => IInv
  BY InitIInv
<1>2. IInv /\ [Next]_vars => IInv'
  BY TypeStep, ShapeStep DEF IInv, Shape
<1> QED
  BY <1>1, <1>2, PTL DEF Spec

\* Every variable keeps its type.
THEOREM TypeCorrect == Spec => []TypeOK
<1>1. IInv => TypeOK
  BY DEF IInv
<1> QED
  BY <1>1, Invariance, PTL

\* No Connection is ever in the free pool twice, or free and parked, or free
\* and in use, whoever closes it and however often.
THEOREM Partition == Spec => []PoolPartition
<1>1. IInv => PoolPartition
  BY DEF IInv, Shape
<1> QED
  BY <1>1, Invariance, PTL

\* online_user_count_ counts the Connections in use, and never more than
\* worker_connections_ of them.
THEOREM OnlineUsers == Spec => [](OnlineCount /\ OnlineBound)
<1>1. IInv => OnlineCount /\ OnlineBound
  BY DEF IInv, Shape
<1> QED
  BY <1>1, Invariance, PTL

\* connection_pool_ never holds more than worker_connections_ * 5 + 1.
THEOREM PoolSize == Spec => []PoolBound
<1>1. IInv => PoolBound
  BY DEF IInv
<1> QED
  BY <1>1, Invariance, PTL

\* If no thread works with its pointers for as long as
\* recycle_connection_wait_time_, no Connection is reused under a thread that
\* still has a pointer to it.
THEOREM Grace == Spec => []GracePeriod
<1>1. IInv => GracePeriod
  <2> SUFFICES ASSUME IInv, NEW t \in Threads
               PROVE  /\ Held(t) \cap InFree = {}
                      /\ pc[t] = "handling" => seq[ref[t]] - hdr[t].seq \in {0, 1}
    BY DEF GracePeriod
  <2>1. Held(t) \cap InFree = {}
    BY DEF IInv, Shape, Pointers, PoolPartition, InUse
  <2>2. hdr[t].seq \in Nat
    BY DEF IInv, TypeOK, ThreadTypeOK, Header
  <2>3. pc[t] = "handling" => seq[ref[t]] - hdr[t].seq \in {0, 1}
    BY <2>2 DEF IInv, Shape, Messages
  <2> QED
    BY <2>1, <2>3
<1> QED
  BY <1>1, Invariance, PTL

-----------------------------------------------------------------------------
(* The descriptors.                                                        *)

\* A registered descriptor is that of a Connection in use, whoever closes it
\* and however often: an event is never for a Connection without a client.
THEOREM Owners == Spec => []Ownership
<1>1. IInv => Ownership
  BY DEF IInv, Shape, Registered, Ownership
<1> QED
  BY <1>1, Invariance, PTL

\* The socket the epoll thread is accepting is nobody's.
Accepting ==
  pc[Epoll] \in {"accepted", "obtained"} => sock[lfd[Epoll]].conn = NoConn

DescriptorInv == OwnDescriptor /\ Accepting

\* The steps that change no descriptor and no field fd, and neither begin nor
\* end an accept or the time between close and forgetting.
LEMMA DescriptorsStay ==
  ASSUME DescriptorInv, UNCHANGED <<sock, fd, robbed>>,
         pc'[Epoll] \in {"accepted", "obtained"} =>
            pc'[Epoll] = pc[Epoll] /\ lfd'[Epoll] = lfd[Epoll],
         pc[Epoll] = "obtained" => pc'[Epoll] = "obtained" /\ ref'[Epoll] = ref[Epoll],
         \A t \in Threads : pc[t] = "zd_clear" => pc'[t] = "zd_clear" /\ ref'[t] = ref[t]
  PROVE  DescriptorInv'
<1>1. OwnDescriptor'
  BY DEF DescriptorInv, OwnDescriptor
<1>2. Accepting'
  BY DEF DescriptorInv, Accepting
<1> QED
  BY <1>1, <1>2 DEF DescriptorInv

LEMMA DescriptorsAccept ==
  ASSUME IInv, DescriptorInv, NEW c \in Conn, NEW k \in Clients, NEW f \in Fds, Accept(c, k, f)
  PROVE  DescriptorInv'
<1> USE Constants DEF DescriptorInv, IInv, TypeOK
<1>1. /\ pc[Epoll] = "batch" /\ pc' = [pc EXCEPT ![Epoll] = "accepted"]
      /\ lfd' = [lfd EXCEPT ![Epoll] = f] /\ sock[f] = Closed
      /\ sock' = [sock EXCEPT ![f] = [client |-> k, conn |-> NoConn]]
      /\ UNCHANGED <<fd, ref, robbed>>
  BY DEF Accept, Dispatch, poolVars
<1>2. sock'[f].conn = NoConn /\ sock[f].conn = NoConn /\ \A g \in Fds : g # f => sock'[g] = sock[g]
  BY <1>1 DEF KernelTypeOK, Closed
<1>3. \A t \in Threads : pc[t] = "zd_clear" => pc'[t] = "zd_clear"
  BY <1>1 DEF ThreadTypeOK
<1>4. OwnDescriptor'
  BY <1>1, <1>2, <1>3 DEF OwnDescriptor, PoolTypeOK
<1>5. Accepting'
  BY <1>1, <1>2 DEF Accepting, ThreadTypeOK
<1> QED
  BY <1>4, <1>5

LEMMA DescriptorsGet ==
  ASSUME IInv, DescriptorInv, GetConnection
  PROVE  DescriptorInv'
<1> USE Constants DEF DescriptorInv, IInv, TypeOK
<1> DEFINE c == IF free = <<>> THEN total ELSE Head(free)
<1>1. /\ pc[Epoll] = "accepted" /\ pc' = [pc EXCEPT ![Epoll] = "obtained"]
      /\ ref' = [ref EXCEPT ![Epoll] = c] /\ fd' = [fd EXCEPT ![c] = lfd[Epoll]]
      /\ UNCHANGED <<sock, lfd, robbed>>
  BY DEF GetConnection, kernelVars
<1> HIDE DEF c
<1>2. /\ pc'[Epoll] = "obtained" /\ ref'[Epoll] = c
      /\ \A t \in Threads : pc[t] = "zd_clear" => pc'[t] = "zd_clear" /\ ref'[t] = ref[t]
      /\ \A d \in Conn : d # c => fd'[d] = fd[d]
  BY <1>1 DEF ThreadTypeOK, PoolTypeOK
<1>3. OwnDescriptor'
  BY <1>1, <1>2 DEF OwnDescriptor
<1>4. Accepting'
  BY <1>1, <1>2 DEF Accepting
<1> QED
  BY <1>3, <1>4

LEMMA DescriptorsRegister ==
  ASSUME IInv, DescriptorInv, Register
  PROVE  DescriptorInv'
<1> USE Constants DEF DescriptorInv, IInv, TypeOK
<1>1. /\ pc[Epoll] = "obtained" /\ pc' = [pc EXCEPT ![Epoll] = NextEvent]
      /\ sock' = [sock EXCEPT ![lfd[Epoll]].conn = ref[Epoll]]
      /\ ref' = [ref EXCEPT ![Epoll] = 0] /\ UNCHANGED <<fd, robbed>>
  BY DEF Register, Forget
<1>2. lfd[Epoll] \in Fds /\ fd[ref[Epoll]] = lfd[Epoll] /\ sock[lfd[Epoll]].conn = NoConn /\ ref[Epoll] \in Conn
  BY <1>1 DEF Shape, Places, Accepting, ThreadTypeOK
<1>3. \A f \in Fds : sock'[f].conn = IF f = lfd[Epoll] THEN ref[Epoll] ELSE sock[f].conn
  BY <1>1, <1>2 DEF KernelTypeOK, Socket
<1>4. /\ pc'[Epoll] \in {"idle", "batch"}
      /\ \A t \in Threads : pc[t] = "zd_clear" => pc'[t] = "zd_clear" /\ ref'[t] = ref[t]
  BY <1>1 DEF ThreadTypeOK, NextEvent
<1>5. OwnDescriptor'
  <2> SUFFICES ASSUME NEW d \in Conn, fd[d] # NoFd
               PROVE  \/ sock'[fd[d]].conn = d
                      \/ \E t \in Threads : pc'[t] = "zd_clear" /\ ref'[t] = d
                      \/ d \in robbed'
    BY <1>1 DEF OwnDescriptor
  <2>1. fd[d] \in Fds
    BY DEF PoolTypeOK
  <2>2. CASE d = ref[Epoll]
    BY <1>2, <1>3, <2>2
  <2>3. CASE d # ref[Epoll] /\ sock[fd[d]].conn = d
    BY <1>2, <1>3, <2>1, <2>3
  <2>4. CASE d # ref[Epoll] /\ sock[fd[d]].conn # d
    <3>1. d \in robbed \/ \E t \in Threads : pc[t] = "zd_clear" /\ ref[t] = d
      BY <2>4 DEF OwnDescriptor
    <3> QED
      BY <1>1, <1>4, <3>1
  <2> QED
    BY <2>2, <2>3, <2>4
<1>6. Accepting'
  BY <1>4 DEF Accepting
<1> QED
  BY <1>5, <1>6

LEMMA DescriptorsCloseConnection ==
  ASSUME IInv, DescriptorInv, CloseConnection
  PROVE  DescriptorInv'
<1> USE Constants, NamesAssumption DEF DescriptorInv, IInv, TypeOK
<1> DEFINE c == ref[Epoll]
<1>1. /\ pc[Epoll] = "obtained" /\ pc' = [pc EXCEPT ![Epoll] = NextEvent]
      /\ sock' = [sock EXCEPT ![fd[c]] = Closed] /\ fd' = [fd EXCEPT ![c] = NoFd]
      /\ ref' = [ref EXCEPT ![Epoll] = 0] /\ UNCHANGED robbed
  BY DEF CloseConnection, Forget
<1>2. lfd[Epoll] \in Fds /\ fd[c] = lfd[Epoll] /\ sock[lfd[Epoll]].conn = NoConn /\ c \in Conn
  BY <1>1 DEF Shape, Places, Accepting, ThreadTypeOK
<1>3. /\ pc'[Epoll] \in {"idle", "batch"}
      /\ \A t \in Threads : pc[t] = "zd_clear" => pc'[t] = "zd_clear" /\ ref'[t] = ref[t]
  BY <1>1 DEF ThreadTypeOK, NextEvent
<1>4. \A f \in Fds : sock'[f].conn = sock[f].conn
  BY <1>1, <1>2 DEF KernelTypeOK, Closed
<1> HIDE DEF c
<1>5. OwnDescriptor'
  <2> SUFFICES ASSUME NEW d \in Conn, fd'[d] # NoFd
               PROVE  \/ sock'[fd'[d]].conn = d
                      \/ \E t \in Threads : pc'[t] = "zd_clear" /\ ref'[t] = d
                      \/ d \in robbed'
    BY DEF OwnDescriptor
  <2>1. d # c /\ fd'[d] = fd[d] /\ fd[d] \in Fds
    BY <1>1, <1>2 DEF PoolTypeOK
  <2> QED
    BY <1>1, <1>3, <1>4, <2>1 DEF OwnDescriptor, c
<1>6. Accepting'
  BY <1>3 DEF Accepting
<1> QED
  BY <1>5, <1>6

\* Whose descriptor a closer finds to be another's: it is lost already.
LEMMA DescriptorsClose ==
  ASSUME IInv, DescriptorInv, NEW t \in Threads, ZdClose(t)
  PROVE  DescriptorInv'
<1> USE Constants, NamesAssumption DEF DescriptorInv, IInv, TypeOK
<1>0. PICK c \in Conn : c = ref[t]
  BY DEF ThreadTypeOK
<1>1. /\ pc[t] = "zd_close" /\ pc' = [pc EXCEPT ![t] = "zd_clear"] /\ UNCHANGED <<fd, ref, lfd>>
      /\ robbed \subseteq robbed'
  BY DEF ZdClose, poolVars
<1>2. /\ pc'[t] = "zd_clear" /\ \A u \in Threads : u # t => pc'[u] = pc[u]
  BY <1>1 DEF ThreadTypeOK
<1>3. CASE fd[c] = NoFd
  <2>1. UNCHANGED <<sock, robbed>>
    BY <1>0, <1>3 DEF ZdClose
  <2> QED
    BY <1>0, <1>1, <1>2, <2>1, DescriptorsStay
<1>4. CASE fd[c] # NoFd
  <2>1. /\ fd[c] \in Fds /\ sock' = [sock EXCEPT ![fd[c]] = Closed]
        /\ Lost(t, c) /\ sock[fd[c]].conn \notin {c, NoConn} => sock[fd[c]].conn \in robbed'
    BY <1>0, <1>4 DEF ZdClose, PoolTypeOK
  <2>2. \A f \in Fds : sock'[f].conn = IF f = fd[c] THEN NoConn ELSE sock[f].conn
    BY <2>1 DEF KernelTypeOK, Closed
  <2>3. sock[fd[c]].conn = c \/ Lost(t, c)
    <3>1. ~ (pc[Epoll] = "obtained" /\ ref[Epoll] = c)
      <4>1. c \in InUse \cup recycle
        BY <1>0, <1>1 DEF Shape, Pointers, Held, Closing
      <4> QED
        BY <4>1 DEF Shape, InUse, Fresh, PoolPartition
    <3> QED
      BY <1>1, <1>4, <3>1 DEF OwnDescriptor, Lost
  <2>4. OwnDescriptor'
    <3> SUFFICES ASSUME NEW d \in Conn, fd[d] # NoFd
                 PROVE  \/ sock'[fd[d]].conn = d
                        \/ pc'[Epoll] = "obtained" /\ ref[Epoll] = d
                        \/ \E u \in Threads : pc'[u] = "zd_clear" /\ ref[u] = d
                        \/ d \in robbed'
      BY <1>1 DEF OwnDescriptor
    <3>1. CASE d = c
      BY <1>0, <1>2, <3>1
    <3>2. CASE d # c /\ sock[fd[d]].conn = d /\ fd[d] = fd[c]
      BY <2>1, <2>3, <3>2
    <3>3. CASE d # c /\ (sock[fd[d]].conn # d \/ fd[d] # fd[c])
      <4>1. fd[d] \in Fds
        BY DEF PoolTypeOK
      <4> QED
        BY <1>1, <1>2, <2>2, <3>3, <4>1 DEF OwnDescriptor
    <3> QED
      BY <3>1, <3>2, <3>3
  <2>5. Accepting'
    <3>1. pc'[Epoll] \in {"accepted", "obtained"} => lfd[Epoll] \in Fds /\ pc[Epoll] = pc'[Epoll]
      BY <1>2 DEF Shape, Places
    <3> QED
      BY <1>1, <2>2, <3>1 DEF Accepting
  <2> QED
    BY <2>4, <2>5
<1> QED
  BY <1>3, <1>4

LEMMA DescriptorsClear ==
  ASSUME IInv, DescriptorInv, NEW t \in Threads, ZdClear(t)
  PROVE  DescriptorInv'
<1> USE Constants DEF DescriptorInv, IInv, TypeOK
<1>0. PICK c \in Conn : c = ref[t]
  BY DEF ThreadTypeOK
<1>1. /\ pc[t] = "zd_clear" /\ pc' = [pc EXCEPT ![t] = "zd_recycle"]
      /\ fd' = [fd EXCEPT ![c] = NoFd] /\ robbed' = robbed \ {c}
      /\ UNCHANGED <<sock, ref, lfd>>
  BY <1>0 DEF ZdClear
<1>2. /\ pc'[t] = "zd_recycle" /\ \A u \in Threads : u # t => pc'[u] = pc[u]
      /\ \A d \in Conn : fd'[d] = IF d = c THEN NoFd ELSE fd[d]
  BY <1>1 DEF ThreadTypeOK, PoolTypeOK
<1>3. OwnDescriptor'
  BY <1>0, <1>1, <1>2 DEF OwnDescriptor
<1>4. Accepting'
  BY <1>1, <1>2 DEF Accepting
<1> QED
  BY <1>3, <1>4

LEMMA DescriptorsStep ==
  ASSUME IInv, DescriptorInv, [Next]_vars
  PROVE  DescriptorInv'
<1> USE Constants, NamesAssumption DEF IInv, TypeOK
<1>1. CASE UNCHANGED vars \/ RecycleStep \/ Tick
  <2>1. UNCHANGED <<sock, fd, robbed, lfd, pc, ref>>
    BY <1>1 DEF vars, poolVars, kernelVars, threadVars, RecycleStep, RecycleScan, RecycleFree,
            RecycleEnd, Tick
  <2> QED
    BY <2>1, DescriptorsStay
<1>2. ASSUME NEW c \in Conn,
             \/ EpollWait \/ AcceptNothing(c) \/ ReadNothing(c) \/ ReadPacket(c) \/ ReadFlood(c)
             \/ ReadClosed(c) \/ KickOverdue(c) \/ \E k \in Clients : AcceptRefuse(c, k)
      PROVE  DescriptorInv'
  <2>1. /\ pc[Epoll] \in {"batch", "idle"} /\ pc'[Epoll] \in {"batch", "idle", "zd_check"}
        /\ UNCHANGED <<sock, fd, robbed, lfd>>
        /\ \A t \in Threads : t # Epoll => pc'[t] = pc[t] /\ ref'[t] = ref[t]
    BY <1>2 DEF EpollWait, AcceptNothing, AcceptRefuse, ReadNothing, ReadPacket, ReadFlood, ReadClosed,
            KickOverdue, Dispatch, NextEvent, poolVars, kernelVars, ThreadTypeOK
  <2> QED
    BY <2>1, DescriptorsStay
<1>3. CASE EpollStep
  BY <1>2, <1>3, DescriptorsAccept, DescriptorsGet, DescriptorsRegister, DescriptorsCloseConnection
     DEF EpollStep
<1>4. ASSUME NEW t \in Threads, ZdCheck(t) \/ InRecyConnectQueue(t) PROVE DescriptorInv'
  <2>1. /\ UNCHANGED <<sock, fd, robbed>> /\ pc[t] \in {"zd_check", "zd_recycle"}
        /\ pc'[t] \in {"zd_check", "zd_close", "zd_recycle", "idle", "batch"}
        /\ \A u \in Threads : u # t => pc'[u] = pc[u] /\ ref'[u] = ref[u] /\ lfd'[u] = lfd[u]
    BY <1>4 DEF ZdCheck, InRecyConnectQueue, Return, Forget, NextEvent, poolVars, kernelVars, ThreadTypeOK
  <2> QED
    BY <2>1, DescriptorsStay
<1>5. ASSUME NEW t \in Threads, HandlerStep(t) PROVE DescriptorInv'
  <2>1. CASE \E m \in msgs : Drop(t, m)
    <3>1. UNCHANGED <<sock, fd, robbed, lfd, pc, ref>>
      BY <2>1 DEF Drop, poolVars, kernelVars, threadVars
    <3> QED
      BY <3>1, DescriptorsStay
  <2>2. CASE ~ \E m \in msgs : Drop(t, m)
    <3>1. /\ UNCHANGED <<sock, fd, robbed>> /\ t # Epoll /\ pc[t] \in {"idle", "handling"}
          /\ \A u \in Threads : u # t => pc'[u] = pc[u] /\ ref'[u] = ref[u] /\ lfd'[u] = lfd[u]
      BY <1>5, <2>2 DEF HandlerStep, Begin, Done, Reply, Kick, Forget, poolVars, kernelVars, ThreadTypeOK,
              Handlers
    <3> QED
      BY <3>1, DescriptorsStay
  <2> QED
    BY <2>1, <2>2
<1> QED
  BY <1>1, <1>3, <1>4, <1>5, DescriptorsClose, DescriptorsClear DEF Next, CloseStep

LEMMA DescriptorsInvariance == Spec => []DescriptorInv
<1>1. Init => DescriptorInv
  BY Constants DEF Init, DescriptorInv, OwnDescriptor, Accepting
<1> QED
  BY <1>1, DescriptorsStep, Invariance, PTL DEF Spec

\* Whoever closes, a Connection has its descriptor to itself, but for the time
\* of an accept and that between a close and the forgetting of fd, until
\* another closer that has found the same fd in that time closes it once more.
THEOREM OwnDescriptors == Spec => []OwnDescriptor
<1>1. DescriptorInv => OwnDescriptor
  BY DEF DescriptorInv
<1> QED
  BY <1>1, DescriptorsInvariance, PTL

-----------------------------------------------------------------------------
(* Replies, as long as the epoll thread is the only one that closes.       *)

\* What the pool threads and the sending thread do then.
HandlersHandle == \A t \in Handlers : pc[t] \in {"idle", "handling"}

\* The epoll thread has a socket to itself from accept on, closes it once, ...
OwnSocket ==
  /\ pc[Epoll] \in {"accepted", "obtained"} =>
       sock[lfd[Epoll]].client # NoClient /\ sock[lfd[Epoll]].conn = NoConn
  /\ pc[Epoll] = "zd_close" => fd[ref[Epoll]] # NoFd

\* ... and it is the Connection's otherwise.
OwnSocketOnly ==
  \A c \in Conn :
    fd[c] # NoFd => \/ sock[fd[c]].conn = c
                    \/ pc[Epoll] \in {"obtained", "zd_clear"} /\ ref[Epoll] = c

\* A message that is not out of date came from the client its Connection has.
Asker(c, k) == fd[c] # NoFd => sock[fd[c]].client \in {k, NoClient}
Askers ==
  /\ \A m \in msgs : m.seq = seq[m.conn] => Asker(m.conn, m.from)
  /\ \A t \in Handlers : pc[t] = "handling" => Asker(ref[t], hdr[t].from)

OwnerInv == HandlersHandle /\ OwnSocketOnly /\ OwnSocket /\ Askers

\* The steps that change no descriptor, no field fd and no sequence number.
LEMMA QuietStep ==
  ASSUME IInv, OwnerInv, UNCHANGED <<sock, fd, seq, lfd[Epoll]>>,
         pc'[Epoll] \notin {"accepted", "zd_close"},
         pc'[Epoll] \in {"obtained"} <=> pc[Epoll] \in {"obtained"},
         pc[Epoll] = "obtained" => ref'[Epoll] = ref[Epoll],
         pc[Epoll] # "zd_clear",
         msgs' \subseteq msgs,
         \A t \in Handlers : pc'[t] = "idle" \/ UNCHANGED <<pc[t], ref[t], hdr[t]>>
  PROVE  OwnerInv'
<1> USE DEF OwnerInv
<1>1. HandlersHandle'
  BY DEF HandlersHandle
<1>2. OwnSocketOnly'
  BY DEF OwnSocketOnly
<1>3. OwnSocket'
  BY DEF OwnSocket
<1>4. Askers'
  BY DEF Askers, Asker
<1> QED
  BY <1>1, <1>2, <1>3, <1>4

LEMMA OwnerAccept ==
  ASSUME IInv, OwnerInv, NEW c \in Conn, NEW k \in Clients, NEW f \in Fds, Accept(c, k, f)
  PROVE  OwnerInv'
<1> USE Constants, NamesAssumption DEF OwnerInv, IInv, TypeOK
<1>1. /\ pc[Epoll] = "batch" /\ pc' = [pc EXCEPT ![Epoll] = "accepted"]
      /\ lfd' = [lfd EXCEPT ![Epoll] = f] /\ sock[f] = Closed
      /\ sock' = [sock EXCEPT ![f] = [client |-> k, conn |-> NoConn]]
      /\ UNCHANGED <<fd, seq, msgs, ref, hdr>>
  BY DEF Accept, Dispatch, poolVars
<1>2. \A d \in Conn : fd[d] # f
  BY <1>1 DEF OwnSocketOnly, Closed, KernelTypeOK
<1>3. HandlersHandle' /\ OwnSocket'
  BY <1>1 DEF HandlersHandle, OwnSocket, ThreadTypeOK, KernelTypeOK, Handlers
<1>4. OwnSocketOnly'
  BY <1>1, <1>2 DEF OwnSocketOnly, ThreadTypeOK, KernelTypeOK, PoolTypeOK
<1>5. Askers'
  <2>1. ASSUME NEW d \in Conn, NEW j, Asker(d, j) PROVE Asker(d, j)'
    BY <1>1, <1>2, <2>1 DEF Asker, KernelTypeOK, PoolTypeOK
  <2>2. /\ \A m \in msgs : m.conn \in Conn
        /\ \A t \in Handlers : pc'[t] = pc[t] /\ ref[t] \in Conn
    BY <1>1 DEF ThreadTypeOK, KernelTypeOK, Header, Handlers
  <2> QED BY <1>1, <2>1, <2>2 DEF Askers
<1> QED
  BY <1>3, <1>4, <1>5

LEMMA OwnerGet ==
  ASSUME IInv, OwnerInv, GetConnection
  PROVE  OwnerInv'
<1> USE Constants, NamesAssumption DEF OwnerInv, IInv, TypeOK
<1> DEFINE c == IF free = <<>> THEN total ELSE Head(free)
<1>1. /\ pc[Epoll] = "accepted" /\ pc' = [pc EXCEPT ![Epoll] = "obtained"]
      /\ ref' = [ref EXCEPT ![Epoll] = c] /\ fd' = [fd EXCEPT ![c] = lfd[Epoll]]
      /\ seq' = [seq EXCEPT ![c] = @ + 1]
      /\ UNCHANGED <<sock, msgs, hdr, lfd>>
  BY DEF GetConnection, kernelVars
<1>2. c \notin InUse \cup recycle
  <2>1. CASE free = <<>>
    <3>1. total \notin Created /\ recycle \subseteq Created
      BY DEF Created, PoolTypeOK, Shape, PoolPartition
    <3> QED BY <2>1, <3>1 DEF InUse
  <2>2. CASE free # <<>>
    <3>1. c \in InFree
      BY <2>2, HeadTailProperties, EmptySeq, LenProperties DEF InFree, PoolTypeOK
    <3> QED BY <3>1 DEF InUse, Shape, PoolPartition
  <2> QED BY <2>1, <2>2
<1> HIDE DEF c
<1>3. lfd[Epoll] \in Fds
  BY <1>1 DEF Shape, Places
<1>4. HandlersHandle' /\ OwnSocket'
  BY <1>1 DEF HandlersHandle, OwnSocket, ThreadTypeOK, Handlers
<1>5. OwnSocketOnly'
  BY <1>1, <1>3 DEF OwnSocketOnly, OwnSocket, ThreadTypeOK, KernelTypeOK, PoolTypeOK
<1>6. Askers'
  <2>1. ASSUME NEW m \in msgs', m.seq = seq'[m.conn] PROVE Asker(m.conn, m.from)'
    <3>1. m.conn \in Conn /\ m.seq \in Nat /\ m.seq <= seq[m.conn] /\ seq[m.conn] \in Nat /\ m \in msgs
      BY <1>1, <2>1 DEF Shape, Messages, KernelTypeOK, PoolTypeOK, Header
    <3>2. m.conn # c
      BY <1>1, <2>1, <3>1 DEF PoolTypeOK
    <3> QED BY <1>1, <2>1, <3>1, <3>2 DEF Askers, Asker, PoolTypeOK
  <2>2. ASSUME NEW t \in Handlers, pc'[t] = "handling" PROVE Asker(ref[t], hdr[t].from)'
    <3>1. t # Epoll /\ pc[t] = "handling" /\ ref'[t] = ref[t] /\ hdr'[t] = hdr[t] /\ ref[t] \in Conn
      BY <1>1, <2>2 DEF ThreadTypeOK, Handlers
    <3>2. ref[t] # c
      BY <1>2, <3>1 DEF Shape, Pointers, Held
    <3> QED BY <1>1, <3>1, <3>2 DEF Askers, Asker, PoolTypeOK
  <2> QED BY <1>1, <2>1, <2>2 DEF Askers
<1> QED
  BY <1>4, <1>5, <1>6

LEMMA OwnerRegister ==
  ASSUME IInv, OwnerInv, Register
  PROVE  OwnerInv'
<1> USE Constants, NamesAssumption DEF OwnerInv, IInv, TypeOK
<1>1. /\ pc[Epoll] = "obtained" /\ pc' = [pc EXCEPT ![Epoll] = NextEvent]
      /\ sock' = [sock EXCEPT ![lfd[Epoll]].conn = ref[Epoll]]
      /\ ref' = [ref EXCEPT ![Epoll] = 0] /\ hdr' = [hdr EXCEPT ![Epoll] = NoHeader]
      /\ UNCHANGED <<fd, seq, msgs>>
  BY DEF Register, Forget
<1>2. lfd[Epoll] \in Fds /\ fd[ref[Epoll]] = lfd[Epoll] /\ sock[lfd[Epoll]].conn = NoConn
  BY <1>1 DEF Shape, Places, OwnSocket
<1>3. /\ \A f \in Fds : sock'[f].client = sock[f].client
      /\ \A f \in Fds : sock'[f].conn = IF f = lfd[Epoll] THEN ref[Epoll] ELSE sock[f].conn
  BY <1>1, <1>2 DEF KernelTypeOK, Socket
<1>4. HandlersHandle' /\ OwnSocket'
  BY <1>1 DEF HandlersHandle, OwnSocket, ThreadTypeOK, Handlers, NextEvent
<1>5. OwnSocketOnly'
  BY <1>1, <1>2, <1>3 DEF OwnSocketOnly, ThreadTypeOK, PoolTypeOK
<1>6. Askers'
  <2>1. ASSUME NEW d \in Conn, NEW j, Asker(d, j) PROVE Asker(d, j)'
    BY <1>1, <1>3, <2>1 DEF Asker, PoolTypeOK
  <2>2. /\ \A m \in msgs : m.conn \in Conn
        /\ \A t \in Handlers : pc'[t] = pc[t] /\ ref'[t] = ref[t] /\ hdr'[t] = hdr[t] /\ ref[t] \in Conn
    BY <1>1 DEF ThreadTypeOK, KernelTypeOK, Header, Handlers
  <2> QED BY <1>1, <2>1, <2>2 DEF Askers
<1> QED
  BY <1>4, <1>5, <1>6

LEMMA OwnerCloseConnection ==
  ASSUME IInv, OwnerInv, CloseConnection
  PROVE  OwnerInv'
<1> USE Constants, NamesAssumption DEF OwnerInv, IInv, TypeOK
<1> DEFINE c == ref[Epoll]
<1>1. /\ pc[Epoll] = "obtained" /\ pc' = [pc EXCEPT ![Epoll] = NextEvent]
      /\ sock' = [sock EXCEPT ![fd[c]] = Closed] /\ fd' = [fd EXCEPT ![c] = NoFd]
      /\ seq' = [seq EXCEPT ![c] = @ + 1]
      /\ ref' = [ref EXCEPT ![Epoll] = 0] /\ hdr' = [hdr EXCEPT ![Epoll] = NoHeader]
      /\ UNCHANGED msgs
  BY DEF CloseConnection, Forget
<1>2. lfd[Epoll] \in Fds /\ fd[c] = lfd[Epoll] /\ sock[lfd[Epoll]].conn = NoConn /\ c \in Conn
  BY <1>1 DEF Shape, Places, OwnSocket, ThreadTypeOK
<1>3. \A d \in Conn : d # c => fd[d] # fd[c]
  BY <1>1, <1>2 DEF OwnSocketOnly
<1> HIDE DEF c
<1>4. HandlersHandle' /\ OwnSocket'
  BY <1>1 DEF HandlersHandle, OwnSocket, ThreadTypeOK, Handlers, NextEvent
<1>5. OwnSocketOnly'
  BY <1>1, <1>2, <1>3 DEF OwnSocketOnly, ThreadTypeOK, PoolTypeOK, KernelTypeOK, c
<1>6. Askers'
  <2>1. ASSUME NEW d \in Conn, NEW j, d # c => Asker(d, j) PROVE Asker(d, j)'
    BY <1>1, <1>2, <1>3, <2>1 DEF Asker, PoolTypeOK, KernelTypeOK
  <2>2. \A m \in msgs : m.conn \in Conn /\ (m.conn # c => seq'[m.conn] = seq[m.conn])
    BY <1>1 DEF PoolTypeOK, KernelTypeOK, Header
  <2>3. \A t \in Handlers : pc'[t] = pc[t] /\ ref'[t] = ref[t] /\ hdr'[t] = hdr[t] /\ ref[t] \in Conn
    BY <1>1 DEF ThreadTypeOK, Handlers
  <2> QED BY <1>1, <2>1, <2>2, <2>3 DEF Askers
<1> QED
  BY <1>4, <1>5, <1>6

LEMMA OwnerReadPacket ==
  ASSUME IInv, OwnerInv, NEW c \in Conn, ReadPacket(c)
  PROVE  OwnerInv'
<1> USE Constants, NamesAssumption DEF OwnerInv, IInv, TypeOK
<1> DEFINE new == [conn |-> c, seq |-> seq[c], kind |-> "request", from |-> sock[fd[c]].client]
<1>1. /\ pc[Epoll] = "batch" /\ pc' = [pc EXCEPT ![Epoll] = NextEvent]
      /\ msgs' = msgs \cup {new}
      /\ UNCHANGED <<sock, fd, seq, lfd, ref, hdr>>
  BY DEF ReadPacket, Dispatch, poolVars, kernelVars
<1>2. HandlersHandle' /\ OwnSocket' /\ OwnSocketOnly'
  BY <1>1 DEF HandlersHandle, OwnSocket, OwnSocketOnly, ThreadTypeOK, Handlers, NextEvent
<1>3. ASSUME NEW m \in msgs', m.seq = seq'[m.conn] PROVE Asker(m.conn, m.from)'
  <2>1. CASE m = new
    BY <1>1, <2>1 DEF Asker
  <2>2. CASE m \in msgs
    BY <1>1, <1>3, <2>2 DEF Askers, Asker
  <2> QED BY <1>1, <2>1, <2>2
<1>4. ASSUME NEW t \in Handlers, pc'[t] = "handling" PROVE Asker(ref[t], hdr[t].from)'
  <2>1. pc'[t] = pc[t]
    BY <1>1 DEF ThreadTypeOK, Handlers
  <2> QED BY <1>1, <1>4, <2>1 DEF Askers, Asker
<1> QED
  BY <1>2, <1>3, <1>4 DEF Askers

LEMMA OwnerClose ==
  ASSUME IInv, OwnerInv, ZdCheck(Epoll) \/ ZdClose(Epoll) \/ ZdClear(Epoll)
  PROVE  OwnerInv'
<1> USE Constants, NamesAssumption DEF OwnerInv, IInv, TypeOK
<1> DEFINE c == ref[Epoll]
<1>1. UNCHANGED <<seq, msgs, ref, hdr>> /\ c \in Conn
  BY DEF ZdCheck, ZdClose, ZdClear, poolVars, ThreadTypeOK
<1>2. HandlersHandle'
  BY DEF ZdCheck, ZdClose, ZdClear, HandlersHandle, ThreadTypeOK, Handlers
<1>3. \A t \in Handlers : pc'[t] = pc[t] /\ ref[t] \in Conn
  BY DEF ZdCheck, ZdClose, ZdClear, ThreadTypeOK, Handlers
<1>4. \A m \in msgs : m.conn \in Conn
  BY DEF KernelTypeOK, Header
<1>5. CASE ZdCheck(Epoll)
  <2>1. UNCHANGED <<sock, fd, lfd>> /\ pc[Epoll] = "zd_check"
        /\ pc'[Epoll] = IF fd[c] = NoFd THEN "zd_recycle" ELSE "zd_close"
    BY <1>5 DEF ZdCheck, poolVars, kernelVars, ThreadTypeOK
  <2>2. OwnSocketOnly' /\ OwnSocket'
    BY <1>1, <2>1 DEF OwnSocketOnly, OwnSocket, ThreadTypeOK
  <2>3. Askers'
    BY <1>1, <1>3, <2>1 DEF Askers, Asker
  <2> QED BY <1>2, <2>2, <2>3
<1>6. CASE ZdClose(Epoll)
  <2>1. UNCHANGED <<fd, lfd>> /\ pc[Epoll] = "zd_close" /\ pc'[Epoll] = "zd_clear"
    BY <1>6 DEF ZdClose, poolVars, ThreadTypeOK
  <2>2. fd[c] \in Fds /\ sock' = [sock EXCEPT ![fd[c]] = Closed]
    BY <1>1, <1>6, <2>1 DEF OwnSocket, PoolTypeOK, ZdClose
  <2>3. \A d \in Conn : d # c => fd[d] # fd[c]
    BY <1>1, <2>1, <2>2 DEF OwnSocketOnly
  <2>4. OwnSocketOnly' /\ OwnSocket'
    BY <1>1, <2>1, <2>2, <2>3 DEF OwnSocketOnly, OwnSocket, KernelTypeOK, PoolTypeOK
  <2>5. \A d \in Conn : \A k : Asker(d, k) => Asker(d, k)'
    BY <2>1, <2>2 DEF Asker, KernelTypeOK, PoolTypeOK, Closed
  <2>6. Askers'
    BY <1>1, <1>3, <1>4, <2>5 DEF Askers
  <2> QED BY <1>2, <2>4, <2>6
<1>7. CASE ZdClear(Epoll)
  <2>1. UNCHANGED <<sock, lfd>> /\ pc[Epoll] = "zd_clear" /\ pc'[Epoll] = "zd_recycle"
        /\ fd' = [fd EXCEPT ![c] = NoFd]
    BY <1>7 DEF ZdClear, ThreadTypeOK
  <2>2. OwnSocketOnly' /\ OwnSocket'
    BY <1>1, <2>1 DEF OwnSocketOnly, OwnSocket, PoolTypeOK
  <2>3. \A d \in Conn : \A k : Asker(d, k) => Asker(d, k)'
    BY <2>1 DEF Asker, PoolTypeOK
  <2>4. Askers'
    BY <1>1, <1>3, <1>4, <2>3 DEF Askers
  <2> QED BY <1>2, <2>2, <2>4
<1> QED
  BY <1>5, <1>6, <1>7

\* A Connection is parked, or given back: its sequence number moves on.
LEMMA OwnerRecycles ==
  ASSUME IInv, OwnerInv, NEW d \in Conn,
         InRecyConnectQueue(Epoll) \/ RecycleFree(d)
  PROVE  OwnerInv'
<1> USE Constants, NamesAssumption DEF OwnerInv, IInv, TypeOK
<1>1. UNCHANGED <<sock, fd, msgs>>
  BY DEF InRecyConnectQueue, RecycleFree, kernelVars
<1>2. \A t \in Handlers : UNCHANGED <<pc[t], ref[t], hdr[t]>>
  BY DEF InRecyConnectQueue, RecycleFree, Return, Forget, threadVars, ThreadTypeOK, Handlers
<1>3. \A c \in Conn : seq[c] \in Nat /\ seq'[c] \in {seq[c], seq[c] + 1}
  BY DEF InRecyConnectQueue, RecycleFree, PoolTypeOK
<1>4. HandlersHandle'
  BY <1>2 DEF HandlersHandle
<1>5. OwnSocketOnly' /\ OwnSocket'
  <2>1. CASE InRecyConnectQueue(Epoll)
    <3>1. pc[Epoll] = "zd_recycle" /\ pc'[Epoll] \in {"zd_check", "idle", "batch"}
      BY <2>1 DEF InRecyConnectQueue, Return, NextEvent, ThreadTypeOK
    <3> QED BY <1>1, <3>1 DEF OwnSocketOnly, OwnSocket
  <2>2. CASE RecycleFree(d)
    BY <1>1, <2>2 DEF OwnSocketOnly, OwnSocket, RecycleFree, threadVars
  <2> QED BY <2>1, <2>2
<1>6. Askers'
  <2>1. ASSUME NEW m \in msgs', m.seq = seq'[m.conn] PROVE Asker(m.conn, m.from)'
    <3>1. m \in msgs /\ m.conn \in Conn /\ m.seq \in Nat /\ m.seq <= seq[m.conn]
      BY <1>1, <2>1 DEF Shape, Messages, KernelTypeOK, Header
    <3>2. m.seq = seq[m.conn]
      BY <1>3, <2>1, <3>1
    <3> QED BY <1>1, <3>1, <3>2 DEF Askers, Asker
  <2> QED BY <1>1, <1>2, <2>1 DEF Askers, Asker
<1> QED
  BY <1>4, <1>5, <1>6

LEMMA OwnerBegin ==
  ASSUME IInv, OwnerInv, NEW t \in Handlers, NEW m \in msgs, Begin(t, m)
  PROVE  OwnerInv'
<1> USE Constants, NamesAssumption DEF OwnerInv, IInv, TypeOK
<1>1. /\ pc[t] = "idle" /\ seq[m.conn] = m.seq
      /\ pc' = [pc EXCEPT ![t] = "handling"] /\ ref' = [ref EXCEPT ![t] = m.conn]
      /\ hdr' = [hdr EXCEPT ![t] = m] /\ msgs' \subseteq msgs
      /\ UNCHANGED <<sock, fd, seq, lfd>> /\ t \in Threads /\ t # Epoll
  BY DEF Begin, Take, poolVars, kernelVars, Handlers
<1>2. HandlersHandle' /\ OwnSocket' /\ OwnSocketOnly'
  BY <1>1 DEF HandlersHandle, OwnSocket, OwnSocketOnly, ThreadTypeOK, Handlers
<1>3. Askers'
  BY <1>1 DEF Askers, Asker, ThreadTypeOK, Handlers
<1> QED
  BY <1>2, <1>3

LEMMA OwnerReply ==
  ASSUME IInv, OwnerInv, NEW t \in Handlers, Reply(t)
  PROVE  OwnerInv'
<1> USE Constants, NamesAssumption DEF OwnerInv, IInv, TypeOK
<1> DEFINE new == [hdr[t] EXCEPT !.kind = "reply"]
<1>1. /\ pc[t] = "handling" /\ pc' = [pc EXCEPT ![t] = "idle"]
      /\ ref' = [ref EXCEPT ![t] = 0] /\ hdr' = [hdr EXCEPT ![t] = NoHeader]
      /\ lfd' = [lfd EXCEPT ![t] = NoFd] /\ msgs' = msgs \cup {new}
      /\ UNCHANGED <<sock, fd, seq>> /\ t \in Threads /\ t # Epoll
  BY DEF Reply, Forget, poolVars, kernelVars, Handlers
<1>2. HandlersHandle' /\ OwnSocket' /\ OwnSocketOnly'
  BY <1>1 DEF HandlersHandle, OwnSocket, OwnSocketOnly, ThreadTypeOK, Handlers
<1>3. new.conn = ref[t] /\ new.from = hdr[t].from
  BY <1>1 DEF Shape, Messages, ThreadTypeOK, Header
<1>4. ASSUME NEW m \in msgs', m.seq = seq'[m.conn] PROVE Asker(m.conn, m.from)'
  <2>1. CASE m = new
    <3>1. Asker(ref[t], hdr[t].from)
      BY <1>1 DEF Askers
    <3>2. Asker(ref[t], hdr[t].from) = Asker(m.conn, m.from)
      BY <1>3, <2>1
    <3> QED BY <1>1, <3>1, <3>2 DEF Asker
  <2>2. CASE m \in msgs
    BY <1>1, <1>4, <2>2 DEF Askers, Asker
  <2> QED BY <1>1, <2>1, <2>2
<1>5. ASSUME NEW u \in Handlers, pc'[u] = "handling" PROVE Asker(ref[u], hdr[u].from)'
  <2>1. UNCHANGED <<pc[u], ref[u], hdr[u]>>
    BY <1>1, <1>5 DEF ThreadTypeOK, Handlers
  <2> QED BY <1>1, <1>5, <2>1 DEF Askers, Asker
<1> QED
  BY <1>2, <1>4, <1>5 DEF Askers

LEMMA OwnerStep ==
  ASSUME Kickers = {}, IInv, OwnerInv, [Next]_vars
  PROVE  OwnerInv'
<1> USE Constants, NamesAssumption DEF IInv, TypeOK
<1>1. CASE UNCHANGED vars \/ RecycleScan \/ RecycleEnd \/ Tick
  <2>1. UNCHANGED <<sock, fd, seq, lfd, pc, ref, msgs, hdr>>
    BY <1>1 DEF vars, poolVars, kernelVars, threadVars, RecycleScan, RecycleEnd, Tick
  <2> QED BY <2>1 DEF OwnerInv, HandlersHandle, OwnSocketOnly, OwnSocket, Askers, Asker
<1>2. CASE EpollWait
  <2>1. \A t \in Handlers : UNCHANGED <<pc[t], ref[t], hdr[t]>>
    BY <1>2 DEF EpollWait, ThreadTypeOK, Handlers
  <2> QED BY <1>2, <2>1, QuietStep DEF EpollWait, poolVars, kernelVars, ThreadTypeOK
<1>3. ASSUME NEW c \in Conn,
             \/ AcceptNothing(c) \/ ReadNothing(c) \/ ReadFlood(c) \/ ReadClosed(c)
             \/ KickOverdue(c) \/ \E k \in Clients : AcceptRefuse(c, k)
      PROVE  OwnerInv'
  <2>1. /\ pc[Epoll] \in {"batch", "idle"} /\ pc'[Epoll] \in {"batch", "idle", "zd_check"}
        /\ UNCHANGED <<sock, fd, seq, lfd, msgs>>
    BY <1>3 DEF AcceptNothing, AcceptRefuse, ReadNothing, ReadFlood, ReadClosed, KickOverdue,
            Dispatch, NextEvent, poolVars, kernelVars, ThreadTypeOK
  <2>2. \A t \in Handlers : UNCHANGED <<pc[t], ref[t], hdr[t]>>
    BY <1>3 DEF AcceptNothing, AcceptRefuse, ReadNothing, ReadFlood, ReadClosed, KickOverdue,
            Dispatch, ThreadTypeOK, Handlers
  <2>3. pc[Epoll] # "obtained" /\ pc'[Epoll] # "obtained" /\ pc[Epoll] # "zd_clear"
        /\ pc'[Epoll] \notin {"accepted", "zd_close"}
    BY <2>1
  <2> QED BY <2>1, <2>2, <2>3, QuietStep
<1>4. CASE EpollStep
  BY <1>2, <1>3, <1>4, OwnerAccept, OwnerGet, OwnerRegister, OwnerCloseConnection,
     OwnerReadPacket DEF EpollStep
<1>5. ASSUME NEW t \in Threads, CloseStep(t) PROVE OwnerInv'
  <2>1. t = Epoll
    BY <1>5 DEF CloseStep, ZdCheck, ZdClose, ZdClear, InRecyConnectQueue, OwnerInv, HandlersHandle,
            Threads
  <2> QED BY <1>5, <2>1, OwnerClose, OwnerRecycles DEF CloseStep
<1>6. ASSUME NEW t \in Threads, HandlerStep(t) PROVE OwnerInv'
  <2>1. CASE \E m \in msgs : Drop(t, m)
    <3>1. UNCHANGED <<sock, fd, seq, lfd, pc, ref, hdr>> /\ msgs' \subseteq msgs
      BY <2>1 DEF Drop, Take, poolVars, kernelVars, threadVars
    <3> QED BY <3>1 DEF OwnerInv, HandlersHandle, OwnSocketOnly, OwnSocket, Askers, Asker
  <2>2. CASE Done(t)
    <3>1. /\ t \in Handlers /\ t # Epoll /\ UNCHANGED <<sock, fd, seq, msgs>>
          /\ UNCHANGED <<pc[Epoll], ref[Epoll], lfd[Epoll]>> /\ pc'[t] = "idle"
          /\ \A u \in Handlers : u # t => UNCHANGED <<pc[u], ref[u], hdr[u]>>
      BY <2>2 DEF Done, Forget, poolVars, kernelVars, ThreadTypeOK, Handlers
    <3> QED BY <3>1 DEF OwnerInv, HandlersHandle, OwnSocketOnly, OwnSocket, Askers, Asker
  <2>3. ~Kick(t) /\ (\A m \in msgs : Begin(t, m) => t \in Handlers) /\ (Reply(t) => t \in Handlers)
    BY DEF Kick, Begin, Reply, Handlers
  <2> QED BY <1>6, <2>1, <2>2, <2>3, OwnerBegin, OwnerReply DEF HandlerStep
<1>7. CASE RecycleStep
  BY <1>1, <1>7, OwnerRecycles DEF RecycleStep
<1> QED
  BY <1>1, <1>4, <1>5, <1>6, <1>7 DEF Next

LEMMA OwnersInvariance == ASSUME Kickers = {} PROVE Spec => []OwnerInv
<1>1. Init => OwnerInv
  BY Constants DEF Init, OwnerInv, HandlersHandle, OwnSocketOnly, OwnSocket, Askers, Handlers, Threads
<1>2. IInv /\ OwnerInv /\ [Next]_vars => OwnerInv'
  BY OwnerStep
<1> QED
  BY <1>1, <1>2, Invariance, PTL DEF Spec

\* As long as no pool thread closes, a thread that writes to the fd of a
\* Connection it has found up to date writes to the client that asked, or to
\* nobody, however late it writes.
THEOREM RepliesReachAsker == ASSUME Kickers = {} PROVE Spec => []ReplyReachesAsker
<1>1. OwnerInv => ReplyReachesAsker
  BY DEF OwnerInv, Askers, Asker, ReplyReachesAsker
<1> QED
  BY <1>1, OwnersInvariance, PTL
===========================================================================
