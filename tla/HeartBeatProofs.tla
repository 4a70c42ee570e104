-------------------------- MODULE HeartBeatProofs --------------------------
(***************************************************************************)
(* For any number of clients, pool threads, Connections, blocks of memory  *)
(* and times, with ids given twice, second closes and pings at any moment: *)
(* when the epoll thread's wait ends, how late a client is closed, whom    *)
(* the heartbeat closes, and which events may outlive their clients.       *)
(***************************************************************************)
EXTENDS HeartBeat, FiniteSetTheorems, TLAPS

-----------------------------------------------------------------------------
(* The inductive invariant.                                                *)

TypeOK ==
  /\ heap \subseteq Events /\ DOMAIN conn = heap
  /\ \A e \in heap : left[e] \in -TooLate .. wait_time_ /\ conn[e] \in Conns
  /\ stale \subseteq heap /\ moved \subseteq heap
  /\ free \subseteq Conns /\ parked \subseteq Conns /\ missed \subseteq Conns
  /\ quiet \in [Conns -> 0 .. recycle_connection_wait_time_]
  /\ loop \in {"check", "pop", "close", "blocked", "events"}
  /\ is_idle_list \in Seq(Conns) /\ batch \subseteq Conns
  /\ sleep \in -1 .. wait_time_
  /\ at \in [Threads -> {"idle", "ping", "update", "zd_close", "cancel", "park"}]
  /\ p_conn \in [Threads -> Conns \cup {NoConn}]
  /\ hold \in [Threads -> 0 .. MaxHold]

Places ==
  /\ loop \notin {"pop", "close"} => is_idle_list = << >>
  /\ loop # "blocked" => sleep = 0
  /\ loop = "blocked" /\ sleep # 0 => hold[Epoll] = 0
  /\ \A t \in Threads : p_conn[t] = NoConn <=> at[t] = "idle"
  /\ at[Epoll] # "idle" => loop \in {"events", "close"}

\* A pool thread's Connection is not free, and has not been parked, nor its
\* client heard, before the thread began.
Pointers ==
  \A t \in Workers :
     /\ at[t] # "idle" => /\ p_conn[t] \notin free
                          /\ p_conn[t] \in parked => quiet[p_conn[t]] <= hold[t]
     /\ at[t] \in {"ping", "update"} => quiet[p_conn[t]] <= hold[t]

\* What is in the heap for a Connection that is free is stale, and of what is
\* not, each Connection has one.
Inherited ==
  /\ \A e \in heap : conn[e] \in free => e \in stale
  /\ \A e \in heap \ stale, d \in heap \ stale : conn[e] = conn[d] => e = d

Excused(c) == c \in missed \/ Pinging(c)

\* An event is not due much before wait_time_ after its client was heard, ...
NotEarly ==
  \A e \in heap \ stale : conn[e] \in Open =>
      left[e] + quiet[conn[e]] >= wait_time_ - MaxHold \/ Excused(conn[e])

\* ... nor after, unless it has been put off, ...
NotPutOff == \A e \in heap \ moved : left[e] + quiet[conn[e]] <= wait_time_

\* ... and the epoll thread is not later.
NotLate ==
  \A e \in heap \ moved :
      /\ left[e] >= sleep - MaxHold - hold[Epoll]
      /\ sleep # NoLimit

\* The heartbeat has the timer of whom it closes.
PickedAre ==
  \A c \in Open \cap Picked :
     /\ quiet[c] >= wait_time_ - MaxHold \/ Excused(c)
     /\ c \in missed \/ \A e \in heap \ stale : conn[e] # c

IInv ==
  /\ TypeOK /\ Places /\ Pointers
  /\ Inherited /\ TimersNotInherited
  /\ NotEarly /\ NotPutOff /\ NotLate
  /\ WakesInTime /\ PickedAre

-----------------------------------------------------------------------------
LEMMA Times ==
  /\ wait_time_ \in Nat /\ MaxHold \in Nat /\ recycle_connection_wait_time_ \in Nat
  /\ MaxHold < wait_time_
  /\ TooLate = 2 * MaxHold + 1
  /\ wait_time_ + TooLate <= recycle_connection_wait_time_
BY TimesAssumption DEF TooLate

\* A set of integers between two has a least one.
LEMMA LeastInteger ==
  ASSUME NEW l \in Int, NEW k \in Int, NEW S \in SUBSET (l .. k), S # {}
  PROVE  \E n \in S : \A i \in S : n <= i
<1> DEFINE Below(i) == l .. i - 1
           T == {Below(i) : i \in S}
           U == l .. k
<1>1. IsFiniteSet(U)
  BY FS_Interval
<1>2. IsWellFoundedOn(StrictSubsetOrdering(U), SUBSET U)
  <2> HIDE DEF U
  <2> QED BY <1>1, FS_StrictSubsetOrderingWellFounded, FS_FiniteSubsetsOfFinite
<1>3. T \subseteq SUBSET U /\ T # {}
  <2>1. \A i \in S : Below(i) \in SUBSET U
    OBVIOUS
  <2> HIDE DEF Below, U
  <2> QED BY <2>1
<1>4. PICK b \in T : \A u \in T : ~ (<<u, b>> \in StrictSubsetOrdering(U))
  <2> HIDE DEF T, U
  <2> QED BY <1>2, <1>3, WFMin
<1>5. PICK n \in S : b = Below(n)
  BY <1>4
<1>6. ASSUME NEW i \in S
      PROVE  n <= i
  <2> SUFFICES ASSUME i < n PROVE FALSE
    OBVIOUS
  <2>1. Below(i) \in T /\ Below(i) \subseteq Below(n) /\ Below(i) # Below(n)
    <3>1. i \in Below(n) /\ i \notin Below(i)
      OBVIOUS
    <3> QED BY <3>1
  <2>2. Below(i) \in SUBSET U /\ Below(n) \in SUBSET U
    BY <1>3, <2>1
  <2>3. <<Below(i), b>> \in StrictSubsetOrdering(U)
    <3> HIDE DEF Below, U, T
    <3> QED BY <1>5, <2>1, <2>2 DEF StrictSubsetOrdering
  <2> HIDE DEF Below, U, T
  <2> QED BY <1>4, <2>1, <2>3
<1> QED BY <1>6

\* The time left until the earliest event is due.
LEMMA EarliestIs ==
  ASSUME TypeOK, heap # {}
  PROVE  /\ Earliest \in -TooLate .. wait_time_
         /\ \A e \in heap : Earliest <= left[e]
         /\ \E e \in heap : Earliest = left[e]
<1> DEFINE S == {left[e] : e \in heap}
<1>1. S \in SUBSET (-TooLate .. wait_time_) /\ S # {}
  BY DEF TypeOK
<1>2. \E n \in S : \A i \in S : n <= i
  <2> HIDE DEF S
  <2>1. -TooLate \in Int /\ wait_time_ \in Int
    BY Times
  <2> QED BY <1>1, <2>1, LeastInteger
<1>3. \E n \in S : \A e \in heap : n <= left[e]
  BY <1>2
<1>4. Earliest \in S /\ \A e \in heap : Earliest <= left[e]
  BY <1>3 DEF Earliest
<1> QED BY <1>1, <1>4

LEMMA IInvInit == Init => IInv
<1> SUFFICES ASSUME Init PROVE IInv
  OBVIOUS
<1> USE DEF Init
<1>1. heap = {} /\ DOMAIN conn = {} /\ Open = {}
  BY DEF heap, Open
<1>2. TypeOK
  BY <1>1, Times DEF TypeOK
<1>3. Places
  BY DEF Places, Threads
<1>4. Pointers
  BY DEF Pointers, Threads
<1>5. Inherited /\ TimersNotInherited /\ NotEarly /\ NotPutOff /\ NotLate /\ WakesInTime /\ PickedAre
  BY <1>1 DEF Inherited, TimersNotInherited, NotEarly, NotPutOff, NotLate, WakesInTime, PickedAre
<1> QED BY <1>2, <1>3, <1>4, <1>5 DEF IInv

-----------------------------------------------------------------------------
(* The epoll thread between two waits.                                     *)

\* Steps that leave timers, Connections and the other threads alone.
LEMMA LoopOnly ==
  ASSUME IInv, UNCHANGED <<timerVars, connVars, at, p_conn>>,
         TypeOK', Places', NotLate', WakesInTime',
         \A t \in Workers : hold'[t] = hold[t],
         Open \cap Picked' \subseteq Picked
  PROVE  IInv'
<1> USE DEF timerVars, connVars
<1>1. heap' = heap /\ Open' = Open
  BY DEF heap, Open
<1>2. \A c : Pinging(c)' <=> Pinging(c)
  BY DEF Pinging
<1>3. Pointers'
  BY DEF IInv, Pointers
<1>4. Inherited' /\ TimersNotInherited'
  BY <1>1 DEF IInv, Inherited, TimersNotInherited
<1>5. NotEarly'
  BY <1>1, <1>2 DEF IInv, NotEarly, Excused
<1>6. NotPutOff'
  BY <1>1 DEF IInv, NotPutOff
<1>7. PickedAre'
  BY <1>1, <1>2 DEF IInv, PickedAre, Excused
<1> QED BY <1>3, <1>4, <1>5, <1>6, <1>7 DEF IInv

\* A wait that begins with nothing overdue.
LEMMA BlockStep ==
  ASSUME IInv, UNCHANGED <<timerVars, connVars, is_idle_list, batch, at, p_conn>>,
         loop = "check" \/ (loop = "close" /\ is_idle_list = << >>), at[Epoll] = "idle",
         NEW n \in -1 .. wait_time_, Block(n),
         \A e \in heap : n # NoLimit /\ n <= left[e]
  PROVE  IInv'
<1> USE DEF timerVars, connVars, Block, NoLimit
<1>1. heap' = heap /\ Epoll \in Threads /\ Epoll \notin Workers
  BY NamesAssumption DEF heap, Threads
<1>2. hold' \in [Threads -> 0 .. MaxHold] /\ hold'[Epoll] = 0
  BY <1>1, Times DEF IInv, TypeOK
<1>3. TypeOK'
  BY <1>1, <1>2 DEF IInv, TypeOK
<1>4. is_idle_list = << >>
  BY DEF IInv, Places
<1>5. Places'
  BY <1>1, <1>2, <1>4 DEF IInv, Places
<1>6. \A e \in heap : left[e] \in Int
  BY Times DEF IInv, TypeOK
<1>7. NotLate'
  BY <1>1, <1>2, <1>6, Times DEF NotLate
<1>8. WakesInTime'
  BY <1>1, <1>6, Times DEF WakesInTime
<1>9. Open \cap Picked' \subseteq Picked
  BY <1>4 DEF Picked
<1>10. \A t \in Workers : hold'[t] = hold[t]
  BY <1>1 DEF IInv, TypeOK, Threads
<1> QED BY <1>3, <1>5, <1>7, <1>8, <1>9, <1>10, LoopOnly

LEMMA NothingDueStep == IInv /\ NothingDue => IInv'
<1> SUFFICES ASSUME IInv, NothingDue PROVE IInv'
  OBVIOUS
<1>1. at[Epoll] = "idle" /\ loop = "check"
  BY DEF IInv, Places, NothingDue
<1>2. CASE heap = {}
  <2>1. Block(NoLimit) /\ NoLimit \in -1 .. wait_time_
    BY <1>2, Times DEF NothingDue, NoLimit
  <2> QED BY <1>1, <1>2, <2>1, BlockStep DEF NothingDue
<1>3. CASE heap # {}
  <2>1. Earliest \in -1 .. wait_time_ /\ \A e \in heap : Earliest # NoLimit /\ Earliest <= left[e]
    <3>1. Earliest >= 0
      BY <1>3, EarliestIs, Times DEF IInv, NothingDue, Overdue
    <3> QED BY <1>3, <3>1, EarliestIs, Times DEF IInv, NoLimit
  <2>2. Block(Earliest)
    BY <1>3 DEF NothingDue
  <2> QED BY <1>1, <2>1, <2>2, BlockStep DEF NothingDue
<1> QED BY <1>2, <1>3

LEMMA SettleStep == IInv /\ Settle => IInv'
<1> SUFFICES ASSUME IInv, Settle PROVE IInv'
  OBVIOUS
<1>1. at[Epoll] = "idle" /\ loop = "close" /\ is_idle_list = << >>
  BY DEF Settle
<1>2. CASE heap = {}
  <2>1. Overdue = {}
    BY <1>2 DEF Overdue
  <2>2. PICK n \in 0 .. wait_time_ \cup {NoLimit} : Block(n)
    BY <1>2 DEF Settle
  <2>3. n \in -1 .. wait_time_
    BY Times DEF NoLimit
  <2>4. UNCHANGED <<timerVars, connVars, is_idle_list, batch, at, p_conn>>
    BY <2>1 DEF Settle, timerVars
  <2> QED BY <1>1, <1>2, <2>2, <2>3, <2>4, BlockStep
<1>3. CASE heap # {} /\ Overdue = {}
  <2>1. Earliest \in -1 .. wait_time_ /\ \A e \in heap : Earliest # NoLimit /\ Earliest <= left[e]
    <3>1. Earliest >= 0
      BY <1>3, EarliestIs, Times DEF IInv, Overdue
    <3> QED BY <1>3, <3>1, EarliestIs, Times DEF IInv, NoLimit
  <2>2. Block(Earliest)
    BY <1>3 DEF Settle
  <2>3. UNCHANGED <<timerVars, connVars, is_idle_list, batch, at, p_conn>>
    BY <1>3 DEF Settle, timerVars
  <2> QED BY <1>1, <2>1, <2>2, <2>3, BlockStep
<1>4. CASE heap # {} /\ Overdue # {}
  <2> USE DEF Settle, connVars
  <2>1. heap' = heap /\ Open' = Open /\ moved' = heap /\ Epoll \in Threads /\ Epoll \notin Workers
    BY <1>4, NamesAssumption DEF heap, Open, Threads
  <2>2. loop' = "blocked" /\ sleep' = -1 /\ hold' = [hold EXCEPT ![Epoll] = 0]
    BY <1>4 DEF Block, NoLimit
  <2>3. hold' \in [Threads -> 0 .. MaxHold] /\ hold'[Epoll] = 0 /\ \A t \in Workers : hold'[t] = hold[t]
    BY <2>1, <2>2, Times DEF IInv, TypeOK, Threads
  <2>4. TypeOK'
    BY <2>1, <2>2, <2>3, Times DEF IInv, TypeOK
  <2>5. Places'
    BY <1>1, <2>1, <2>2, <2>3 DEF IInv, Places
  <2>6. Pointers'
    BY <2>3 DEF IInv, Pointers
  <2>7. Inherited' /\ TimersNotInherited' /\ NotPutOff' /\ NotLate'
    BY <2>1 DEF IInv, TypeOK, Inherited, TimersNotInherited, NotPutOff, NotLate
  <2>8. NotEarly'
    BY <2>1 DEF IInv, NotEarly, Excused, Pinging
  <2>9. WakesInTime'
    BY <2>2 DEF WakesInTime
  <2>10. PickedAre'
    BY <1>1, <2>1, <2>2 DEF PickedAre, Picked
  <2> QED BY <2>4, <2>5, <2>6, <2>7, <2>8, <2>9, <2>10 DEF IInv
<1> QED BY <1>2, <1>3, <1>4

\* The steps from place to place.
LEMMA PlaceStep ==
  ASSUME IInv,
         SomethingOverdue \/ AllTaken \/ TimedOut \/ Interrupted \/ SomeEvents \/ EventsDone
  PROVE  IInv'
<1> USE DEF SomethingOverdue, AllTaken, TimedOut, Interrupted, SomeEvents, EventsDone, Wake, threadVars
<1>1. UNCHANGED <<timerVars, connVars, at, p_conn, hold, is_idle_list>> /\ heap' = heap
  BY DEF heap, timerVars
<1>2. /\ loop' \in {"check", "pop", "close", "events"} /\ sleep' = 0
      /\ loop' # "pop" => loop' = "close" \/ is_idle_list = << >>
      /\ loop' = "check" => at[Epoll] = "idle"
      /\ loop' = "pop" => loop = "check"
      /\ loop' = "close" => loop = "pop"
      /\ loop' = "events" => loop = "blocked"
  BY DEF IInv, Places
<1>3. batch' \subseteq Conns
  BY DEF IInv, TypeOK, Open
<1>4. TypeOK'
  BY <1>1, <1>2, <1>3, Times DEF IInv, TypeOK, timerVars, connVars
<1>5. Places'
  BY <1>1, <1>2 DEF IInv, Places
<1>6. NotLate'
  <2>1. \A e \in heap \ moved : sleep >= sleep'
    BY <1>2, Times DEF IInv, TypeOK, NotLate, NoLimit
  <2>2. \A e \in heap : left[e] \in Int
    BY Times DEF IInv, TypeOK
  <2>3. hold[Epoll] \in Int /\ sleep \in Int
    BY Times DEF IInv, TypeOK, Threads
  <2> QED BY <1>1, <1>2, <2>1, <2>2, <2>3, Times DEF IInv, NotLate, timerVars, NoLimit
<1>7. WakesInTime'
  BY <1>2 DEF WakesInTime
<1>8. Open \cap Picked' \subseteq Picked
  <2>1. loop' = "close" => p_conn[Epoll] = NoConn
    BY <1>2 DEF IInv, Places, Threads
  <2> QED BY <1>1, <2>1, NamesAssumption DEF Picked, Open
<1> QED BY <1>1, <1>4, <1>5, <1>6, <1>7, <1>8, LoopOnly

\* An event leaves the heap: nothing that is said of events is lost.
LEMMA RemoveStep ==
  ASSUME IInv, NEW e \in heap, Remove(e), UNCHANGED <<free, parked, quiet, sleep, hold>>,
         missed \subseteq missed', \A c : Pinging(c) => Pinging(c)'
  PROVE  /\ heap' = heap \ {e} /\ Open' = Open
         /\ Inherited' /\ TimersNotInherited' /\ NotEarly' /\ NotPutOff' /\ NotLate'
         /\ \A d \in heap' : left'[d] = left[d] /\ conn'[d] = conn[d]
         /\ DOMAIN conn' = heap' /\ stale' = stale \ {e} /\ moved' = moved \ {e}
<1> USE DEF Remove
<1>1. heap' = heap \ {e} /\ Open' = Open
  BY DEF heap, Open, Without
<1>2. /\ \A d \in heap' : left'[d] = left[d] /\ conn'[d] = conn[d]
      /\ DOMAIN conn' = heap' /\ stale' = stale \ {e} /\ moved' = moved \ {e}
  BY <1>1 DEF Without, heap
<1>3. Inherited'
  BY <1>1, <1>2 DEF IInv, Inherited
<1>4. TimersNotInherited' /\ NotPutOff' /\ NotLate'
  BY <1>1, <1>2 DEF IInv, TimersNotInherited, NotPutOff, NotLate
<1>5. NotEarly'
  BY <1>1, <1>2 DEF IInv, NotEarly, Excused
<1> QED BY <1>1, <1>2, <1>3, <1>4, <1>5

LEMMA PopStep ==
  ASSUME IInv, NEW e \in Events, GetOverTimeTimer(e)
  PROVE  IInv'
<1> USE DEF GetOverTimeTimer, Pop
<1> DEFINE c == conn[e]
<1>1. e \in heap /\ left[e] <= 0 /\ c \in Conns
  BY DEF Due, IInv, TypeOK
<1>2. \A d : Pinging(d)' <=> Pinging(d)
  BY DEF Pinging, threadVars
<1>3. missed \subseteq missed'
  OBVIOUS
<1>4. /\ heap' = heap \ {e} /\ Open' = Open
      /\ Inherited' /\ TimersNotInherited' /\ NotEarly' /\ NotPutOff' /\ NotLate'
      /\ \A d \in heap' : left'[d] = left[d] /\ conn'[d] = conn[d]
      /\ DOMAIN conn' = heap' /\ stale' = stale \ {e} /\ moved' = moved \ {e}
  BY <1>1, <1>2, <1>3, RemoveStep DEF threadVars
<1>5. is_idle_list' \in Seq(Conns)
  BY <1>1 DEF IInv, TypeOK
<1>6. TypeOK'
  BY <1>1, <1>4, <1>5 DEF IInv, TypeOK, threadVars
<1>7. Places'
  BY DEF IInv, Places, threadVars
<1>8. Pointers'
  BY DEF IInv, Pointers, threadVars
<1>9. WakesInTime'
  BY DEF WakesInTime
<1>10. PickedAre'
  <2>1. Picked' \subseteq Picked \cup {c}
    <3>1. \A i \in DOMAIN is_idle_list' : is_idle_list'[i] = c \/ \E j \in DOMAIN is_idle_list : is_idle_list'[i] = is_idle_list[j]
      BY <1>1 DEF IInv, TypeOK
    <3> HIDE DEF c
    <3> QED BY <3>1 DEF Picked
  <2>2. \A d \in Open \cap Picked :
           /\ quiet[d] >= wait_time_ - MaxHold \/ Excused(d)
           /\ d \in missed \/ \A x \in heap \ stale : conn[x] # d
    BY DEF IInv, PickedAre
  <2>3. c \in Open => /\ quiet[c] >= wait_time_ - MaxHold \/ c \in missed' \/ Pinging(c)
                      /\ c \in missed' \/ \A x \in (heap \ {e}) \ stale : conn[x] # c
    <3>1. CASE e \in stale
      BY <3>1
    <3>2. CASE e \notin stale
      <4>1. \A x \in (heap \ {e}) \ stale : conn[x] # c
        BY <1>1, <3>2 DEF IInv, Inherited
      <4>2. c \in Open => left[e] + quiet[c] >= wait_time_ - MaxHold \/ Excused(c)
        BY <1>1, <3>2 DEF IInv, NotEarly
      <4>3. left[e] \in Int /\ quiet[c] \in Int
        BY <1>1, Times DEF IInv, TypeOK
      <4> HIDE DEF c
      <4> QED BY <1>1, <1>3, <4>1, <4>2, <4>3, Times DEF Excused
    <3> QED BY <3>1, <3>2
  <2> HIDE DEF c
  <2>4. ASSUME NEW d \in Open' \cap Picked'
        PROVE  /\ quiet'[d] >= wait_time_ - MaxHold \/ d \in missed' \/ Pinging(d)'
               /\ d \in missed' \/ \A x \in heap' \ stale' : conn'[x] # d
    <3>1. quiet' = quiet /\ \A x \in heap' \ stale' : x \in (heap \ {e}) \ stale /\ conn'[x] = conn[x]
      BY <1>4
    <3>2. CASE d = c
      BY <1>2, <1>4, <2>3, <3>1, <3>2
    <3>3. CASE d # c
      BY <1>2, <1>3, <1>4, <2>1, <2>2, <3>1, <3>3 DEF Excused
    <3> QED BY <3>2, <3>3
  <2> QED BY <2>4 DEF PickedAre, Excused
<1> QED BY <1>4, <1>6, <1>7, <1>8, <1>9, <1>10 DEF IInv

LEMMA CloseIdleStep == IInv /\ CloseIdle => IInv'
<1> SUFFICES ASSUME IInv, CloseIdle PROVE IInv'
  OBVIOUS
<1> USE DEF CloseIdle, Enter, timerVars, connVars
<1>1. Epoll \in Threads /\ Epoll \notin Workers /\ heap' = heap /\ Open' = Open
  BY NamesAssumption DEF Threads, heap, Open
<1>2. /\ Head(is_idle_list) \in Conns /\ Tail(is_idle_list) \in Seq(Conns)
      /\ Head(is_idle_list) \in {is_idle_list[i] : i \in DOMAIN is_idle_list}
      /\ \A i \in DOMAIN Tail(is_idle_list) : \E j \in DOMAIN is_idle_list : Tail(is_idle_list)[i] = is_idle_list[j]
  <2>1. is_idle_list \in Seq(Conns) /\ is_idle_list # << >>
    BY DEF IInv, TypeOK
  <2>2. 1 \in DOMAIN is_idle_list /\ Head(is_idle_list) = is_idle_list[1]
    BY <2>1
  <2>3. \A i \in DOMAIN Tail(is_idle_list) : i + 1 \in DOMAIN is_idle_list /\ Tail(is_idle_list)[i] = is_idle_list[i + 1]
    BY <2>1
  <2> QED BY <2>1, <2>2, <2>3
<1>3. TypeOK'
  BY <1>1, <1>2 DEF IInv, TypeOK
<1>4. Places'
  BY <1>1, <1>2, NamesAssumption DEF IInv, Places, TypeOK
<1>5. \A t \in Workers : at'[t] = at[t] /\ p_conn'[t] = p_conn[t] /\ t \in Threads
  BY <1>1 DEF IInv, TypeOK, Threads
<1>6. Pointers'
  BY <1>5 DEF IInv, Pointers
<1>7. \A c : Pinging(c)' <=> Pinging(c)
  BY <1>5 DEF Pinging
<1>8. Inherited' /\ TimersNotInherited' /\ NotPutOff' /\ NotLate'
  BY <1>1 DEF IInv, Inherited, TimersNotInherited, NotPutOff, NotLate
<1>9. NotEarly'
  BY <1>1, <1>7 DEF IInv, NotEarly, Excused
<1>10. WakesInTime'
  BY DEF WakesInTime
<1>11. Picked' \subseteq Picked
  <2>1. p_conn'[Epoll] = Head(is_idle_list)
    BY <1>1 DEF IInv, TypeOK
  <2> QED BY <1>2, <2>1 DEF Picked
<1>12. PickedAre'
  BY <1>1, <1>7, <1>11 DEF IInv, PickedAre, Excused
<1> QED BY <1>3, <1>4, <1>6, <1>8, <1>9, <1>10, <1>12 DEF IInv

-----------------------------------------------------------------------------
(* Closes.                                                                 *)

LEMMA CancelFindStep ==
  ASSUME IInv, NEW t \in Threads, CancelFind(t)
  PROVE  IInv'
<1> USE DEF CancelFind, timerVars, connVars, loopVars
<1>1. heap' = heap /\ Open' = Open
  BY DEF heap, Open
<1>2. /\ at' = [at EXCEPT ![t] = "park"] \/ at' = [at EXCEPT ![t] = "cancel"]
      /\ at[t] = "zd_close"
  OBVIOUS
<1>3. TypeOK'
  BY <1>1, <1>2 DEF IInv, TypeOK
<1>4. Places'
  <2>1. Epoll \in Threads /\ \A s \in Threads : at'[s] = "idle" <=> at[s] = "idle"
    BY <1>2 DEF IInv, TypeOK, Threads
  <2> QED BY <2>1 DEF IInv, Places
<1>5. Pointers'
  BY <1>2 DEF IInv, Pointers, TypeOK, Threads
<1>6. \A c : Pinging(c)' <=> Pinging(c)
  BY <1>2 DEF IInv, TypeOK, Pinging, Threads
<1>7. Inherited' /\ TimersNotInherited' /\ NotPutOff' /\ NotLate' /\ WakesInTime'
  BY <1>1 DEF IInv, Inherited, TimersNotInherited, NotPutOff, NotLate, WakesInTime
<1>8. NotEarly' /\ PickedAre'
  BY <1>1, <1>6 DEF IInv, NotEarly, PickedAre, Excused, Picked
<1> QED BY <1>3, <1>4, <1>5, <1>7, <1>8 DEF IInv

LEMMA TimerCancelStep ==
  ASSUME IInv, NEW t \in Threads, TimerCancel(t)
  PROVE  IInv'
<1> USE DEF TimerCancel, connVars, loopVars
<1>1. at' = [at EXCEPT ![t] = "park"] /\ at[t] = "cancel" /\ Open' = Open
  BY DEF Open
<1>2. \A c : Pinging(c)' <=> Pinging(c)
  BY <1>1 DEF IInv, TypeOK, Pinging, Threads
<1>3. Pointers'
  BY <1>1 DEF IInv, Pointers, TypeOK, Threads
<1>4. Places'
  <2>1. Epoll \in Threads /\ \A s \in Threads : at'[s] = "idle" <=> at[s] = "idle"
    BY <1>1 DEF IInv, TypeOK, Threads
  <2> QED BY <2>1 DEF IInv, Places
<1>5. Picked' = Picked
  BY DEF Picked
<1>6. CASE Entry(id[t]) \in heap
  <2> DEFINE e == Entry(id[t])
  <2>1. Remove(e)
    BY <1>6
  <2> HIDE DEF e
  <2>2. /\ heap' = heap \ {e}
        /\ Inherited' /\ TimersNotInherited' /\ NotEarly' /\ NotPutOff' /\ NotLate'
        /\ \A d \in heap' : left'[d] = left[d] /\ conn'[d] = conn[d]
        /\ DOMAIN conn' = heap' /\ stale' = stale \ {e} /\ moved' = moved \ {e}
    BY <1>2, <1>6, <2>1, RemoveStep DEF e
  <2>3. TypeOK'
    BY <1>1, <2>2 DEF IInv, TypeOK
  <2>4. WakesInTime'
    BY <2>2 DEF IInv, WakesInTime
  <2>5. PickedAre'
    BY <1>1, <1>2, <1>5, <2>2 DEF IInv, PickedAre, Excused
  <2> QED BY <1>3, <1>4, <2>2, <2>3, <2>4, <2>5 DEF IInv
<1>7. CASE Entry(id[t]) \notin heap
  <2>1. UNCHANGED <<left, conn, stale, moved>> /\ heap' = heap
    BY <1>7 DEF heap
  <2>2. TypeOK'
    BY <1>1, <2>1 DEF IInv, TypeOK
  <2>3. Inherited' /\ TimersNotInherited' /\ NotPutOff' /\ NotLate' /\ WakesInTime'
    BY <2>1 DEF IInv, Inherited, TimersNotInherited, NotPutOff, NotLate, WakesInTime
  <2>4. NotEarly' /\ PickedAre'
    BY <1>1, <1>2, <1>5, <2>1 DEF IInv, NotEarly, PickedAre, Excused
  <2> QED BY <1>3, <1>4, <2>2, <2>3, <2>4 DEF IInv
<1> QED BY <1>6, <1>7

LEMMA InRecyStep ==
  ASSUME IInv, NEW t \in Threads, InRecyConnectQueue(t)
  PROVE  IInv'
<1> USE DEF InRecyConnectQueue, Leave, Enter, timerVars, connVars, loopVars
<1> DEFINE c == p_conn[t]
<1>1. /\ heap' = heap /\ Open' \subseteq Open /\ c \in Conns
      /\ at[t] = "park" /\ at' = [at EXCEPT ![t] = "idle"] /\ p_conn' = [p_conn EXCEPT ![t] = NoConn]
      /\ hold' = hold \/ (hold' = [hold EXCEPT ![t] = 0] /\ t \in Workers)
      /\ parked' = parked \cup {c} /\ free' = free
  BY DEF heap, Open, IInv, TypeOK, Places
<1>2. Epoll \in Threads /\ Workers \subseteq Threads /\ Epoll \notin Workers
  BY NamesAssumption DEF Threads
<1>3. /\ quiet' \in [Conns -> 0 .. recycle_connection_wait_time_]
      /\ \A d \in Conns : quiet'[d] <= quiet[d] /\ (d # c => quiet'[d] = quiet[d])
      /\ c \notin parked => quiet'[c] = 0
  <2> HIDE DEF c
  <2>1. quiet \in [Conns -> 0 .. recycle_connection_wait_time_]
    BY DEF IInv, TypeOK
  <2>2. quiet' = quiet \/ quiet' = [quiet EXCEPT ![c] = 0]
    BY DEF c
  <2>3. c \notin parked => quiet' = [quiet EXCEPT ![c] = 0]
    BY DEF c
  <2> QED BY <1>1, <2>1, <2>2, <2>3, Times
<1>4. /\ hold' \in [Threads -> 0 .. MaxHold] /\ hold'[Epoll] = hold[Epoll]
      /\ \A s \in Threads : s # t => hold'[s] = hold[s]
  BY <1>1, <1>2, Times DEF IInv, TypeOK
<1> HIDE DEF c
<1>5. TypeOK'
  BY <1>1, <1>3, <1>4 DEF IInv, TypeOK
<1>6. Places'
  <2>1. \A s \in Threads : p_conn'[s] = NoConn <=> at'[s] = "idle"
    BY <1>1 DEF IInv, TypeOK, Places
  <2>2. at'[Epoll] # "idle" => at[Epoll] # "idle"
    BY <1>1, <1>2 DEF IInv, TypeOK
  <2> QED BY <1>4, <2>1, <2>2 DEF IInv, Places
<1>7. Pointers'
  <2> SUFFICES ASSUME NEW s \in Workers, at'[s] # "idle"
               PROVE  /\ p_conn'[s] \notin free
                      /\ p_conn'[s] \in parked' => quiet'[p_conn'[s]] <= hold'[s]
                      /\ at'[s] \in {"ping", "update"} => quiet'[p_conn'[s]] <= hold'[s]
    BY <1>1 DEF Pointers
  <2>1. s # t /\ at'[s] = at[s] /\ p_conn'[s] = p_conn[s] /\ hold'[s] = hold[s] /\ p_conn[s] \in Conns
    BY <1>1, <1>2, <1>4 DEF IInv, TypeOK, Places
  <2>2. hold[s] \in Nat /\ \A d \in Conns : quiet[d] \in Nat /\ quiet'[d] \in Nat
    BY <1>2, <1>3, Times DEF IInv, TypeOK
  <2>3. /\ p_conn[s] \notin free
        /\ p_conn[s] \in parked => quiet[p_conn[s]] <= hold[s]
        /\ at[s] \in {"ping", "update"} => quiet[p_conn[s]] <= hold[s]
    BY <2>1 DEF IInv, Pointers
  <2> QED BY <1>1, <1>3, <2>1, <2>2, <2>3
<1>8. \A d : Pinging(d)' <=> Pinging(d)
  BY <1>1, <1>2 DEF IInv, TypeOK, Pinging
<1>9. Inherited' /\ TimersNotInherited' /\ WakesInTime'
  BY <1>1 DEF IInv, Inherited, TimersNotInherited, WakesInTime
<1>10. NotPutOff'
  <2>1. \A e \in heap : left[e] \in Int /\ conn[e] \in Conns /\ quiet[conn[e]] \in Int /\ quiet'[conn[e]] \in Int
    BY <1>3, Times DEF IInv, TypeOK
  <2> QED BY <1>1, <1>3, <2>1, Times DEF IInv, NotPutOff
<1>11. NotLate'
  BY <1>1, <1>4 DEF IInv, NotLate
<1>12. \A d \in Open' : d # c /\ d \in Conns
  BY <1>1 DEF Open
<1>13. NotEarly'
  BY <1>1, <1>3, <1>8, <1>12 DEF IInv, NotEarly, Excused
<1>14. PickedAre'
  <2>1. Picked' \subseteq Picked \cup {NoConn}
    BY <1>1, <1>2 DEF IInv, TypeOK, Picked
  <2> QED BY <1>1, <1>3, <1>8, <1>12, <2>1, NamesAssumption DEF IInv, PickedAre, Excused
<1> QED BY <1>5, <1>6, <1>7, <1>9, <1>10, <1>11, <1>13, <1>14 DEF IInv

\* A thread begins a close: a pool thread for a client that is there, the epoll
\* thread for an event.
LEMMA BeginCloseStep ==
  ASSUME IInv, NEW t \in Threads, NEW c \in Conns, at[t] = "idle", Enter(t, "zd_close", c),
         t \in Workers => c \in Open, t = Epoll => loop = "events",
         batch' \subseteq batch, UNCHANGED <<timerVars, connVars, loop, is_idle_list, sleep, hold>>
  PROVE  IInv'
<1> USE DEF Enter, timerVars, connVars
<1>1. heap' = heap /\ Open' = Open /\ Epoll \in Threads /\ Workers \subseteq Threads
  BY DEF heap, Open, Threads
<1>2. TypeOK'
  BY <1>1 DEF IInv, TypeOK
<1>3. Places'
  BY <1>1, NamesAssumption DEF IInv, Places, TypeOK
<1>4. Pointers'
  BY <1>1 DEF IInv, Pointers, TypeOK, Open
<1>5. \A d : Pinging(d)' <=> Pinging(d)
  BY <1>1 DEF IInv, TypeOK, Pinging
<1>6. Inherited' /\ TimersNotInherited' /\ NotPutOff' /\ NotLate' /\ WakesInTime'
  BY <1>1 DEF IInv, Inherited, TimersNotInherited, NotPutOff, NotLate, WakesInTime
<1>7. Picked' = Picked
  BY <1>1 DEF IInv, TypeOK, Picked
<1>8. NotEarly' /\ PickedAre'
  BY <1>1, <1>5, <1>7 DEF IInv, NotEarly, PickedAre, Excused
<1> QED BY <1>2, <1>3, <1>4, <1>6, <1>8 DEF IInv
-----------------------------------------------------------------------------
(* Pings.                                                                  *)

LEMMA PingStep ==
  ASSUME IInv, NEW t \in Workers, NEW c \in Conns, Ping(t, c)
  PROVE  IInv'
<1> USE DEF Ping, Enter, timerVars, loopVars
<1>1. /\ heap' = heap /\ Open' = Open /\ c \in Open /\ c \notin free /\ c \notin parked
      /\ t \in Threads /\ Epoll \in Threads /\ Epoll # t
  BY NamesAssumption DEF heap, Open, Threads
<1>2. /\ quiet' \in [Conns -> 0 .. recycle_connection_wait_time_] /\ quiet'[c] = 0
      /\ \A d \in Conns : quiet'[d] <= quiet[d] /\ (d # c => quiet'[d] = quiet[d])
  <2>1. quiet \in [Conns -> 0 .. recycle_connection_wait_time_] /\ quiet' = [quiet EXCEPT ![c] = 0]
    BY DEF IInv, TypeOK
  <2> QED BY <2>1, Times
<1>3. /\ at'[t] = "ping" /\ p_conn'[t] = c
      /\ \A s \in Threads : s # t => at'[s] = at[s] /\ p_conn'[s] = p_conn[s]
  BY <1>1 DEF IInv, TypeOK
<1>4. TypeOK'
  BY <1>1, <1>2 DEF IInv, TypeOK
<1>5. Places'
  BY <1>1, <1>3, NamesAssumption DEF IInv, Places
<1>6. Pointers'
  <2> SUFFICES ASSUME NEW s \in Workers, at'[s] # "idle"
               PROVE  /\ p_conn'[s] \notin free
                      /\ p_conn'[s] \in parked => quiet'[p_conn'[s]] <= hold[s]
                      /\ at'[s] \in {"ping", "update"} => quiet'[p_conn'[s]] <= hold[s]
    BY <1>1 DEF Pointers
  <2>1. hold[s] \in Nat /\ \A d \in Conns : quiet[d] \in Nat /\ quiet'[d] \in Nat
    BY <1>2, Times DEF IInv, TypeOK, Threads
  <2>2. CASE s = t
    BY <1>1, <1>2, <1>3, <2>1, <2>2
  <2>3. CASE s # t
    <3>1. /\ p_conn[s] \notin free /\ p_conn[s] \in Conns
          /\ p_conn[s] \in parked => quiet[p_conn[s]] <= hold[s]
          /\ at[s] \in {"ping", "update"} => quiet[p_conn[s]] <= hold[s]
          /\ at'[s] = at[s] /\ p_conn'[s] = p_conn[s]
      BY <1>3, <2>3 DEF IInv, TypeOK, Places, Pointers, Threads
    <3> QED BY <1>2, <2>1, <3>1
  <2> QED BY <2>2, <2>3
<1>7. Pinging(c)' /\ \A d : Pinging(d) => Pinging(d)'
  BY <1>1, <1>3 DEF Pinging, Threads
<1>8. Inherited' /\ TimersNotInherited' /\ NotLate' /\ WakesInTime'
  BY <1>1 DEF IInv, Inherited, TimersNotInherited, NotLate, WakesInTime
<1>9. NotPutOff'
  <2>1. \A e \in heap : left[e] \in Int /\ conn[e] \in Conns /\ quiet[conn[e]] \in Int /\ quiet'[conn[e]] \in Int
    BY <1>2, Times DEF IInv, TypeOK
  <2> QED BY <1>1, <1>2, <2>1, Times DEF IInv, NotPutOff
<1>10. \A d \in Open : d \in Conns
  BY DEF Open
<1>11. NotEarly'
  BY <1>1, <1>2, <1>7, <1>10 DEF IInv, NotEarly, Excused
<1>12. Picked' = Picked
  BY <1>1, <1>3 DEF Picked
<1>13. PickedAre'
  BY <1>1, <1>2, <1>7, <1>10, <1>12 DEF IInv, PickedAre, Excused
<1> QED BY <1>4, <1>5, <1>6, <1>8, <1>9, <1>11, <1>13 DEF IInv

\* What a ping that ends, or goes on, leaves as it is.
LEMMA PingGoesOn ==
  ASSUME IInv, NEW t \in Workers, at[t] \in {"ping", "update"},
         Leave(t) \/ (Enter(t, "update", p_conn[t]) /\ hold' = hold),
         UNCHANGED <<free, parked, quiet, loopVars>>
  PROVE  /\ t \in Threads /\ p_conn[t] \in Conns /\ hold[t] \in 0 .. MaxHold
         /\ at' \in [Threads -> {"idle", "ping", "update", "zd_close", "cancel", "park"}]
         /\ p_conn' \in [Threads -> Conns \cup {NoConn}]
         /\ hold' \in [Threads -> 0 .. MaxHold] /\ hold'[Epoll] = hold[Epoll]
         /\ Open' = Open /\ Picked' = Picked /\ Places' /\ Pointers'
         /\ \A d : d # p_conn[t] => (Pinging(d) <=> Pinging(d)')
<1> USE DEF Leave, Enter, loopVars
<1>1. t \in Threads /\ Epoll \in Threads /\ Epoll # t /\ Open' = Open /\ Workers \subseteq Threads
  BY NamesAssumption DEF Threads, Open
<1>2. p_conn[t] \in Conns /\ hold[t] \in 0 .. MaxHold
  BY <1>1 DEF IInv, TypeOK, Places
<1>3. /\ at' \in [Threads -> {"idle", "ping", "update", "zd_close", "cancel", "park"}]
      /\ p_conn' \in [Threads -> Conns \cup {NoConn}]
      /\ hold' \in [Threads -> 0 .. MaxHold] /\ hold'[Epoll] = hold[Epoll]
  <2>1. /\ at \in [Threads -> {"idle", "ping", "update", "zd_close", "cancel", "park"}]
        /\ p_conn \in [Threads -> Conns \cup {NoConn}]
        /\ hold \in [Threads -> 0 .. MaxHold]
    BY DEF IInv, TypeOK
  <2>2. hold' = hold \/ hold' = [hold EXCEPT ![t] = 0]
    OBVIOUS
  <2>3. hold' \in [Threads -> 0 .. MaxHold] /\ hold'[Epoll] = hold[Epoll]
    BY <1>1, <2>1, <2>2, Times
  <2>4. CASE Leave(t)
    BY <1>1, <2>1, <2>3, <2>4
  <2>5. CASE Enter(t, "update", p_conn[t])
    BY <1>1, <1>2, <2>1, <2>3, <2>5
  <2> QED BY <2>4, <2>5
<1>4. /\ \/ at'[t] = "idle" /\ p_conn'[t] = NoConn
         \/ at'[t] = "update" /\ p_conn'[t] = p_conn[t] /\ hold'[t] = hold[t]
      /\ \A s \in Threads : s # t => at'[s] = at[s] /\ p_conn'[s] = p_conn[s] /\ hold'[s] = hold[s]
  BY <1>1 DEF IInv, TypeOK
<1>5. Places'
  BY <1>1, <1>2, <1>3, <1>4, NamesAssumption DEF IInv, Places
<1>6. Pointers'
  BY <1>1, <1>4 DEF IInv, Pointers
<1>7. Picked' = Picked
  BY <1>1, <1>4 DEF Picked
<1>8. ASSUME NEW d, d # p_conn[t] PROVE Pinging(d) <=> Pinging(d)'
  <2>1. p_conn'[t] = d => at'[t] = "idle"
    BY <1>4, <1>8
  <2> QED BY <1>1, <1>4, <1>8, <2>1 DEF Pinging
<1> QED BY <1>1, <1>2, <1>3, <1>5, <1>6, <1>7, <1>8

LEMMA UpdateFindStep ==
  ASSUME IInv, NEW t \in Workers, UpdateFind(t)
  PROVE  IInv'
<1> USE DEF UpdateFind, timerVars
<1>0. PICK c \in Conns : c = p_conn[t]
  BY DEF IInv, TypeOK, Places, Threads
<1>1. heap' = heap /\ missed \subseteq missed' /\ missed' \subseteq missed \cup {c}
  BY <1>0 DEF heap
<1>2. /\ t \in Threads /\ c \in Conns
      /\ at' \in [Threads -> {"idle", "ping", "update", "zd_close", "cancel", "park"}]
      /\ p_conn' \in [Threads -> Conns \cup {NoConn}]
      /\ hold' \in [Threads -> 0 .. MaxHold] /\ hold'[Epoll] = hold[Epoll]
      /\ Open' = Open /\ Picked' = Picked /\ Places' /\ Pointers'
      /\ \A d : d # c => (Pinging(d) <=> Pinging(d)')
  BY <1>0, PingGoesOn
<1>3. Excused(c)'
  <2>1. c \in missed' \/ Enter(t, "update", c)
    BY <1>0
  <2>2. at \in [Threads -> {"idle", "ping", "update", "zd_close", "cancel", "park"}] /\ p_conn \in [Threads -> Conns \cup {NoConn}]
    BY DEF IInv, TypeOK
  <2>3. Enter(t, "update", c) => at'[t] = "update" /\ p_conn'[t] = c
    BY <1>2, <2>2 DEF Enter
  <2>4. Enter(t, "update", c) => Pinging(c)'
    BY <2>3 DEF Pinging
  <2> QED BY <2>1, <2>4 DEF Excused
<1>4. \A d : Excused(d) => Excused(d)'
  BY <1>1, <1>2, <1>3 DEF Excused
<1>5. TypeOK'
  BY <1>1, <1>2 DEF IInv, TypeOK, loopVars
<1>6. Inherited' /\ TimersNotInherited' /\ NotPutOff' /\ NotLate' /\ WakesInTime'
  BY <1>1, <1>2 DEF IInv, Inherited, TimersNotInherited, NotPutOff, NotLate, WakesInTime, loopVars
<1>7. NotEarly'
  BY <1>1, <1>2, <1>4 DEF IInv, NotEarly
<1>8. PickedAre'
  BY <1>1, <1>2, <1>4 DEF IInv, PickedAre
<1> QED BY <1>2, <1>5, <1>6, <1>7, <1>8 DEF IInv

LEMMA UpdateStep ==
  ASSUME IInv, NEW t \in Workers, Update(t)
  PROVE  IInv'
<1> USE DEF Update
<1> DEFINE e == Entry(id[t])
<1>0. PICK c \in Conns : c = p_conn[t]
  BY DEF IInv, TypeOK, Places, Threads
<1>1. /\ t \in Threads /\ c \in Conns /\ hold[t] \in 0 .. MaxHold
      /\ at' \in [Threads -> {"idle", "ping", "update", "zd_close", "cancel", "park"}]
      /\ p_conn' \in [Threads -> Conns \cup {NoConn}]
      /\ hold' \in [Threads -> 0 .. MaxHold] /\ hold'[Epoll] = hold[Epoll]
      /\ Open' = Open /\ Picked' = Picked /\ Places' /\ Pointers'
      /\ \A d : d # c => (Pinging(d) <=> Pinging(d)')
  BY <1>0, PingGoesOn
<1>2. /\ heap' = heap /\ missed \subseteq missed' /\ missed' \subseteq missed \cup {c}
      /\ e \notin TimersOf(c) \ stale => c \in missed'
      /\ \A d \in heap : d # e => left'[d] = left[d]
      /\ e \in heap => left'[e] = wait_time_ - hold[t]
      /\ e \notin heap => left' = left
      /\ moved \subseteq moved' /\ moved' \subseteq heap
      /\ e \in heap \ moved' => conn[e] = c
  BY <1>0 DEF heap, IInv, TypeOK
<1>3. /\ UNCHANGED <<conn, stale, free, parked, quiet, loopVars>>
      /\ quiet[c] \in 0 .. hold[t]
  <2>1. quiet[c] \in Nat /\ quiet[c] <= hold[t] /\ hold[t] \in Nat
    BY <1>0, <1>1, Times DEF IInv, TypeOK, Pointers
  <2> QED BY <2>1
<1> HIDE DEF e, Update
<1> USE DEF loopVars
<1>4. /\ \A d \in heap : left[d] \in Int /\ left'[d] \in -TooLate .. wait_time_ /\ conn[d] \in Conns
      /\ \A d \in Conns : quiet[d] \in Nat
      /\ sleep \in -1 .. wait_time_ /\ hold[Epoll] \in 0 .. MaxHold
  BY <1>1, <1>2, Times DEF IInv, TypeOK, Threads
<1>5. TypeOK'
  BY <1>1, <1>2, <1>3, <1>4 DEF IInv, TypeOK
<1>6. Inherited' /\ TimersNotInherited'
  BY <1>1, <1>2, <1>3 DEF IInv, Inherited, TimersNotInherited
<1>7. NotPutOff'
  BY <1>1, <1>2, <1>3, <1>4, Times DEF IInv, NotPutOff
<1>8. NotLate'
  BY <1>1, <1>2, <1>3, <1>4, Times DEF IInv, NotLate
<1>9. WakesInTime'
  BY <1>1, <1>2, <1>3, <1>4, Times DEF IInv, WakesInTime
<1>10. \A d : d # c => (Excused(d) => Excused(d)')
  BY <1>1, <1>2 DEF Excused
<1>11. NotEarly'
  <2> SUFFICES ASSUME NEW d \in heap \ stale, conn[d] \in Open
               PROVE  left'[d] + quiet[conn[d]] >= wait_time_ - MaxHold \/ Excused(conn[d])'
    BY <1>1, <1>2, <1>3 DEF NotEarly
  <2>1. CASE d = e
    BY <1>1, <1>2, <1>4, <2>1, Times
  <2>2. CASE d # e /\ conn[d] # c
    <3>1. left[d] + quiet[conn[d]] >= wait_time_ - MaxHold \/ Excused(conn[d])
      BY DEF IInv, NotEarly
    <3>2. PICK b \in Conns : b = conn[d]
      BY <1>4
    <3> QED BY <1>2, <1>3, <1>10, <2>2, <3>1, <3>2
  <2>3. CASE d # e /\ conn[d] = c
    <3>1. e \notin TimersOf(c) \ stale
      BY <2>3 DEF TimersOf, IInv, Inherited
    <3> QED BY <1>2, <1>3, <2>3, <3>1 DEF Excused
  <2> QED BY <2>1, <2>2, <2>3
<1>12. PickedAre'
  <2> SUFFICES ASSUME NEW d \in Open \cap Picked
               PROVE  /\ quiet[d] >= wait_time_ - MaxHold \/ Excused(d)'
                      /\ d \in missed' \/ \A x \in heap \ stale : conn[x] # d
    BY <1>1, <1>2, <1>3 DEF PickedAre
  <2>1. /\ quiet[d] >= wait_time_ - MaxHold \/ Excused(d)
        /\ d \in missed \/ \A x \in heap \ stale : conn[x] # d
    BY DEF IInv, PickedAre
  <2>2. d = c => Excused(d)'
    BY <1>2, <2>1 DEF TimersOf, Excused
  <2> QED BY <1>2, <1>10, <2>1, <2>2
<1> QED BY <1>1, <1>5, <1>6, <1>7, <1>8, <1>9, <1>11, <1>12 DEF IInv

-----------------------------------------------------------------------------
(* Clients come, Connections are used again, time passes.                  *)

LEMMA KickStep ==
  ASSUME IInv, NEW t \in Workers, NEW c \in Conns, Kick(t, c)
  PROVE  IInv'
<1>1. t \in Threads /\ t # Epoll
  BY NamesAssumption DEF Threads
<1> QED BY <1>1, BeginCloseStep DEF Kick, loopVars

LEMMA EventCloseStep ==
  ASSUME IInv, NEW c \in Conns, EventClose(c)
  PROVE  IInv'
<1>1. Epoll \in Threads /\ Epoll \notin Workers
  BY NamesAssumption DEF Threads
<1>2. batch' \subseteq batch
  BY DEF EventClose
<1> QED BY <1>1, <1>2, BeginCloseStep DEF EventClose

LEMMA EventAcceptStep ==
  ASSUME IInv, NEW c \in Conns, NEW e \in Events, EventAccept(c, e)
  PROVE  IInv'
<1> USE DEF EventAccept, AddToTimerQueue, TimerAdd, loopVars, threadVars
<1>1. /\ heap' = heap \cup {e} /\ DOMAIN conn' = heap' /\ e \notin heap /\ c \in free
      /\ left'[e] = wait_time_ /\ conn'[e] = c
      /\ \A d \in heap : left'[d] = left[d] /\ conn'[d] = conn[d]
  BY DEF heap, With
<1>2. UNCHANGED <<stale, moved, parked, missed, loopVars, threadVars>> /\ free' = free \ {c}
  OBVIOUS
<1>3. loop = "events" /\ sleep = 0 /\ Picked' = {}
  <2>1. loop = "events" /\ sleep = 0 /\ is_idle_list = << >>
    BY DEF IInv, Places
  <2> QED BY <2>1, <1>2 DEF Picked
<1>4. /\ quiet' \in [Conns -> 0 .. recycle_connection_wait_time_] /\ quiet'[c] = 0
      /\ \A d \in Conns : quiet'[d] <= quiet[d] /\ (d # c => quiet'[d] = quiet[d])
  <2>1. quiet \in [Conns -> 0 .. recycle_connection_wait_time_] /\ quiet' = [quiet EXCEPT ![c] = 0]
    BY DEF IInv, TypeOK
  <2> QED BY <2>1, Times
<1> HIDE DEF EventAccept
<1>5. /\ \A d \in heap : left[d] \in -TooLate .. wait_time_ /\ conn[d] \in Conns
      /\ \A d \in Conns : quiet[d] \in Nat /\ quiet'[d] \in Nat
      /\ hold[Epoll] \in 0 .. MaxHold /\ stale \subseteq heap /\ moved \subseteq heap
  BY <1>4, Times DEF IInv, TypeOK, Threads
<1>6. wait_time_ \in -TooLate .. wait_time_
  BY Times
<1>7. TypeOK'
  BY <1>1, <1>2, <1>4, <1>5, <1>6 DEF IInv, TypeOK
<1>8. Places'
  BY <1>2 DEF IInv, Places
<1>9. Pointers'
  <2> SUFFICES ASSUME NEW s \in Workers, at[s] # "idle"
               PROVE  /\ p_conn[s] \notin free'
                      /\ p_conn[s] \in parked => quiet'[p_conn[s]] <= hold[s]
                      /\ at[s] \in {"ping", "update"} => quiet'[p_conn[s]] <= hold[s]
    BY <1>2 DEF Pointers
  <2>1. /\ p_conn[s] \notin free /\ p_conn[s] \in Conns /\ hold[s] \in Nat
        /\ p_conn[s] \in parked => quiet[p_conn[s]] <= hold[s]
        /\ at[s] \in {"ping", "update"} => quiet[p_conn[s]] <= hold[s]
    BY Times DEF IInv, TypeOK, Places, Pointers, Threads
  <2>2. PICK d \in Conns : d = p_conn[s]
    BY <2>1
  <2>3. quiet'[d] <= quiet[d] /\ quiet[d] \in Nat /\ quiet'[d] \in Nat /\ d = p_conn[s] /\ d \notin free
    BY <1>4, <1>5, <2>1, <2>2
  <2>4. d \notin free'
    BY <1>2, <2>3
  <2>5. d \in parked \/ at[s] \in {"ping", "update"} => quiet'[d] <= hold[s]
    BY <2>1, <2>3
  <2> QED BY <2>2, <2>4, <2>5
<1>10. \A d \in heap \ stale : conn[d] # c
  BY <1>1 DEF IInv, Inherited
<1>11. Inherited'
  BY <1>1, <1>2, <1>10 DEF IInv, Inherited
<1>12. TimersNotInherited'
  BY <1>2 DEF IInv, TimersNotInherited
<1>13. \A d : Excused(d)' <=> Excused(d)
  BY <1>2 DEF Excused, Pinging
<1>14. NotEarly'
  <2> SUFFICES ASSUME NEW d \in heap' \ stale, conn'[d] \in Open'
               PROVE  left'[d] + quiet'[conn'[d]] >= wait_time_ - MaxHold \/ Excused(conn[d])'
    BY <1>2 DEF NotEarly
  <2>1. CASE d = e
    <3>1. left'[d] + quiet'[c] >= wait_time_ - MaxHold
      BY <1>1, <1>4, <2>1, Times
    <3> QED BY <1>1, <2>1, <3>1
  <2>2. CASE d # e
    <3>1. PICK b \in Conns : b = conn[d]
      BY <1>1, <1>5, <2>2
    <3>2. conn'[d] = b /\ left'[d] = left[d] /\ b # c /\ quiet'[b] = quiet[b] /\ b \in Open
      <4>1. conn'[d] = b /\ left'[d] = left[d] /\ b # c
        BY <1>1, <1>10, <2>2, <3>1
      <4> QED BY <1>2, <1>4, <4>1 DEF Open
    <3>3. left[d] + quiet[b] >= wait_time_ - MaxHold \/ Excused(b)
      BY <1>1, <2>2, <3>1, <3>2 DEF IInv, NotEarly
    <3> QED BY <1>13, <3>2, <3>3
  <2> QED BY <2>1, <2>2
<1>15. NotPutOff'
  <2> SUFFICES ASSUME NEW d \in heap' \ moved
               PROVE  left'[d] + quiet'[conn'[d]] <= wait_time_
    BY <1>2 DEF NotPutOff
  <2>1. CASE d = e
    <3>1. left'[d] + quiet'[c] <= wait_time_
      BY <1>1, <1>4, <2>1, Times
    <3> QED BY <1>1, <2>1, <3>1
  <2>2. CASE d # e
    <3>1. PICK b \in Conns : b = conn[d]
      BY <1>1, <1>5, <2>2
    <3>2. left[d] + quiet[b] <= wait_time_ /\ left[d] \in Int
      BY <1>1, <1>5, <2>2, <3>1, Times DEF IInv, NotPutOff
    <3>3. conn'[d] = b /\ left'[d] = left[d] /\ quiet'[b] <= quiet[b]
      BY <1>1, <1>4, <2>2, <3>1
    <3>4. left'[d] + quiet'[b] <= wait_time_
      BY <1>5, <3>2, <3>3, Times
    <3> QED BY <3>3, <3>4
  <2> QED BY <2>1, <2>2
<1>16. NotLate'
  <2>1. wait_time_ >= 0 - MaxHold - hold[Epoll]
    BY <1>5, Times
  <2> QED BY <1>1, <1>2, <1>3, <2>1 DEF IInv, NotLate, NoLimit
<1>17. WakesInTime' /\ PickedAre'
  BY <1>2, <1>3 DEF WakesInTime, PickedAre
<1> QED BY <1>7, <1>8, <1>9, <1>11, <1>12, <1>14, <1>15, <1>16, <1>17 DEF IInv

\* A Connection is parked so long that only an event put off or slept over can
\* still be there, and no pool thread is still at it.
LEMMA RecycleStep ==
  ASSUME IInv, NEW c \in Conns, Recycle(c)
  PROVE  IInv'
<1> USE DEF Recycle, loopVars, threadVars
<1>1. /\ heap' = heap /\ Open' = Open /\ c \notin Open
      /\ stale' = stale \cup TimersOf(c) /\ missed' = missed \ {c}
      /\ free' = free \cup {c} /\ parked' = parked \ {c} /\ c \in parked
      /\ quiet[c] >= recycle_connection_wait_time_
  BY DEF heap, Open
<1>2. UNCHANGED <<left, conn, moved, loopVars, threadVars>>
  OBVIOUS
<1>3. /\ quiet' \in [Conns -> 0 .. recycle_connection_wait_time_]
      /\ \A d \in Conns : quiet'[d] <= quiet[d] /\ (d # c => quiet'[d] = quiet[d])
  <2>1. quiet \in [Conns -> 0 .. recycle_connection_wait_time_] /\ quiet' = [quiet EXCEPT ![c] = 0]
    BY DEF IInv, TypeOK
  <2> QED BY <2>1, Times
<1> HIDE DEF Recycle
<1>4. /\ \A d \in heap : left[d] \in Int /\ conn[d] \in Conns
      /\ \A d \in Conns : quiet[d] \in Nat /\ quiet'[d] \in Nat
      /\ hold[Epoll] \in 0 .. MaxHold /\ sleep \in -1 .. wait_time_
  BY <1>3, Times DEF IInv, TypeOK, Threads
<1>5. TypeOK'
  BY <1>1, <1>2, <1>3 DEF IInv, TypeOK, TimersOf
<1>6. Places'
  BY <1>2 DEF IInv, Places
<1>7. TimersOf(c) \subseteq moved
  <2> SUFFICES ASSUME NEW e \in heap, conn[e] = c, e \notin moved PROVE FALSE
    BY DEF TimersOf
  <2>1. left[e] + quiet[c] <= wait_time_
    BY DEF IInv, NotPutOff
  <2>2. left[e] >= sleep - MaxHold - hold[Epoll] /\ sleep # NoLimit
    BY DEF IInv, NotLate
  <2> QED BY <1>1, <1>4, <2>1, <2>2, Times DEF NoLimit
<1>8. Pointers'
  <2> SUFFICES ASSUME NEW s \in Workers, at[s] # "idle"
               PROVE  /\ p_conn[s] \notin free'
                      /\ p_conn[s] \in parked' => quiet'[p_conn[s]] <= hold[s]
                      /\ at[s] \in {"ping", "update"} => quiet'[p_conn[s]] <= hold[s]
    BY <1>2 DEF Pointers
  <2>1. /\ p_conn[s] \notin free /\ p_conn[s] \in Conns /\ hold[s] \in 0 .. MaxHold
        /\ p_conn[s] \in parked => quiet[p_conn[s]] <= hold[s]
        /\ at[s] \in {"ping", "update"} => quiet[p_conn[s]] <= hold[s]
    BY DEF IInv, TypeOK, Places, Pointers, Threads
  <2>2. PICK d \in Conns : d = p_conn[s]
    BY <2>1
  <2>3. d # c
    BY <1>1, <1>4, <2>1, <2>2, Times
  <2>4. d \notin free' /\ quiet'[d] = quiet[d] /\ (d \in parked' => d \in parked)
    BY <1>1, <1>3, <2>1, <2>2, <2>3
  <2> QED BY <2>1, <2>2, <2>4
<1>9. Inherited' /\ TimersNotInherited'
  BY <1>1, <1>2, <1>7 DEF IInv, Inherited, TimersNotInherited, TimersOf
<1>10. \A d : d # c => (Excused(d)' <=> Excused(d))
  BY <1>1, <1>2 DEF Excused, Pinging
<1>11. NotEarly'
  <2> SUFFICES ASSUME NEW d \in heap \ stale, conn[d] \in Open
               PROVE  left[d] + quiet'[conn[d]] >= wait_time_ - MaxHold \/ Excused(conn[d])'
    BY <1>1, <1>2 DEF NotEarly
  <2>1. PICK b \in Conns : b = conn[d]
    BY <1>4
  <2>2. b # c /\ quiet'[b] = quiet[b] /\ b = conn'[d]
    BY <1>1, <1>2, <1>3, <2>1
  <2>3. left[d] + quiet[b] >= wait_time_ - MaxHold \/ Excused(b)
    BY <2>1 DEF IInv, NotEarly
  <2> QED BY <1>10, <2>1, <2>2, <2>3
<1>12. NotPutOff'
  <2> SUFFICES ASSUME NEW d \in heap \ moved
               PROVE  left[d] + quiet'[conn[d]] <= wait_time_
    BY <1>1, <1>2 DEF NotPutOff
  <2>1. PICK b \in Conns : b = conn[d]
    BY <1>4
  <2>2. left[d] + quiet[b] <= wait_time_ /\ quiet'[b] <= quiet[b]
    BY <1>3, <2>1 DEF IInv, NotPutOff
  <2>3. left[d] + quiet'[b] <= wait_time_
    BY <1>4, <2>2, Times
  <2> QED BY <2>1, <2>3
<1>13. NotLate' /\ WakesInTime'
  BY <1>1, <1>2 DEF IInv, NotLate, WakesInTime
<1>14. PickedAre'
  <2> SUFFICES ASSUME NEW d \in Open \cap Picked
               PROVE  /\ quiet'[d] >= wait_time_ - MaxHold \/ Excused(d)'
                      /\ d \in missed' \/ \A e \in heap \ stale' : conn[e] # d
    <3>1. Picked' = Picked
      BY <1>2 DEF Picked
    <3> QED BY <1>1, <1>2, <3>1 DEF PickedAre
  <2>1. d # c /\ d \in Conns /\ quiet'[d] = quiet[d]
    BY <1>1, <1>3 DEF Open
  <2> QED BY <1>1, <1>10, <2>1 DEF IInv, PickedAre
<1> QED BY <1>5, <1>6, <1>8, <1>9, <1>11, <1>12, <1>13, <1>14 DEF IInv

\* Timers run down and silences grow together.
LEMMA TickStep ==
  ASSUME IInv, Tick
  PROVE  IInv'
<1> USE DEF Tick
<1>1. /\ heap' = heap /\ Open' = Open /\ Picked' = Picked
      /\ Epoll \in Threads /\ Workers \subseteq Threads /\ Epoll \notin Workers
      /\ UNCHANGED <<conn, ref, timer_id, stale, moved, free, parked, missed, loop, is_idle_list,
                     batch, at, p_conn, id>>
  BY NamesAssumption DEF heap, Open, Picked, Threads
<1>2. /\ \A e \in heap : /\ left[e] \in -TooLate .. wait_time_ /\ conn[e] \in Conns
                         /\ left'[e] = IF left[e] > -TooLate THEN left[e] - 1 ELSE left[e]
      /\ \A c \in Conns : /\ quiet[c] \in 0 .. recycle_connection_wait_time_
                          /\ quiet'[c] = IF c \in free \/ quiet[c] = recycle_connection_wait_time_
                                           THEN quiet[c] ELSE quiet[c] + 1
      /\ \A t \in Threads : /\ hold[t] \in 0 .. MaxHold
                            /\ hold'[t] = IF at[t] # "idle" \/ (t = Epoll /\ Away)
                                            THEN hold[t] + 1 ELSE hold[t]
      /\ sleep \in -1 .. wait_time_
      /\ sleep' = IF loop = "blocked" /\ sleep > 0 THEN sleep - 1 ELSE sleep
  BY DEF IInv, TypeOK
<1>3. /\ at[Epoll] # "idle" => Away
      /\ loop # "blocked" => sleep = 0
      /\ ~ Away => hold[Epoll] = 0
  BY DEF IInv, Places, Away
<1>4. \A t \in Workers : at[t] # "idle" => hold[t] < MaxHold
  OBVIOUS
<1>5. Away => hold[Epoll] < MaxHold
  OBVIOUS
<1>6. /\ left' \in [heap -> -TooLate .. wait_time_]
      /\ quiet' \in [Conns -> 0 .. recycle_connection_wait_time_]
      /\ hold' \in [Threads -> 0 .. MaxHold]
      /\ sleep' \in -1 .. wait_time_
  <2>1. left' = [e \in heap |-> IF left[e] > -TooLate THEN left[e] - 1 ELSE left[e]]
    OBVIOUS
  <2>2. \A e \in heap : left'[e] \in -TooLate .. wait_time_
    BY <1>2, Times
  <2>3. quiet' = [c \in Conns |-> IF c \in free \/ quiet[c] = recycle_connection_wait_time_
                                   THEN quiet[c] ELSE quiet[c] + 1]
    OBVIOUS
  <2>4. \A c \in Conns : quiet'[c] \in 0 .. recycle_connection_wait_time_
    BY <1>2, Times
  <2>5. hold' = [t \in Threads |-> IF at[t] # "idle" \/ (t = Epoll /\ Away)
                                    THEN hold[t] + 1 ELSE hold[t]]
    OBVIOUS
  <2>6. \A t \in Threads : at[t] # "idle" \/ (t = Epoll /\ Away) => hold[t] < MaxHold
    BY <1>3, <1>4, <1>5 DEF Threads
  <2>7. \A t \in Threads : hold'[t] \in 0 .. MaxHold
    BY <1>2, <2>6, Times
  <2>8. sleep' \in -1 .. wait_time_
    BY <1>2, Times
  <2> HIDE DEF Tick
  <2> QED BY <2>1, <2>2, <2>3, <2>4, <2>5, <2>7, <2>8
<1> HIDE DEF Tick
<1>7. TypeOK'
  BY <1>1, <1>6 DEF IInv, TypeOK
<1>8. Places'
  <2>1. loop = "blocked" /\ sleep' # 0 => hold'[Epoll] = 0
    <3> SUFFICES ASSUME loop = "blocked", sleep' # 0 PROVE hold'[Epoll] = 0
      OBVIOUS
    <3>1. sleep # 0 /\ ~ Away
      BY <1>2 DEF Away
    <3> QED BY <1>1, <1>2, <1>3, <3>1
  <2>2. loop # "blocked" => sleep' = 0
    BY <1>2, <1>3
  <2> QED BY <1>1, <2>1, <2>2 DEF IInv, Places
<1>9. Pointers'
  <2> SUFFICES ASSUME NEW s \in Workers, at[s] # "idle"
               PROVE  /\ p_conn[s] \notin free
                      /\ p_conn[s] \in parked => quiet'[p_conn[s]] <= hold'[s]
                      /\ at[s] \in {"ping", "update"} => quiet'[p_conn[s]] <= hold'[s]
    BY <1>1 DEF Pointers
  <2>1. /\ p_conn[s] \notin free /\ p_conn[s] \in Conns
        /\ p_conn[s] \in parked => quiet[p_conn[s]] <= hold[s]
        /\ at[s] \in {"ping", "update"} => quiet[p_conn[s]] <= hold[s]
    BY <1>1 DEF IInv, TypeOK, Places, Pointers
  <2>2. PICK d \in Conns : d = p_conn[s]
    BY <2>1
  <2>3. hold'[s] = hold[s] + 1 /\ quiet'[d] <= quiet[d] + 1
    BY <1>1, <1>2, Times
  <2>4. quiet[d] \in Int /\ hold[s] \in Int /\ quiet'[d] \in Int
    BY <1>1, <1>2, <1>6, Times
  <2>5. d \in parked \/ at[s] \in {"ping", "update"} => quiet'[d] <= hold'[s]
    BY <2>1, <2>2, <2>3, <2>4
  <2> QED BY <2>1, <2>2, <2>5
<1>10. Inherited' /\ TimersNotInherited'
  BY <1>1 DEF IInv, Inherited, TimersNotInherited
<1>11. \A c : Excused(c)' <=> Excused(c)
  BY <1>1 DEF Excused, Pinging
<1>12. NotEarly'
  <2> SUFFICES ASSUME NEW e \in heap \ stale, conn[e] \in Open
               PROVE  left'[e] + quiet'[conn'[e]] >= wait_time_ - MaxHold \/ Excused(conn[e])'
    BY <1>1 DEF NotEarly
  <2>1. PICK c \in Conns : c = conn[e] /\ c = conn'[e]
    BY <1>1, <1>2
  <2>2. left[e] + quiet[c] >= wait_time_ - MaxHold \/ Excused(c)
    BY <2>1 DEF IInv, NotEarly
  <2>3. c \notin free
    BY <2>1 DEF Open
  <2>4. left[e] + quiet[c] >= wait_time_ - MaxHold => left'[e] + quiet'[c] >= wait_time_ - MaxHold
    BY <1>2, <2>3, Times
  <2> QED BY <1>11, <2>1, <2>2, <2>4
<1>13. ASSUME NEW e \in heap \ moved
       PROVE  left'[e] = left[e] - 1 /\ left[e] \in Int /\ left[e] >= sleep - MaxHold - hold[Epoll] /\ sleep # -1
  <2>1. left[e] >= sleep - MaxHold - hold[Epoll] /\ sleep # -1
    BY DEF IInv, NotLate, NoLimit
  <2>2. hold[Epoll] \in 0 .. MaxHold /\ left[e] \in Int
    BY <1>1, <1>2, Times
  <2>3. left[e] > -TooLate
    BY <1>2, <2>1, <2>2, Times
  <2> QED BY <1>2, <2>1, <2>2, <2>3
<1>14. NotPutOff'
  <2> SUFFICES ASSUME NEW e \in heap \ moved
               PROVE  left'[e] + quiet'[conn'[e]] <= wait_time_
    BY <1>1 DEF NotPutOff
  <2>1. PICK c \in Conns : c = conn[e] /\ c = conn'[e]
    BY <1>1, <1>2
  <2>2. left[e] + quiet[c] <= wait_time_
    BY <2>1 DEF IInv, NotPutOff
  <2>3. quiet'[c] <= quiet[c] + 1 /\ quiet[c] \in Int /\ quiet'[c] \in Int
    BY <1>2, <1>6, Times
  <2>4. left'[e] + quiet'[c] <= wait_time_
    BY <1>13, <2>2, <2>3, Times
  <2> QED BY <2>1, <2>4
<1>15. NotLate'
  <2> SUFFICES ASSUME NEW e \in heap \ moved
               PROVE  left'[e] >= sleep' - MaxHold - hold'[Epoll] /\ sleep' # NoLimit
    BY <1>1 DEF NotLate
  <2>1. hold[Epoll] \in Int /\ hold'[Epoll] \in Int /\ sleep \in -1 .. wait_time_
    BY <1>1, <1>2, <1>6, Times
  <2>2. hold'[Epoll] = hold[Epoll] + 1 \/ hold'[Epoll] = hold[Epoll]
    BY <1>1, <1>2
  <2>3. CASE Away
    <3>1. hold'[Epoll] = hold[Epoll] + 1
      BY <1>1, <1>2, <2>3
    <3>2. sleep' = sleep
      BY <1>2, <1>3, <2>3 DEF Away
    <3> QED BY <1>13, <2>1, <3>1, <3>2, Times DEF NoLimit
  <2>4. CASE ~ Away
    <3>1. sleep' = sleep - 1 /\ sleep > 0
      BY <1>2, <1>13, <2>1, <2>4, Times DEF Away
    <3> QED BY <1>13, <2>1, <2>2, <3>1, Times DEF NoLimit
  <2> QED BY <2>3, <2>4
<1>16. WakesInTime'
  <2> SUFFICES ASSUME loop = "blocked", sleep' > 0, NEW e \in heap
               PROVE  sleep' <= left'[e] + MaxHold
    BY <1>1 DEF WakesInTime
  <2>1. sleep > 0 /\ sleep' = sleep - 1
    BY <1>2, Times
  <2>2. sleep <= left[e] + MaxHold
    BY <2>1 DEF IInv, WakesInTime
  <2> QED BY <1>2, <2>1, <2>2, Times
<1>17. PickedAre'
  <2> SUFFICES ASSUME NEW d \in Open \cap Picked
               PROVE  /\ quiet'[d] >= wait_time_ - MaxHold \/ Excused(d)'
                      /\ d \in missed \/ \A e \in heap \ stale : conn[e] # d
    BY <1>1 DEF PickedAre
  <2>1. d \in Conns /\ quiet'[d] >= quiet[d] /\ quiet[d] \in Int /\ quiet'[d] \in Int
    BY <1>2, <1>6, Times DEF Open
  <2>2. /\ quiet[d] >= wait_time_ - MaxHold \/ Excused(d)
        /\ d \in missed \/ \A e \in heap \ stale : conn[e] # d
    BY DEF IInv, PickedAre
  <2> QED BY <1>11, <2>1, <2>2, Times
<1> QED BY <1>7, <1>8, <1>9, <1>10, <1>12, <1>14, <1>15, <1>16, <1>17 DEF IInv

-----------------------------------------------------------------------------
(* The theorems.                                                           *)

LEMMA IInvStep == IInv /\ [Next]_vars => IInv'
<1> SUFFICES ASSUME IInv, [Next]_vars PROVE IInv'
  OBVIOUS
<1>1. CASE UNCHANGED vars
  <2>1. /\ heap' = heap /\ Open' = Open /\ Picked' = Picked /\ (\A c : Excused(c)' <=> Excused(c))
    BY <1>1 DEF vars, timerVars, connVars, loopVars, threadVars, heap, Open, Picked, Excused, Pinging
  <2>2. TypeOK' /\ Places' /\ Pointers'
    BY <1>1, <2>1 DEF vars, timerVars, connVars, loopVars, threadVars, IInv, TypeOK, Places, Pointers
  <2>3. Inherited' /\ TimersNotInherited' /\ NotPutOff' /\ NotLate' /\ WakesInTime'
    BY <1>1, <2>1 DEF vars, timerVars, connVars, loopVars, threadVars, IInv, Inherited,
       TimersNotInherited, NotPutOff, NotLate, WakesInTime
  <2>4. NotEarly' /\ PickedAre'
    BY <1>1, <2>1 DEF vars, timerVars, connVars, loopVars, threadVars, IInv, NotEarly, PickedAre
  <2> QED BY <2>2, <2>3, <2>4 DEF IInv
<1>2. CASE Faulted
  BY <1>1, <1>2 DEF Faulted
<1>3. CASE EpollStep
  BY <1>3, NothingDueStep, SettleStep, PlaceStep, CloseIdleStep, PopStep DEF EpollStep
<1>4. CASE Interrupted \/ SomeEvents
  BY <1>4, PlaceStep
<1>5. CASE Tick
  BY <1>5, TickStep
<1>6. CASE \E t \in Threads : Close(t)
  BY <1>6, CancelFindStep, TimerCancelStep, InRecyStep DEF Close
<1>7. CASE \E t \in Workers : UpdateFind(t) \/ Update(t)
  BY <1>7, UpdateFindStep, UpdateStep
<1>8. CASE \E c \in Conns : EventClose(c) \/ Recycle(c) \/ \E e \in Events : EventAccept(c, e)
  BY <1>8, EventCloseStep, RecycleStep, EventAcceptStep
<1>9. CASE \E c \in Conns, t \in Workers : Ping(t, c) \/ Kick(t, c)
  BY <1>9, PingStep, KickStep
<1> QED BY <1>1, <1>2, <1>3, <1>4, <1>5, <1>6, <1>7, <1>8, <1>9 DEF Next, Sound

LEMMA IInvAlways == Spec => []IInv
BY IInvInit, IInvStep, PTL DEF Spec

\* A wait with a limit ends before any timer has been due for longer than the
\* epoll thread may be late (hao_socket_timer.cpp:119-160).
THEOREM WaitsEnd == Spec => []WakesInTime
<1>1. IInv => WakesInTime
  BY DEF IInv
<1> QED BY <1>1, IInvAlways, PTL

\* An event that outlives its client until the Connection is free again has
\* been put off by another client's ping or slept over (hao_timer.cpp:293-308).
THEOREM TimersPassedOn == Spec => []TimersNotInherited
<1>1. IInv => TimersNotInherited
  BY DEF IInv
<1> QED BY <1>1, IInvAlways, PTL

\* Whom the heartbeat closes has been silent, or a ping has missed its timer or
\* is still being handled (hao_socket_timer.cpp:57-89).
THEOREM OnlySilentKicked == Spec => []KickOnlySilent
<1>1. IInv => KickOnlySilent
  BY DEF IInv, PickedAre, KickOnlySilent, Excused
<1> QED BY <1>1, IInvAlways, PTL

\* A client whose timer has not been put off or slept over is closed in time
\* (hao_socket_timer.cpp:119-160).
THEOREM SilentClosedInTime == Spec => []ClosedInTime
<1>1. IInv => ClosedInTime
  <2> SUFFICES ASSUME IInv, NEW c \in Open, NEW e \in TimersOf(c), e \notin moved
               PROVE  quiet[c] <= wait_time_ + 2 * MaxHold
    BY DEF ClosedInTime
  <2>1. e \in heap /\ conn[e] = c
    BY DEF TimersOf
  <2>2. left[e] + quiet[c] <= wait_time_
    BY <2>1 DEF IInv, NotPutOff
  <2>3. left[e] >= sleep - MaxHold - hold[Epoll] /\ sleep # NoLimit
    BY <2>1 DEF IInv, NotLate
  <2>4. hold[Epoll] \in 0 .. MaxHold /\ sleep \in -1 .. wait_time_ /\ left[e] \in Int /\ quiet[c] \in Int
    BY <2>1, Times DEF IInv, TypeOK, Open, Threads
  <2> QED BY <2>2, <2>3, <2>4, Times DEF NoLimit
<1> QED BY <1>1, IInvAlways, PTL
=============================================================================
