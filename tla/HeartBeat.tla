----------------------------- MODULE HeartBeat ------------------------------
(***************************************************************************)
(* The timers that close silent clients: TimerHeartBeatCheck and the other *)
(* functions of app/net/hao_socket_timer.cpp, TimerAdd, Update,            *)
(* TimerCancel and Pop of Timer with its map ref_ from ids to events       *)
(* (app/util/hao_timer.cpp:266-349), the part Epoll_Process_Events,        *)
(* EventAccept and zd_close_socket_proc have in them (app/net), and what   *)
(* pool threads do to them: HandlePing (app/logic/hao_logic.cpp:208-217)   *)
(* and the close in MsgSend (app/net/hao_socket.cpp:337-345).              *)
(*                                                                         *)
(* The heap is the set of its events: that it gives back an earliest one   *)
(* and loses none is MinHeap's.  An event is a block of memory: what is    *)
(* not in the heap has been freed and may be allocated again.  No function *)
(* here takes a lock against the others: each look at ref_ or timer_id_    *)
(* and each change of the heap is a step.  What becomes of a container     *)
(* that two threads are inside at once is not modelled.                    *)
(*                                                                         *)
(* A behaviour is followed up to its first fault: freed memory is used, or *)
(* a Connection that is free already is put on the list of closed ones.    *)
(***************************************************************************)
EXTENDS Integers, FiniteSets, Sequences

CONSTANTS
    Conns, NoConn,              \* the Connections of the pool
    Events, NoEvent,            \* blocks of memory for events
    Workers, Epoll,             \* the pool threads and the epoll thread
    wait_time_,                 \* how long a client may be silent
    recycle_connection_wait_time_,
    MaxHold                     \* how long a pool thread keeps a pointer, and
                                \* the epoll thread is away from its wait

ASSUME TimesAssumption ==
    /\ MaxHold \in Nat
    /\ wait_time_ \in Nat /\ MaxHold < wait_time_
    /\ recycle_connection_wait_time_ \in Nat
    /\ wait_time_ + 2 * MaxHold < recycle_connection_wait_time_
ASSUME NamesAssumption ==
    /\ NoConn \notin Conns /\ Epoll \notin Workers
    /\ NoEvent \notin Events /\ IsFiniteSet(Events)

VARIABLES
    left,           \* time to ev_timeout of the events in the heap
    conn,           \* user_data_->conn of the events in the heap
    ref,            \* ref_
    timer_id,       \* of each Connection
    free, parked,   \* Connections in the free pool; in recycle_connection_pool_
    quiet,          \* since the client was last heard, or the Connection parked
    loop,           \* where the epoll thread is
    is_idle_list,   \* Connections of the events it has taken out
    batch,          \* Connections whose event it has been given
    sleep,          \* what is left of epoll_wait's timeout
    at, p_conn, id, \* for each thread: its place in a ping or a close, whose it
                    \* is, and the timer_id_ it has read
    hold,           \* for each thread: how long it has been at it
    stale,          \* ghost: events whose Connection has been free since
    moved,          \* ghost: events put off by another client's ping or slept over
    missed,         \* ghost: clients of whom a ping has missed their timer
    fault           \* ghost: what has gone wrong

timerVars  == <<left, conn, ref, timer_id, stale, moved>>
connVars   == <<free, parked, quiet, missed>>
loopVars   == <<loop, is_idle_list, batch, sleep>>
threadVars == <<at, p_conn, id, hold>>
vars == <<timerVars, connVars, loopVars, threadVars, fault>>

Threads == Workers \cup {Epoll}
heap    == DOMAIN left
NoLimit == -1
NewestId == Cardinality(Events) - 1
Open    == Conns \ (free \cup parked)
Overdue == {e \in heap : left[e] < 0}
Due     == {e \in heap : left[e] <= 0}
TimersOf(c) == {e \in heap : conn[e] = c}
Busy    == {t \in Threads : at[t] # "idle"}

\* The epoll thread is not waiting, or need not wait any longer.
Away == loop # "blocked" \/ sleep = 0

Init ==
    /\ left = [e \in {} |-> 0] /\ conn = [e \in {} |-> NoConn]
    /\ ref = [n \in 0 .. NewestId |-> NoEvent]
    /\ timer_id = [c \in Conns |-> -1]
    /\ free = Conns /\ parked = {} /\ quiet = [c \in Conns |-> 0]
    /\ loop = "check" /\ is_idle_list = << >> /\ batch = {} /\ sleep = 0
    /\ at = [t \in Threads |-> "idle"] /\ p_conn = [t \in Threads |-> NoConn]
    /\ id = [t \in Threads |-> -1] /\ hold = [t \in Threads |-> 0]
    /\ stale = {} /\ moved = {} /\ missed = {} /\ fault = "none"
-----------------------------------------------------------------------------
(* Timer.                                                                  *)

\* f of one more event, and of all but one.
With(f, e, x) == [d \in heap \cup {e} |-> IF d = e THEN x ELSE f[d]]
Without(f, e) == [d \in heap \ {e} |-> f[d]]

\* The event at id; there may be none, or one that has been freed.
Entry(n) == IF n = -1 THEN NoEvent ELSE ref[n]

\* An id is the place the event has in the heap when it is added: the last
\* one, for nothing in the heap is due later.
NewId == Cardinality(heap)

TimerAdd(e, c) ==
    /\ left' = With(left, e, wait_time_)
    /\ conn' = With(conn, e, c)
    /\ ref' = [ref EXCEPT ![NewId] = e]

AddToTimerQueue(c, e) ==
    /\ TimerAdd(e, c)
    /\ timer_id' = [timer_id EXCEPT ![c] = NewId]
    /\ UNCHANGED <<stale, moved>>

\* e leaves the heap and is freed.
Remove(e) ==
    /\ left' = Without(left, e) /\ conn' = Without(conn, e)
    /\ stale' = stale \ {e} /\ moved' = moved \ {e}

\* Pop leaves ref_ as it is.
Pop(e) == Remove(e) /\ UNCHANGED ref
-----------------------------------------------------------------------------
(* HandlePing, by a pool thread.                                           *)

Enter(t, place, c) ==
    /\ at' = [at EXCEPT ![t] = place] /\ p_conn' = [p_conn EXCEPT ![t] = c]

Leave(t) ==
    /\ Enter(t, "idle", NoConn)
    /\ id' = [id EXCEPT ![t] = -1]
    /\ hold' = IF t \in Workers THEN [hold EXCEPT ![t] = 0] ELSE hold

\* The sequence number still matches, the time is taken, ...
Ping(t, c) ==
    /\ at[t] = "idle" /\ c \in Open
    /\ Enter(t, "ping", c)
    /\ quiet' = [quiet EXCEPT ![c] = 0]
    /\ UNCHANGED <<timerVars, free, parked, missed, loopVars, id, hold, fault>>

\* ... timer_id_ is read and looked for, ...
UpdateFind(t) ==
    /\ at[t] = "ping"
    /\ LET n == timer_id[p_conn[t]] IN
       IF Entry(n) = NoEvent
         THEN /\ Leave(t)
              /\ missed' = missed \cup {p_conn[t]}
         ELSE /\ Enter(t, "update", p_conn[t])
              /\ id' = [id EXCEPT ![t] = n]
              /\ UNCHANGED <<hold, missed>>
    /\ UNCHANGED <<timerVars, free, parked, quiet, loopVars, fault>>

\* Mutant of Update: the event keeps its time.
MutUpdate(t) == at[t] = "update" /\ Leave(t) /\ UNCHANGED <<timerVars, connVars, loopVars, fault>>

\* ... and the event that is there now is put off.
Update(t) ==
    /\ at[t] = "update"
    /\ LET e == Entry(id[t]) IN
       /\ missed' = IF e \in TimersOf(p_conn[t]) \ stale THEN missed ELSE missed \cup {p_conn[t]}
       /\ IF e \in heap
            THEN /\ left' = [left EXCEPT ![e] = wait_time_ - hold[t]]
                 /\ moved' = IF conn[e] = p_conn[t] THEN moved ELSE moved \cup {e}
                 /\ UNCHANGED fault
            ELSE fault' = "memory" /\ UNCHANGED <<left, moved>>
    /\ Leave(t)
    /\ UNCHANGED <<conn, ref, timer_id, stale, free, parked, quiet, loopVars>>
-----------------------------------------------------------------------------
(* zd_close_socket_proc, by any thread.                                    *)

\* MsgSend of a pool thread that has an answer for c.
Kick(t, c) ==
    /\ at[t] = "idle" /\ c \in Open
    /\ Enter(t, "zd_close", c)
    /\ UNCHANGED <<timerVars, connVars, loopVars, id, hold, fault>>

\* timer_id_ is read and looked for; no close resets it, ...
CancelFind(t) ==
    /\ at[t] = "zd_close"
    /\ LET n == timer_id[p_conn[t]] IN
       IF Entry(n) = NoEvent
         THEN at' = [at EXCEPT ![t] = "park"] /\ UNCHANGED id
         ELSE at' = [at EXCEPT ![t] = "cancel"] /\ id' = [id EXCEPT ![t] = n]
    /\ UNCHANGED <<timerVars, connVars, loopVars, p_conn, hold, fault>>

\* ... the event that is there now is taken out and freed; its MsgHeader is
\* not, ...
TimerCancel(t) ==
    /\ at[t] = "cancel"
    /\ LET e == Entry(id[t]) IN
       IF e \in heap
         THEN Remove(e) /\ ref' = [ref EXCEPT ![id[t]] = NoEvent] /\ UNCHANGED fault
         ELSE fault' = "memory" /\ UNCHANGED <<left, conn, ref, stale, moved>>
    /\ at' = [at EXCEPT ![t] = "park"]
    /\ id' = [id EXCEPT ![t] = -1]
    /\ UNCHANGED <<timer_id, connVars, loopVars, p_conn, hold>>

\* ... and the Connection parked, unless it is.
InRecyConnectQueue(t) ==
    /\ at[t] = "park"
    /\ LET c == p_conn[t] IN
       /\ parked' = parked \cup {c}
       /\ quiet' = IF c \in parked THEN quiet ELSE [quiet EXCEPT ![c] = 0]
       /\ fault' = IF c \in free THEN "free" ELSE fault
    /\ Leave(t)
    /\ UNCHANGED <<timerVars, free, missed, loopVars>>
-----------------------------------------------------------------------------
(* The epoll thread between two waits.                                     *)

Earliest == CHOOSE n \in {left[e] : e \in heap} : \A e \in heap : n <= left[e]

Block(n) ==
    /\ loop' = "blocked" /\ sleep' = n
    /\ hold' = [hold EXCEPT ![Epoll] = 0]

\* Mutants of NothingDue: the wait is as long as a new timer's, or has no limit.
MutNothingDueLate ==
    /\ loop = "check" /\ Overdue = {}
    /\ Block(IF heap = {} THEN NoLimit ELSE wait_time_)
    /\ UNCHANGED <<timerVars, connVars, is_idle_list, batch, at, p_conn, id, fault>>

MutNothingDueForever ==
    /\ loop = "check" /\ Overdue = {}
    /\ Block(NoLimit)
    /\ UNCHANGED <<timerVars, connVars, is_idle_list, batch, at, p_conn, id, fault>>

\* No timer, or none overdue: wait, if need be until the earliest is due.
NothingDue ==
    /\ loop = "check" /\ Overdue = {}
    /\ Block(IF heap = {} THEN NoLimit ELSE Earliest)
    /\ UNCHANGED <<timerVars, connVars, is_idle_list, batch, at, p_conn, id, fault>>

SomethingOverdue ==
    /\ loop = "check" /\ Overdue # {}
    /\ loop' = "pop"
    /\ UNCHANGED <<timerVars, connVars, is_idle_list, batch, sleep, threadVars, fault>>

\* The events due by now are taken out one by one, the earliest first.
GetOverTimeTimer(e) ==
    /\ loop = "pop" /\ e \in Due /\ left[e] = Earliest
    /\ Pop(e)
    /\ timer_id' = [timer_id EXCEPT ![conn[e]] = -1]
    /\ is_idle_list' = Append(is_idle_list, conn[e])
    /\ missed' = IF e \in stale THEN missed \cup {conn[e]} ELSE missed
    /\ UNCHANGED <<free, parked, quiet, loop, batch, sleep, threadVars, fault>>

AllTaken ==
    /\ loop = "pop" /\ Due = {}
    /\ loop' = "close"
    /\ UNCHANGED <<timerVars, connVars, is_idle_list, batch, sleep, threadVars, fault>>

\* Then their Connections are closed.
CloseIdle ==
    /\ loop = "close" /\ at[Epoll] = "idle" /\ is_idle_list # << >>
    /\ Enter(Epoll, "zd_close", Head(is_idle_list))
    /\ is_idle_list' = Tail(is_idle_list)
    /\ UNCHANGED <<timerVars, connVars, loop, batch, sleep, id, hold, fault>>

\* The timeout is the time left now that they are closed: negative, which
\* epoll_wait takes for no limit, if another event has become overdue, and a
\* meaningless number, the time since 1970 cut to an int, if there is none.
Settle ==
    /\ loop = "close" /\ at[Epoll] = "idle" /\ is_idle_list = << >>
    /\ \/ heap = {} /\ \E n \in 0 .. wait_time_ \cup {NoLimit} : Block(n)
       \/ heap # {} /\ Block(IF Overdue # {} THEN NoLimit ELSE Earliest)
    /\ moved' = IF Overdue # {} THEN heap ELSE moved
    /\ UNCHANGED <<left, conn, ref, timer_id, stale, connVars, is_idle_list, batch, at, p_conn, id, fault>>

Wake(place) == loop = "blocked" /\ loop' = place /\ sleep' = 0

TimedOut ==
    /\ sleep = 0 /\ Wake("check")
    /\ UNCHANGED <<timerVars, connVars, is_idle_list, batch, threadVars, fault>>

\* A signal.
Interrupted ==
    /\ Wake("check")
    /\ UNCHANGED <<timerVars, connVars, is_idle_list, batch, threadVars, fault>>
-----------------------------------------------------------------------------
(* The events of clients.                                                  *)

\* Any client that is there may have something.
SomeEvents ==
    /\ Wake("events") /\ batch' = Open
    /\ UNCHANGED <<timerVars, connVars, is_idle_list, threadVars, fault>>

EventsDone ==
    /\ loop = "events" /\ at[Epoll] = "idle"
    /\ loop' = "check" /\ batch' = {}
    /\ UNCHANGED <<timerVars, connVars, is_idle_list, sleep, threadVars, fault>>

\* A client connects; malloc gives any block that is free.
EventAccept(c, e) ==
    /\ loop = "events" /\ at[Epoll] = "idle"
    /\ c \in free /\ e \notin heap
    /\ AddToTimerQueue(c, e)
    /\ free' = free \ {c}
    /\ quiet' = [quiet EXCEPT ![c] = 0]
    /\ UNCHANGED <<parked, missed, loopVars, threadVars, fault>>

\* recv fails or says that the client has gone, or its packets are a flood.
\* If a pool thread has closed it since the events were fetched, this is the
\* second close.  (A flood closes twice on its own; the id is gone then.)
EventClose(c) ==
    /\ loop = "events" /\ at[Epoll] = "idle" /\ c \in batch
    /\ batch' = batch \ {c}
    /\ Enter(Epoll, "zd_close", c)
    /\ UNCHANGED <<timerVars, connVars, loop, is_idle_list, sleep, id, hold, fault>>
-----------------------------------------------------------------------------
(* The recycling thread, and time.                                         *)

\* Mutant of Recycle: without the waiting time.
MutRecycle(c) ==
    /\ c \in parked
    /\ parked' = parked \ {c} /\ free' = free \cup {c}
    /\ quiet' = [quiet EXCEPT ![c] = 0]
    /\ stale' = stale \cup TimersOf(c)
    /\ missed' = missed \ {c}
    /\ UNCHANGED <<left, conn, ref, timer_id, moved, loopVars, threadVars, fault>>

Recycle(c) ==
    /\ c \in parked /\ quiet[c] >= recycle_connection_wait_time_
    /\ parked' = parked \ {c} /\ free' = free \cup {c}
    /\ quiet' = [quiet EXCEPT ![c] = 0]
    /\ stale' = stale \cup TimersOf(c)
    /\ missed' = missed \ {c}
    /\ UNCHANGED <<left, conn, ref, timer_id, moved, loopVars, threadVars, fault>>

\* How late an event can be without having been slept over, and one more.
TooLate == 2 * MaxHold + 1

\* No thread keeps a pointer longer than MaxHold, and the epoll thread is not
\* away longer from its wait; taking the events out takes no time to speak of.
Tick ==
    /\ \A t \in Workers : at[t] # "idle" => hold[t] < MaxHold
    /\ Away => hold[Epoll] < MaxHold
    /\ loop # "pop"
    /\ left' = [e \in heap |-> IF left[e] > -TooLate THEN left[e] - 1 ELSE left[e]]
    /\ quiet' = [c \in Conns |-> IF c \in free \/ quiet[c] = recycle_connection_wait_time_
                                   THEN quiet[c] ELSE quiet[c] + 1]
    /\ sleep' = IF loop = "blocked" /\ sleep > 0 THEN sleep - 1 ELSE sleep
    /\ hold' = [t \in Threads |-> IF at[t] # "idle" \/ (t = Epoll /\ Away)
                                    THEN hold[t] + 1 ELSE hold[t]]
    /\ UNCHANGED <<conn, ref, timer_id, stale, moved, free, parked, missed, loop, is_idle_list,
                   batch, at, p_conn, id, fault>>

\* After a fault anything may happen; it is not followed.
Faulted == fault # "none" /\ UNCHANGED vars

EpollStep ==
    \/ NothingDue \/ SomethingOverdue \/ AllTaken \/ CloseIdle \/ Settle \/ TimedOut \/ EventsDone
    \/ \E e \in Events : GetOverTimeTimer(e)

Close(t) == CancelFind(t) \/ TimerCancel(t) \/ InRecyConnectQueue(t)

Sound ==
    \/ EpollStep \/ Interrupted \/ SomeEvents \/ Tick
    \/ \E t \in Threads : Close(t)
    \/ \E t \in Workers : UpdateFind(t) \/ Update(t)
    \/ \E c \in Conns :
          \/ EventClose(c) \/ Recycle(c)
          \/ \E e \in Events : EventAccept(c, e)
          \/ \E t \in Workers : Ping(t, c) \/ Kick(t, c)

Next == (fault = "none" /\ Sound) \/ Faulted

Spec == Init /\ [][Next]_vars
-----------------------------------------------------------------------------
(* Properties.                                                             *)

Pinging(c) == \E t \in Workers : at[t] \in {"ping", "update"} /\ p_conn[t] = c

\* Connections the heartbeat has decided to close.
Picked == {is_idle_list[i] : i \in DOMAIN is_idle_list}
            \cup (IF loop = "close" THEN {p_conn[Epoll]} ELSE {})

\* When epoll_wait has a limit, it returns before any timer has been due for
\* longer than two pings of a client can overtake each other
\* (hao_socket_timer.cpp:119-160).
WakesInTime ==
    loop = "blocked" /\ sleep > 0 => \A e \in heap : sleep <= left[e] + MaxHold

\* An event of a former client of a Connection is still in the heap when the
\* Connection is free only if another client's ping has put it off, by an id
\* given twice, or the epoll thread slept while it was due
\* (hao_timer.cpp:293-308, hao_socket_timer.cpp:152).
TimersNotInherited == stale \subseteq moved

\* The heartbeat closes a client only when it has been silent for wait_time_,
\* less what two pings can overtake each other by, unless a ping has missed its
\* timer or is still being handled (hao_socket_timer.cpp:57-89, 114-117).
KickOnlySilent ==
    \A c \in Open \cap Picked :
        quiet[c] >= wait_time_ - MaxHold \/ c \in missed \/ Pinging(c)

\* A client with a timer of its own is not left silent for more than wait_time_
\* and what the epoll thread may be late, unless the timer has been put off or
\* slept over as above (hao_socket_timer.cpp:119-160).
ClosedInTime ==
    \A c \in Open : TimersOf(c) \subseteq moved \/ quiet[c] <= wait_time_ + 2 * MaxHold

\* No event is used after it has been freed or its entry is gone: "in fact there
\* is no problem, for only the epoll thread works on the timer"
\* (hao_timer.cpp:327-330).
NoneFreed == fault # "memory"

\* Closing a client takes its own timer out of the table: "removes the given
\* user's tcp connection from the timer table" (hao_socket.h:254).
RemovesOwn ==
    [][ \A t \in Threads : at[t] = "cancel" /\ at'[t] = "park"
            => \A e \in heap \ heap' : conn[e] = p_conn[t] ]_vars
=============================================================================
