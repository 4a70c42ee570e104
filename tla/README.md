# Verification of HaoServer

HaoServer is a TCP server in C++: a master process forks worker processes, and
in every worker one thread waits on epoll while a thread pool, a sending thread
and a recycling thread share the Connection objects with it. This directory
holds TLA+ models of that server, TLC configurations that check them on small
instances, and proofs about them for TLAPS. Source paths below are relative to
the repository (`src/`).

## 1. Inventory

### 1.1 Parts, their state and their operations

| Part | Source | State | Operations |
|---|---|---|---|
| Connection pool | `app/net/hao_socket_conn.cpp`, `app/net/hao_socket_accept.cpp` | `free_connection_pool_`, `connection_pool_`, `recycle_connection_pool_` (a map from Connection to parking time), `online_user_count_`, every Connection's `fd` and `sequence_num` | `EventAccept`, `GetConnection`, `FreeConnection`, `CloseConnection`, `InRecyConnectQueue`, `RecycleConnectionThread`, `zd_close_socket_proc` |
| Event loop | `app/net/hao_socket.cpp` | the epoll set, `Connection::events`, the batch of events being dispatched | `Epoll_init`, `Epoll_Oper_Event`, `Epoll_Process_Events` |
| Receiving | `app/net/hao_socket_request.cpp` | `cur_stat`, `precv_buf`, `recv_len`, `precv_mem_pointer` | `ReadRequestHandler`, `RecvProc`, `WaitRequestHandlerProcP1`, `WaitRequestHandlerProcPlast` |
| Flood detection | `app/net/hao_socket.cpp` | `flood_kick_last_time`, `flood_attack_count` | `TestFlood` |
| Sending | `app/net/hao_socket.cpp`, `app/net/hao_socket_request.cpp` | `send_message_queue_`, `send_count`, `throw_send_count`, `send_mem_pointer`, `send_buf`, `send_len` | `MsgSend`, `SendQueueThread`, `SendProc`, `WriteRequestHandler` |
| Heartbeat | `app/net/hao_socket_timer.cpp` | `timer_`, `timer_id_` | `AddToTimerQueue`, `UpdateTimer`, `DeleteFromTimerQueue`, `GetOverTimeTimer`, `TimerHeartBeatCheck` |
| Timer and its heap | `app/util/hao_timer.cpp` | the min heap of events with back indices, the map `ref_` from timer id to event | `min_heap_*`, `TimerAdd`, `Update`, `TimerCancel`, `Pop`, `Clear` |
| Thread pool | `_include/hao_threadpool.h`, `app/util/hao_threadpool.cpp` | `tasks_`, `tasks_total_`, `waiting_`, `running_`, `paused_`, two condition variables | `PushTask`, `WorkerThread`, `WaitForTasks`, `CreateThreads`, `DestoryThreads`, `Reset` |
| Application logic | `app/logic/hao_logic.cpp` | the messages on their way to a handler, the blocks they are in, `logic_proc_mutex` of each Connection | `HandleMessage`, `HandleRegister`, `HandleLogin`, `HandlePing` |
| Processes and signals | `app/proc/hao_server.cpp`, `app/signal/hao_signal.cpp`, `app/proc/hao_daemon.cpp` | the signal mask, `process_type`, `worker_status_changed`, the processes themselves | `MasterProcessCycle`, `StartWorkerProcess`, `WorkerProcessCycle`, `signal_handler`, `process_get_status`, `MakeDaemon` |
| Buffer | `app/util/hao_buffer.cpp` | a byte vector with a read and a write index | `Append`, `Prepend`, `HasWritten`, `UnWrite`, `Retrieve*`, `Read*`, `Peek*`, `ReadFd`, `MakeSpace`, `Shrink` |
| Log | `app/log/hao_log.cpp` | a line buffer and the space left in it | `operator<<`, the destructor that writes the line |
| Utilities | `app/util/hao_timestamp.cpp`, `app/util/hao_algorithm.cpp`, `app/net/hao_internet_address.cpp`, `app/util/hao_memory.cpp`, `app/hao_config.cpp` | none, or a counter | conversions, CRC, allocation, reading `hao.hjson` |

### 1.2 How they interact

* The **epoll thread** owns receiving, accepting and the heartbeat. It takes
  Connections from the pool, hands every complete packet to the thread pool
  under a message header `(Connection*, sequence_num)`, finishes partly sent
  messages (`WriteRequestHandler`) and closes Connections.
* The **pool threads** run `LogicSocket::HandleMessage`. They compare the
  header's sequence number with the Connection's, build the reply and call
  `MsgSend`, which appends it to the send queue, or closes a client that has too
  many replies outstanding.
* The **sending thread** (`SendQueueThread`) walks the send queue under its
  mutex and writes each message whose Connection is not already in the middle of
  one. What the socket does not take it leaves to epoll (`EPOLLOUT`).
* The **recycling thread** gives a parked Connection back to the free pool when
  `recycle_connection_wait_time_` has passed.
* All of them follow bare `Connection*`. Nothing counts those pointers. Two
  devices keep them good: the sequence number, which changes at every step of
  a Connection's life, and the delay before reuse.

### 1.3 What is hard here

Connection fields are read and written without a lock by up to four threads; a
Connection is reused, so a late event, message or timer can name the wrong
client; descriptors are reused by the kernel as soon as they are closed; sends
are split between two threads; timer ids are heap positions, which move. The
`hazards` of `PROJECT.json` list each of these at its line.

## 2. Modules and plan

### 2.1 What is here

| Module | Models | Extends / composes | Abstract specification |
|---|---|---|---|
| `ConnectionPool` | the life of Connections among the epoll thread, pool threads, sending thread and recycling thread | – | – |
| `SendQueue` | replies from `MsgSend` to the client's socket | the life of a Connection, cut down to what `ConnectionPool` guarantees | `ReplyStream` |
| `Receive` | cutting a client's bytes into packets | – | `PacketStream` |
| `FloodTest` | `TestFlood` and its fields | – | – |
| `ReceiveFlood` | both together: the verdict on a packet comes from `FloodTest` | `Receive`, `FloodTest` | – |
| `Logic` | the pool's work on a packet: dispatch, handlers, answers, memory | `ReceiveFlood` | – |
| `ThreadPool` | the pool of threads and its callers | – | `TaskService` |
| `MinHeap` | the heap of timers | – | `TimerQueue` |
| `HeartBeat` | timers of clients, and when the epoll thread wakes to close silent ones | the heap as `TimerQueue` describes it | – |
| `ProcessControl` | master, workers, SIGCHLD | – | – |
| `Buffer` | the byte vector and its two indices | – | `ByteQueue` |

Each `MC...` module instantiates one of them for TLC (symmetry sets, sets of
numbers), each `...Proofs` module holds the theorems about one of them.

The order was: first the life of a Connection, since every other part follows
bare pointers to it; then the send queue, whose counters four threads share; then
the thread pool that runs all the handlers; then what one thread does alone
(receiving, heap); then the heartbeat, which ties timers, reuse and pings
together; then the processes; then what a handler does with a packet, over the
modules of receiving; and the Buffer, which stands alone.

### 2.2 What comes next

1. **Compositions.** `ConnectionPool` with `SendQueue`, in place of the three
   places `SendQueue` has now; `HeartBeat` with `ConnectionPool`, in place of its
   own reuse; `HeartBeat` over `MinHeap`, through `TimerQueue`; `Logic`'s replies
   as the requests of `SendQueue`.
2. **Proofs.** Every safety property of a passing run has a theorem; what a
   composition adds is to be proved with it.

## 3. The modules and the code

`map` in `PROJECT.json` names the lines of each definition; this section says how
to read a model beside its source.

### 3.1 ConnectionPool

State: the two pools and the total (`free`, `recycle`, `total`), each
Connection's `seq` and `fd`, `online`; the kernel's side (`sock`: which client a
descriptor belongs to and which Connection it was registered with; `waiting`);
`msgs`, the headers in the task and send queues; and for each thread its place
and the pointers it follows.

* `EpollWait` takes a batch of events; each is a `Connection*`. The epoll thread
  accepts (`Accept`, `GetConnection`, `Register`), reads, closes.
* `zd_close_socket_proc` is three steps (`ZdCheck`, `ZdClose`, `ZdClear`) and
  `InRecyConnectQueue` a fourth, because other threads get between them.
* `Begin` is the check of `HandleMessage`: header against `sequence_num`. `Reply`
  and `Kick` are the ends of a handler. `SendQueueThread`'s check is the same
  action with the thread `Sender`.
* `RecycleScan`, `RecycleFree`, `RecycleEnd` are one pass of
  `RecycleConnectionThread`.
* Time is relative: `age[c]` since c was parked, `hold[t]` since t obtained its
  pointers; `Tick` lets both grow. A tick is refused while a thread has held
  pointers for `MaxHold`: that is the assumption behind delayed recycling
  (`GraceAssumption`: `MaxHold < RecycleWait`), and everything in this module
  stands on it. The code has no mechanism that enforces it.
* Copies of one header merge in `msgs`, and taking a message may leave a copy:
  the set stands for any number of them.

`Kickers` are the pool threads that may close a Connection, that is, reach the
kick of `MsgSend`. With `Kickers = {}` no client ever has more than 400
unanswered replies, and the epoll thread is the only one that closes.
`ZdClose` reads the field `fd` again, as the code does after its test
(`hao_socket.cpp:364-367`). `robbed` is a history variable: Connections whose
descriptor was closed by a thread that came to close another Connection, whose
`fd` a first closer had closed and not yet forgotten (`Lost`). `KickOverdue`
closes without a look at the Connection's state, as `TimerHeartBeatCheck` does:
one in use, or one parked for no longer than `MaxHold`. A timer that the
heartbeat keeps longer than that of a closed client, which takes ids given twice
or an oversleeping epoll thread (`HeartBeat`, `TimersNotInherited`), breaks the
assumption of this module; the shipped 10 and 150 seconds leave `MaxHold` room
for a whole `wait_time_`.

### 3.2 SendQueue and ReplyStream

Two counters carry the protocol. `throw` (`throw_send_count`) is raised by the
sending thread when a socket does not take a whole message, and keeps that thread
away from the Connection until `WriteRequestHandler`, driven by `EPOLLOUT`,
has written the rest. `count` (`send_count`) is raised in `MsgSend` and lowered
where a message is sent, and closes a client beyond `SLimit`.

* `MsgSend` is five steps under the Connection's `logic_proc_mutex` (`lock`): it
  reads the size of the queue without the queue's mutex, then reads `count`,
  then raises it, then appends.
* `SendQueueThread` holds the queue's mutex during its whole walk and spins as
  long as messages remain; so the model has no wait in it.
* `WriteSome`, `WriteRest`, `WriteFailed`, `Disarm`, `Settle` are
  `WriteRequestHandler`; `wire[c]` records what has been written to the client.
* System calls on the field `fd` are one step: who may own a descriptor is
  `ConnectionPool`'s subject. Reuse (`Accept` of a parked Connection) waits until
  no thread follows a pointer to it, which is `GracePeriod`.
* `Leaving` says how clients go: `"gone"`, or `"half"` when they shut down their
  sending side and read on. `unread` counts the reads it takes to empty the
  socket's receive buffer, so that one event can leave data behind. The runs have
  `"gone"` only: a half-closing client may get replies mixed up (4.2). The
  theorems are about either, but for `WritersTakeTurns` and `WholeReplies`, which
  say that they are about `"gone"`.

`ReplyStream` is what a client sees: whole replies to its own requests, each at
most once. `Replies` says that `SendQueue` implements it.

### 3.3 Receive, FloodTest, ReceiveFlood, PacketStream and Logic

A byte is its position in the client's stream, so that a packet shows which
bytes it was made of. `Complete` says whether a `recv` ends the part being received; `HeadPart`,
`HeadIllegal`, `HeadBody`, `HeadOnly`, `BodyPart`, `BodyDone` are the paths
through `ReadRequestHandler`. The length in a header is any of `Fields`.

After an illegal length the code resets to the header state without closing, so
the bytes of that packet's body are read as headers; `PacketStream` has this as
`Skip`.

In `Receive` the flood test may answer anything. `FloodTest` works it out from
the time since the last package, which is capped at the interval; `spans`, how
long before the last package each of the client's last ones came, is a history
variable for stating what should be caught. `ReceiveFlood` joins the two with
`flood_ak_enable_` set.

`Logic` adds what follows: a complete packet goes to the pool with the sequence
number of the moment (`Hands`), which every connect, close and release counts
up, a thread takes it (`Take`), and `HandleMessage` goes one of its ways: the
checksum is wrong (`Rejects`), the client has been closed since (`Expired`), or a
handler is called (`Calls`). A packet's checksum and code are any; what GetCRC computes is abstracted to a function that tells bodies apart.
Codes 1 to 4 have null pointers in `status_handler`, and calling one ends the
process (`down`). `Register` and `Login` ignore a body of another size
(`IgnoresBody`); otherwise the answer is the request's body, with `type` swapped
to the host's order and back (`Swapped`) and the last byte of each string set to
0 (`Terminated`), then its checksum. `blocks` counts what `AllocMemory` has
returned and `FreeMemory` not yet been given, a reply's block apart, which is
`MsgSend`'s.

### 3.4 ThreadPool and TaskService

One module variable per field, and `lock` for `tasks_mutex_`. Each wait on a
condition variable is a test, the release of the lock together with the wait
(`Block`) and a wake-up (a wait may also return by itself). What is not atomic
in the code is not here: `PushTask` raises `tasks_total_` after it has released
the mutex, `DestoryThreads` clears `running_` without it.

A call may block for ever in one place: `join`, when a worker has missed the
destructor's notification. `CallsReturn` says that this is the only one.

All calls are made by the epoll thread in this program, so the run has one
caller. Nothing sets `paused_`; `Reset` saves, sets and restores it. `Reset`
calls `CreateThreads()` without its argument (hao_threadpool.cpp:76): the model
keeps the number of threads. A negative `total` stands for a wrapped `size_t`.

### 3.5 MinHeap and TimerQueue

One step per level of a sift, so that the array in the middle of an operation is
a state of the model. The hole of `min_heap_shift_up_` and
`min_heap_shift_down_` is `hole`, the event on its way is `moving`, the one
being removed is `victim`. `held` and `popped` are history variables: what
should be in the heap, and what `Pop` returned. `FirstA` is the first size of
the array, 8 in the code and 2 in the run, so that the array grows during the run.
Failing allocation and indices near 2^32 are left out.

### 3.6 HeartBeat

The heap is `DOMAIN left`: `left[e]` is the time until e is due, negative when
it is overdue. Events are blocks of memory that `malloc` hands out again; `ref`
may keep an entry for a freed one. The heap itself, its sifts and indices, is
`MinHeap`.

Nothing here holds a lock against the others, so each look at `ref_` or
`timer_id_` and each change of the heap is a step:

* A ping is `Ping` (the sequence number still matches, the time is taken),
  `UpdateFind` (`timer_id_` and the entry in `ref_`) and `Update` (the event
  written), by a pool thread. Between them a timer may go off, the client be
  closed and its id given to another.
* A close is `CancelFind`, `TimerCancel` and `InRecyConnectQueue`, by the epoll
  thread or by a pool thread (`Kick`). No close resets `timer_id_`
  (`hao_socket.cpp:362`), so a second close of the same Connection, for an event
  fetched before the first one (`EventClose` of a member of `batch`), cancels
  whatever has its old id by then. A flood closes twice in the same thread, one
  call after the other: the second finds the id gone, and is left out.
* `TimerHeartBeatCheck` is `NothingDue`, or `SomethingOverdue`,
  `GetOverTimeTimer` for each event taken out, `AllTaken`, `CloseIdle` for each
  Connection closed, and `Settle`, which computes the timeout of `epoll_wait`.
* Any number of clients is there at once. Accepting one is a single step: the
  epoll thread does it alone and nobody knows the Connection before. The limit
  on clients and the growth of the pool are `ConnectionPool`'s.
* `Tick` lets time pass. A pool thread keeps a pointer no longer than `MaxHold`
  and the epoll thread is not away longer from its wait; taking the events out,
  which is a loop without system calls, takes no time (`loop # "pop"`).

`stale`, `moved` and `missed` are history variables: events whose Connection has
been free since; events put off by another client's ping, or slept over; clients
of whom a ping has not found their timer. A behaviour is followed until its
first fault (`fault`): an event is written or erased after it was freed, or a
free Connection is parked. With an empty heap `Settle` takes any timeout: the
code subtracts the present from a time in 1970 and cuts the difference to an
`int`. What two threads inside the same container make of it is not modelled.

### 3.7 ProcessControl

The master forks (`ForkWorker`, `ForkFails`), then sleeps in `sigsuspend`
(`Wake` delivers what is pending); SIGCHLD merges; the handler reaps in a loop
(`Reap`, `ReapDone`, `NoChild`). `NoChild` is where `err = EINTR` makes the
loop run for ever. A worker may fail in its initialisation, or die at any time;
it is not replaced.

### 3.8 Buffer and ByteQueue

The object is a record of its vector and the two indices; each public function
that changes it is an action, with `MakeSpace` (move the bytes to the front, or
enlarge the vector) and the read of `readv` into two places (`ReadFd`) inside.
`std::copy` upwards within the vector reads again what it has written (`Moved`).
The functions that prepend, take back or read a given number of bytes do not
check it; callers are modelled as keeping to what is there. `PeekInt64` converts
with `be32toh`: `ByteQueue` says how many bytes it takes, and leaves the number open.

## 4. What the runs show

Every run checks deadlock unless it says otherwise below, and every passing run
explores its whole state space.

| Run | Bounds | States | Shows |
|---|---|---|---|
| `pool_kick` | 1 listener, `worker_connections_` 2, pool of at most 3, 2 clients, 2 descriptors, a pool thread that may close | 1.1 million | `PoolPartition`, `OnlineCount`, `GracePeriod`, `Ownership`, `OwnDescriptor` with two closers racing |
| `pool_owner` | `worker_connections_` 1, only the epoll thread closes | 167 000 | `ReplyReachesAsker`; `Released` under fairness |
| `send_stream` | 1 Connection reused once, 2 pool threads, replies of 2 units, limits 1 and 0 | 668 000 | `Replies` (refinement), `CountCovers`, `CountBound`, `LeftToEpoll`, `OneWriter`; `LeavesQueue` under fairness |
| `threads` | 1 caller, 2 workers, 3 tasks, 2 calls besides | 41 000 | `ServesTasks` (refinement), `FrontExists`, `TotalAccounts`, `TasksRun`, `CallsReturn` |
| `receive` | header of 2 bytes, `MaxLength` 9, streams of 10 bytes, 1 pool thread, strings of 2 and 1 bytes, flood interval and count 2 | 1.0 million | `CutsPackets` (refinement), `Fits`, `BufferOwned`, `FloodCaught`, `KickNeedsRun`, `AnswersValid`, `AnswersEcho`, `BlocksOwned` |
| `buffer` | reserve 2, initial size 1, up to 3 bytes in the buffer, 2 per call | 179 000 | `IsByteQueue` (refinement), `StaysSmall` |
| `heap` | 6 events, 3 times | 90 000 | `IsQueue` (refinement), `HeapOrder`, `BackPointers`, `InArray` |
| `heartbeat` | 2 Connections, 3 event blocks, 1 pool thread, wait 3, recycling 8, `MaxHold` 2 | 3.0 million | `WakesInTime`, `TimersNotInherited`, `KickOnlySilent`, `ClosedInTime` |
| `heartbeat_removes` | 3 Connections, no pool thread | – | violation of `RemovesOwn` |
| `heartbeat_freed` | as `heartbeat` | – | violation of `NoneFreed` |
| `processes` | 3 workers, one handled and one fatal signal | 20 000 | `NoneForgotten`, `EveryWorkerReaped` |
| `processes_last` | 2 workers | – | violation of `HandlerReturns` |

Why these bounds are enough to meet the cases that matter:

* `pool_kick`: two clients and three Connections are the least with which one
  Connection can be parked while another thread closes it again, its client's
  descriptor is taken by the next client, and the pool is refused for size. The
  theorems do not depend on them.
* `pool_owner`: one client served at a time still makes the second client get
  the first one's descriptor and, later, its Connection.
* `send_stream`: sequence numbers up to 5 allow one reuse, so that messages of
  the former client meet the new one; a reply of 2 units can be cut once; the
  limits 1 and 0 are reached at once. `QLimit` and `SLimit` are 50000 and 400
  in the code.
* `threads`: three tasks for two workers leave one queued, two calls allow
  `Reset` and then a wait or the destructor.
* `heap`: six events are the least with which removing one moves the last event
  *up* (it comes from another branch).
* `heartbeat`: two Connections are the least with which one timer is overdue
  while another client is closed, an id is given twice and a second close
  cancels the timer of another; three blocks let `malloc` hand out a freed event
  while two are in the heap; recycling 8 is the least the assumption allows, so
  that an event may outlive its client while the Connection is parked. That it
  outlives the parking as well, which `TimersNotInherited` allows to an event put
  off or slept over, takes four Connections, too many for the run: here the run
  shows that no event does, and the theorem has any number.
* `receive`: packets of up to 7 bytes (a header shorter than `MaxLength` minus 2)
  are long enough for a Register with a body of 5 and a Login with one of 3; 10
  bytes hold such a packet and another after it, or an illegal header and a
  packet; the Connection is taken, freed and taken again while a packet waits.
* `buffer`: with 3 bytes in a vector that starts with room for 1, every call can
  enlarge, move or fill the vector exactly; bytes `CR` and `LF` make both kinds of
  line end. The theorems do not depend on them.

`CHECK_DEADLOCK FALSE` stands where the system may rest: in the pool and send
runs every client connects once, and asks a bounded number of times; in
`threads` the pool has been destroyed and the calls used up; in `processes` the
master may be dead.

Mutants in the modules (operators named `Mut...`) are small bugs that could have
been made in the code; each shows that a property fails when its line is wrong.

### 4.1 Fairness and why the code justifies it

* Threads that are not blocked go on (WF on their steps): they are scheduled by
  the operating system. No client is assumed to do anything, except in
  `send_stream`.
* `ConnectionPool`: the recycling thread takes and releases its mutex over and
  over while anything is parked, so a thread that wants to park a Connection is
  never blocked for good but also not always enabled: SF of
  `InRecyConnectQueue`. SF of `Tick`: time passes, although threads must
  let go of their pointers for it. Only the started work of the epoll thread is
  fair: nothing makes events come.
* `SendQueue`: the client reads, so that a socket is writable
  again and again (SF of `Writable`) and not every write falls short (SF of
  `WriteRest`). A client that is there and never reads keeps its messages in the
  queue: `LeavesQueue` is not about it, `send_count` is.
* `ThreadPool`: WF of the threads, SF of acquiring the mutex. Waits are *not*
  assumed to return by themselves. No task is lost (`TasksRun`), and
  `WaitForTasks` always returns; the notification of the destructor may be lost
  (4.2), and `CallsReturn` allows that one.
* `HeartBeat` states no fairness: `ClosedInTime` says by when a silent client is
  closed, and time does not pass a thread that is more than `MaxHold` late.
* `ProcessControl`: the master's loop, its handler and its sleep go on; nothing
  makes a worker die or a signal come.

### 4.2 Disagreements found

Three runs end in a counterexample, each against a line of the repository:

1. `heartbeat_removes`: an id is the place of the event in the heap at the time
   it was added (`hao_timer.cpp:279`), so the same id can be given
   twice, and closing one client cancels the timer of another
   (`hao_socket.h:254` promises the given user's), who is then never closed for
   silence.
2. `heartbeat_freed`: a ping handled by a pool thread has found its event in
   `ref_`, the epoll thread takes the event out or closes the client and frees it,
   and the ping writes it (`hao_socket_timer.cpp:116`). `hao_timer.cpp:330` says
   that there is no problem because only the epoll thread works on the timer.
3. `processes_last`: `if(err = EINTR)` (`hao_signal.cpp:142`) assigns; the check
   for ECHILD below it is never reached, and the handler never returns once the
   last worker is gone.

What else came up while modelling, without a run of its own:

* One client at a time is enough to lose a timer. No close resets `timer_id_`
  (`hao_socket.cpp:362`): a client closed by a pool thread and then again by the
  epoll thread, for an event fetched before, cancels the timer of the client that
  has been given its id meanwhile. The model has these closes, and `ClosedInTime`
  is therefore about clients that have a timer.
* The timeout of `epoll_wait` is computed after the closes and is negative, that is,
  no limit, when another timer has become overdue by then
  (`hao_socket_timer.cpp:152`); its client stays until some event comes, although
  `hao_socket.h:283` has it closed when the time is reached. The model sleeps too,
  and puts the clients slept over in `moved`, which `ClosedInTime` excepts.
* `throw_send_count` is not always 0 at release, as the comment at
  `hao_socket_conn.cpp:171` has it. The sending thread may raise it after
  `zd_close_socket_proc` has looked (`hao_socket.cpp:371`, `:483`), and the event
  loop lowers it after a close (`:306`). `GetOneToUse` resets it on reuse, so
  that the new client starts with 0.
* `TestFlood` counts packages closer than the interval to the previous one
  (`hao_socket.cpp:381`), so a steady pace just below the interval closes a client,
  where `hao.hjson:39` speaks of more than 10 packages within the interval.
  `KickNeedsRun` states what the code does.
* `send_count` may overstate the queue: a message whose client has gone is erased
  without lowering it (`hao_socket.cpp:436`), and reuse does not reset it. It
  never understates it (`CountCovers`).
* When a client half-closes while the rest of a message waits for `EPOLLOUT`, the
  event loop lowers `throw_send_count` (`hao_socket.cpp:306`) although the
  Connection stays, and the sending thread may start another message in the middle
  of this one: `OneWriter` and `Replies` do not hold then, and `send_stream` leaves
  half-closing out, as do the theorems about these two. That the rest is not
  forgotten (`LeftToEpoll`) is proved for such clients too.
* `MsgSend`'s close by a pool thread: `close(fd)` and `fd = -1` are two steps, and
  a second closer that comes between them finds the same `fd`; it may close a
  descriptor that the kernel has given to another client meanwhile.
  `OwnDescriptor` says that a Connection loses its descriptor in no other way;
  `ReplyReachesAsker` holds only without `Kickers`, and `pool_owner` has none.
* `tasks_total_` may be 0 or wrap while a task runs, since `PushTask` counts after
  releasing the mutex (`hao_threadpool.h:100`); `RunningCount` may then be wrong,
  and with more than one caller `WaitForTasks` may return early.
* `DestoryThreads` clears `running_` without the mutex (`hao_threadpool.cpp:93`): a
  worker between its test and its wait misses the notification, and `join` blocks.
* The longest packet accepted is a header shorter than `PKG_MAX_LENGTH`
  (`hao_socket_request.cpp:165`).
* `TimeOutKick` has no effect (`hao_socket_timer.cpp:73`).
* A message code beyond the table of handlers is logged and used as an index all
  the same, and 1 to 4 are null pointers there that are called
  (`hao_logic.cpp:93`).
* The handler of a signal writes a log line (`hao_signal.cpp:107`), and
  `localtime_r` takes a lock: a thread interrupted in its own line may wait for itself.
* `Buffer::PeekInt64` converts 8 bytes with `be32toh`, so a 64-bit number does not
  come back as it was appended; `Buffer` is unused.

## 5. What is proved

All theorems hold for every value of the constants that satisfies the module's
assumptions.

| Module | Theorems | Rest on |
|---|---|---|
| `ConnectionPoolProofs` | `Invariance`, `TypeCorrect`, `Partition`, `OnlineUsers`, `PoolSize`, `Grace`, `Owners`, `OwnDescriptors`, `RepliesReachAsker` | `IInv`, `OwnerInv` |
| `SendQueueProofs` | `SendInvariance`, `CountBounded`, `QueueBounded`, `CountAlwaysCovers`, `RestIsLeftToEpoll`, `WritersTakeTurns`, `WholeReplies` | `SInv`, `Room`, `AtCursor`, `LeftInv`, `WriteInv`, `WireInv` |
| `HeartBeatProofs` | `WaitsEnd`, `TimersPassedOn`, `OnlySilentKicked`, `SilentClosedInTime` | `IInv` |
| `LogicProofs` | `ReceiveFits`, `BufferHasOneOwner`, `ReceiveCutsPackets`, `LogicReceives`, `AnswersAreValid`, `AnswersAreEchoes`, `BlocksAreOwned`, `KicksAreEarned`, `FloodsAreCaught` | `RInv`, `AnswersInv`, `EchoInv`, `BlocksInv`, `FloodInv` |
| `BufferProofs` | `BufferInBounds`, `BufferStaysSmall`, `BufferIsByteQueue` | `BInv` |
| `ThreadPoolProofs` | `PoolTypes`, `FrontAlways`, `TotalAlways`, `PoolServes` | `PInv` |
| `MinHeapProofs` | `HeapTypes`, `HeapOrdered`, `HeapPointers`, `HeapInArray`, `HeapIsQueue` | `HInv` |
| `ProcessControlProofs` | `ProcessTypes`, `NoWorkerForgotten` | themselves, with `TypeOK` |

* **ConnectionPool.** `GracePeriod` is not inductive: that a Connection given
  back is followed by no thread needs that every pointer is to a Connection in
  use or to one parked *after* the thread obtained the pointer (`Pointers`), so
  that the pointer is younger than the parking and `MaxHold < RecycleWait`
  applies. That a new pointer is to a Connection in use needs that a sequence number that
  still matches belongs to one (`Messages`), and, for epoll's pointers, that only
  Connections in use are registered (`Registered`). `Due` keeps what the
  recycling thread found while it works on it; `Places` what the epoll thread
  knows between the steps of `EventAccept`. Assumptions: `SizesAssumption`,
  `GraceAssumption`, `NamesAssumption`. No fairness, any set of `Kickers`, but
  for `RepliesReachAsker`.

  `OwnDescriptors` holds for any closers. The kernel takes a descriptor back only
  in `ZdClose`. Its thread goes on to forget the `fd` of its own Connection, and if
  the descriptor has become another Connection's meanwhile, this closer found an
  `fd` that was closed already, and the other is in `robbed`. The socket being
  accepted is nobody's until it is given to a Connection (`DescriptorInv`).
  `RepliesReachAsker` assumes that no pool thread closes: then a descriptor stays
  with its Connection from the accept to the close (`OwnSocketOnly`), and a header
  that still matches was sent by the client the Connection has (`Askers`).
* **SendQueue.** `CountBound` holds because nobody else raises the count between
  a caller's test and its increment (`Counting`), which needs that a thread in
  that part of `MsgSend` holds the Connection's mutex (`Locked`). `QueueBound`
  holds because the threads between the test of the queue's length and the
  append, with the queue, never exceed the limit by more than their number
  (`Room`). `CountCovers` compares a counter with the number of messages in the
  queue, in the sending thread's hands and about to be appended: each step that
  takes one away is shown to take exactly one (`AtCursor`: the message being sent
  is the one at the cursor). `LeftToEpoll` needs that `throw` is at most 1, and at
  most 0 while the sending thread has the Connection to itself (`LeftInv`); it
  says nothing about a lower bound, which half-closing clients break.

  Without such clients the counter is a token: for a client that is there it is 0
  or 1, it is 1 from the raise to the settling, `EPOLLOUT` is registered from the
  arming to the disarming, and only one of the two threads is between the two of
  either (`Turn`). That an event for `EPOLLOUT` still finds the token taken,
  although it may have waited behind a close, is `InTurn`; `OneWriter` follows.
  `Replies` needs besides that a request is in one place at a time, the task
  queue, a thread or the send queue (`MessageInv`), that a number that still
  matches belongs to the present client (`Known`), that no thread works on a free
  Connection (`LifeInv`), and what is written so far: while a reply is in
  progress, what is left of it fills the output up to a multiple of `Size`, its
  units are the last ones written, and it is in nobody's hands; otherwise the
  output is a multiple of `Size` (`Wire`). A step that writes maps to one or no
  `Write`, reading a packet to `Ask`, all others stutter.
* **HeartBeat.** For any number of clients, pool threads and blocks, ids given
  twice, second closes and late pings included; the times only keep
  `MaxHold < wait_time_` and `wait_time_ + 2 * MaxHold` below the recycling delay
  (`TimesAssumption`; 10 and 150 seconds in `hao.hjson`). An event that is not
  stale and its client's silence add up to `wait_time_`: not to less, but for
  what two pings can overtake each other by and for clients of whom a ping has
  missed (`NotEarly`), and, if the event has not been put off by another's ping,
  not to more (`NotPutOff`). The epoll thread sleeps no longer than the earliest
  event has left, but for the time it was away (`NotLate`); `moved` takes up what
  it slept over. From the first follows that whom it closes was silent
  (`PickedAre`), from the other two that a silent client's own event goes off in
  time, and that an event which outlives its client goes off before
  the Connection is free again.
  A Connection has one event that is not stale (`Inherited`): a new client finds
  its Connection free, and what is in the heap for a free one is stale.
* **Logic.** It implements `Receive` (`LogicReceives`), so what is proved of
  `Receive` holds for it. `BlocksAreOwned` counts: no step changes who holds
  a block without the number (`BlocksInv`).

  `AnswersAreEchoes`: each message waiting or in a thread's hands, and each
  answer, is made of bytes in order, cut from the stream before the place `Edge`
  that the receiving has reached (`EchoInv`, `Sound`, `Behind`); no two messages
  begin at the same byte, and none in hand has its answer already (`OneEach`). A
  new packet begins at `Edge`; `Take` and
  `Done` move or drop a message; `Replies` turns one into an answer.
  That two answers differ needs a body with a byte that is not overwritten:
  `NameLen + PassLen > 2` in `LogicAssumption` (the code has 56 and 40).

  The flood test: the packages counted are the last ones and each came within the
  interval, and the one before them, if it is among those remembered, as well as
  all before it, is as long ago as the interval (`FloodInv`). The first half gives
  `KicksAreEarned`, the second `FloodsAreCaught`: a sum of times that is below the
  interval leaves no room for the package that ended the count.
* **Buffer.** The indices and the room promised stay inside the vector (`BInv`).
  That moving the bytes keeps them, also where `std::copy` overwrites what it has
  still to read, holds because `MakeSpace` moves them down only: it moves when the
  room behind is too little and that in front is more than the reserve.
  The refinement maps the queue to what lies between the indices.
* **ThreadPool.** What a wait found under the mutex stays true until the task is
  taken (`Ready`), since nobody else holds it (`Mutex`); after the join no worker
  runs (`Joined`); every task is in one place (`Once`). `PoolServes`, the refinement
  to `TaskService`, is for one caller, as in the program: with two, a task of
  the first may be queued and taken before it is counted, the total reads 0, and
  `WaitForTasks` of the second returns while tasks are there.
* **Receive.** Inductive over one `recv`: what is left and the place in the
  buffer add up to the length in a legal header (`Progress`), and what is stored
  are the client's last bytes (`Contents`). The refinement maps `next` to the
  position where the packet in progress began.
* **MinHeap.** The heap with a hole: order holds around the hole and across it
  (`Ordered`, `Across`), and the event that moves fits the side it has left
  (`Rising`, `Sinking`). That the top of a heap is due first is proved by taking
  a least index among the events due first (`TopIsLeast`). The refinement to
  `TimerQueue` maps an operation to its first step, and the sifts to stutters.
* **ProcessControl.** A worker's exit makes SIGCHLD pending in the same step,
  and the handler leaves only when there is no zombie.

Not proved, and why:

* `Released`, `LeavesQueue`, `TasksRun`, `CallsReturn` and `EveryWorkerReaped` are
  liveness under fairness, out of the prover's reach.

## 6. What is not modelled

* Failing allocation, failing system calls at start-up, and the start-up itself:
  one thread runs, and the models begin with the state it leaves.
* Undefined results of unlocked access to containers (the timer heap or `ref_`
  changed by two threads at once): the models take each access as one step.
* `ClearConnection`, `Shutdown` and `Timer::Clear`, which nothing calls.
* A worker whose event loop ends on an error of `epoll_wait`.
* Log, configuration, timestamps, addresses and the table of the CRC: conversions
  and formatting without state the parts above share. A CRC collision, which would
  let a damaged packet pass, is within "the checksum of a packet is any".
* A message code beyond the table of handlers: what an index beyond an array
  yields is not defined.
* The lock of the C library that a log line in a signal handler takes.
* Half-closing clients in the run of `SendQueue` and in two of its theorems (3.2);
  the actions and the other theorems have them.
