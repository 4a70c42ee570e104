-------------------------- MODULE ThreadPoolProofs --------------------------
(***************************************************************************)
(* Theorems about ThreadPool, for any number of threads, callers and       *)
(* tasks: a worker never takes a task from an empty queue, tasks_total_    *)
(* accounts for every task, and with one caller the pool is a TaskService. *)
(***************************************************************************)
EXTENDS ThreadPool, SequenceTheorems, FiniteSetTheorems, TLAPS

-----------------------------------------------------------------------------
(* The inductive invariant.                                                *)

Ending == {"stop", "wake", "join", "restore", "create", "gone"}
Stops  == {"reset", "destroy"}

\* Workers and callers are at places of their own.
OwnPlaces ==
  /\ \A w \in Workers : pc[w] \in WorkerPlaces
  /\ \A c \in Callers : pc[c] \in CallerPlaces

\* Who is inside a wait, or about to take a task, holds tasks_mutex_.
Mutex ==
  /\ \A w \in Workers : pc[w] \in {"test", "block", "act"} => lock = w
  /\ \A c \in Callers : pc[c] = "test" => lock = c

\* What the condition of the wait found stays true under the mutex.
Ready == \A w \in Workers : pc[w] = "act" => queue # <<>> \/ ~running

\* One caller at a time resets or destroys the pool, and knows that it does.
OneEnds ==
  /\ \A c, d \in Callers : op[c] \in Stops /\ op[d] \in Stops => c = d
  /\ \A c \in Callers : pc[c] \in Ending => op[c] \in Stops
  /\ \A c \in Callers :
       pc[c] \in {"waiting", "lock", "test", "sleep", "told"} => op[c] # "none"

\* After join no worker runs until there are new ones.
Joined ==
  \A c \in Callers : pc[c] \in {"restore", "create", "gone"} =>
    \A w \in Workers : pc[w] = "none"

\* The pool is paused only inside Reset.
Pausing ==
  /\ wasPaused = FALSE
  /\ paused => \E c \in Callers : op[c] = "reset" /\ pc[c] # "create"

\* Every task is in one place.
Once ==
  /\ \A w \in Workers : task[w] # NoTask <=> pc[w] = "run"
  /\ \A i, j \in DOMAIN queue : queue[i] = queue[j] => i = j
  /\ \A w, v \in Workers : pc[w] = "run" /\ task[w] = task[v] => w = v
  /\ \A w \in Workers, i \in DOMAIN queue : task[w] # queue[i]

PInv == TypeOK /\ OwnPlaces /\ Mutex /\ Ready /\ OneEnds /\ Joined /\ Pausing /\ Once

-----------------------------------------------------------------------------
LEMMA Names ==
  /\ Threads = Callers \cup Workers
  /\ \A w \in Workers : w \in Threads /\ w \notin Callers /\ w # Nobody
  /\ \A c \in Callers : c \in Threads /\ c \notin Workers /\ c # Nobody
  /\ NoTask \notin Tasks
  /\ Calls \subseteq {"push", "wait", "destroy", "reset"} /\ MaxCalls \in Nat
  /\ IsFiniteSet(Callers) /\ IsFiniteSet(Workers)
BY PoolAssumption DEF Threads

-----------------------------------------------------------------------------
(* The steps.                                                              *)

\* A worker takes the first task and leaves the others in their order.
LEMMA ActStep ==
  ASSUME PInv, NEW w \in Workers, Act(w)
  PROVE  PInv'
<1> USE Names DEF PInv
<1>1. TypeOK' /\ OwnPlaces' /\ Mutex' /\ Ready' /\ OneEnds' /\ Joined' /\ Pausing'
  <2>1. TypeOK'
    <3>1. pc' \in [Threads -> WorkerPlaces \cup CallerPlaces] /\ lock' \in Threads \cup {Nobody}
      BY DEF Act, Move, Release, TypeOK, WorkerPlaces
    <3>2. queue' \in Seq(Tasks) /\ task' \in [Workers -> Tasks \cup {NoTask}]
      <4>1. queue # <<>> => Head(queue) \in Tasks /\ Tail(queue) \in Seq(Tasks)
        BY HeadTailProperties DEF TypeOK
      <4> QED BY <4>1 DEF Act, TypeOK
    <3> QED BY <3>1, <3>2 DEF Act, flags, callVars, TypeOK
  <2>3. OwnPlaces'
    BY DEF Act, Move, TypeOK, OwnPlaces, WorkerPlaces
  <2>2. Mutex' /\ Ready' /\ OneEnds' /\ Joined' /\ Pausing'
    BY DEF Act, Move, Release, flags, callVars, TypeOK, OwnPlaces, Mutex, Ready, OneEnds,
           Joined, Pausing, Ending, Stops, WorkerPlaces, CallerPlaces
  <2> QED BY <2>1, <2>2, <2>3
<1>2. Once'
  <2>1. CASE running /\ ~paused
    <3>1. /\ queue # <<>> /\ queue \in Seq(Tasks) /\ task \in [Workers -> Tasks \cup {NoTask}]
          /\ pc \in [Threads -> WorkerPlaces \cup CallerPlaces]
          /\ pc[w] = "act" /\ pc' = [pc EXCEPT ![w] = "run"]
          /\ task' = [task EXCEPT ![w] = Head(queue)] /\ queue' = Tail(queue)
      BY <2>1 DEF Act, Move, Ready, TypeOK
    <3>2. /\ Head(queue) \in Tasks /\ Len(Tail(queue)) = Len(queue) - 1
          /\ \A i \in 1 .. Len(Tail(queue)) : Tail(queue)[i] = queue[i + 1]
          /\ Tail(queue) \in Seq(Tasks)
          /\ Head(queue) = queue[1]
      BY <3>1, HeadTailProperties
    <3>3. /\ DOMAIN queue = 1 .. Len(queue) /\ Len(queue) \in Nat /\ Len(queue) # 0
          /\ DOMAIN Tail(queue) = 1 .. Len(Tail(queue))
      BY <3>1, <3>2, EmptySeq, LenProperties
    <3>4. ASSUME NEW i \in DOMAIN Tail(queue)
          PROVE  /\ i + 1 \in DOMAIN queue /\ i + 1 # 1 /\ 1 \in DOMAIN queue
                 /\ Tail(queue)[i] = queue[i + 1]
      BY <3>2, <3>3
    <3>5. \A v \in Workers : task'[v] # NoTask <=> pc'[v] = "run"
      BY <3>1, <3>2 DEF Once
    <3>6. \A i, j \in DOMAIN queue' : queue'[i] = queue'[j] => i = j
      <4>1. ASSUME NEW i \in DOMAIN Tail(queue), NEW j \in DOMAIN Tail(queue),
                   Tail(queue)[i] = Tail(queue)[j]
            PROVE  i = j
        <5>1. i + 1 = j + 1
          BY <3>4, <4>1 DEF Once
        <5> QED BY <3>3, <5>1
      <4> QED BY <3>1, <4>1
    <3>7. \A u, v \in Workers : pc'[u] = "run" /\ task'[u] = task'[v] => u = v
      <4>1. \A v \in Workers : task[v] # Head(queue)
        BY <3>2, <3>3 DEF Once
      <4> QED BY <3>1, <3>2, <4>1 DEF Once
    <3>8. \A v \in Workers, i \in DOMAIN queue' : task'[v] # queue'[i]
      <4>1. ASSUME NEW v \in Workers, NEW i \in DOMAIN Tail(queue)
            PROVE  task'[v] # Tail(queue)[i]
        <5>1. CASE v = w
          <6>1. queue[i + 1] # queue[1]
            BY <3>4 DEF Once
          <6> QED BY <3>1, <3>2, <3>4, <5>1, <6>1
        <5>2. CASE v # w
          BY <3>1, <3>4, <5>2 DEF Once
        <5> QED BY <5>1, <5>2
      <4> QED BY <3>1, <4>1
    <3> QED BY <3>5, <3>6, <3>7, <3>8 DEF Once
  <2>2. CASE ~(running /\ ~paused)
    BY <2>2 DEF Act, Move, TypeOK, Once
  <2> QED BY <2>1, <2>2
<1> QED BY <1>1, <1>2

LEMMA WorkerSteps ==
  ASSUME PInv, NEW w \in Workers, WorkerStep(w) \/ WakeUp(w)
  PROVE  PInv'
<1> USE Names DEF PInv, Move, Acquire, Release, NotifyDone, data, flags, callVars, TypeOK, OwnPlaces, Mutex, Ready,
      OneEnds, Joined, Pausing, Once, Ending, Stops, WorkerPlaces, CallerPlaces
<1>1. CASE Top(w)
  BY <1>1 DEF Top
<1>2. CASE Enter(w)
  BY <1>2 DEF Enter
<1>3. CASE Test(w)
  BY <1>3 DEF Test
<1>4. CASE Block(w)
  BY <1>4 DEF Block
<1>5. CASE WakeUp(w)
  BY <1>5 DEF WakeUp
<1>6. CASE Run(w)
  BY <1>6 DEF Run
<1>7. CASE Finish(w)
  BY <1>7 DEF Finish
<1> QED BY <1>1, <1>2, <1>3, <1>4, <1>5, <1>6, <1>7, ActStep DEF WorkerStep

\* A step that moves one caller between places where it holds nothing, and
\* changes no more than the flags.
LEMMA Flags ==
  ASSUME PInv, NEW c \in Callers, Wait(c) \/ Stop(c)
  PROVE  TypeOK'
<1>1. pc' \in [Threads -> WorkerPlaces \cup CallerPlaces] /\ lock' \in Threads \cup {Nobody}
  BY Names DEF Wait, Stop, Move, Release, PInv, TypeOK, CallerPlaces
<1>2. waiting' \in BOOLEAN /\ running' \in BOOLEAN /\ paused' \in BOOLEAN
  BY Zenon DEF Wait, Stop, PInv, TypeOK
<1>3. UNCHANGED <<queue, total, task, op, wasPaused, finished, calls>>
  BY DEF Wait, Stop, data, callVars
<1> QED BY <1>1, <1>2, <1>3 DEF PInv, TypeOK

LEMMA CallerSteps ==
  ASSUME PInv, NEW c \in Callers,
         \/ \E t \in Tasks : Push(c, t)
         \/ \E o \in Calls : Call(c, o)
         \/ PushStep(c) \/ CallStep(c) \/ WakeUpCaller(c)
  PROVE  PInv'
<1> USE Names DEF PInv, Move, Acquire, Release, NotifyDone, data, flags, callVars, TypeOK, OwnPlaces, Mutex, Ready,
      OneEnds, Joined, Pausing, Once, Ending, Stops, WorkerPlaces, CallerPlaces
<1>1. CASE Count(c)
  BY <1>1 DEF Count
<1>2. CASE Notify(c)
  BY <1>2 DEF Notify
<1>3. CASE SetWaiting(c)
  BY <1>3 DEF SetWaiting
<1>4. CASE LockTasks(c)
  BY <1>4 DEF LockTasks
<1>5. CASE WakeUpCaller(c)
  BY <1>5 DEF WakeUpCaller
<1>6. CASE Told(c)
  BY <1>6 DEF Told
<1>7. CASE WakeAll(c)
  BY <1>7 DEF WakeAll
<1>8. CASE Join(c)
  BY <1>8 DEF Join
<1>9. CASE Restore(c)
  BY <1>9 DEF Restore
<1>10. CASE CreateThreads(c)
  BY <1>10 DEF CreateThreads
<1>11. CASE Wait(c)
  <2>1. OwnPlaces' /\ Mutex' /\ Ready' /\ OneEnds' /\ Joined' /\ Pausing' /\ Once'
    BY <1>11 DEF Wait
  <2> QED BY <1>11, <2>1, Flags
<1>12. CASE Stop(c)
  <2>1. OwnPlaces' /\ Mutex' /\ Ready' /\ OneEnds' /\ Joined' /\ Pausing' /\ Once'
    BY <1>12 DEF Stop
  <2> QED BY <1>12, <2>1, Flags
<1>13. ASSUME NEW t \in Tasks, Push(c, t)
      PROVE  PInv'
  BY <1>13 DEF Push, Pushed
<1>14. ASSUME NEW o \in Calls, Call(c, o)
      PROVE  PInv'
  <2>1. OwnPlaces' /\ Mutex' /\ Ready' /\ OneEnds' /\ Joined' /\ Pausing' /\ Once'
    BY <1>14 DEF Call
  <2>2. pc' \in [Threads -> WorkerPlaces \cup CallerPlaces] /\ calls' \in 0 .. MaxCalls
        /\ op' \in [Callers -> {"none", "wait", "destroy", "reset"}]
    BY <1>14 DEF Call
  <2>3. paused' \in BOOLEAN /\ wasPaused' \in BOOLEAN
    BY <1>14, Zenon DEF Call
  <2>4. UNCHANGED <<data, waiting, running, lock, task, finished>>
    BY <1>14 DEF Call
  <2> QED BY <2>1, <2>2, <2>3, <2>4
<1> QED BY <1>1, <1>2, <1>3, <1>4, <1>5, <1>6, <1>7, <1>8, <1>9, <1>10, <1>11, <1>12, <1>13, <1>14 DEF PushStep, CallStep

LEMMA PStep ==
  ASSUME PInv, [Next]_vars
  PROVE  PInv'
<1>1. CASE UNCHANGED vars
  BY <1>1 DEF vars, data, flags, callVars, PInv, TypeOK, OwnPlaces, Mutex, Ready, OneEnds,
     Joined, Pausing, Once
<1> QED BY <1>1, WorkerSteps, CallerSteps DEF Next

LEMMA PInit ==
  ASSUME Init
  PROVE  PInv
<1> USE Names DEF Init
<1>1. waiting \in BOOLEAN /\ running \in BOOLEAN /\ paused \in BOOLEAN /\ wasPaused \in BOOLEAN
  OBVIOUS
<1>2. TypeOK
  BY <1>1 DEF TypeOK, WorkerPlaces, CallerPlaces
<1>3. OwnPlaces /\ Mutex /\ Ready /\ OneEnds /\ Joined
  BY DEF OwnPlaces, Mutex, Ready, OneEnds, Joined, WorkerPlaces, CallerPlaces, Ending, Stops
<1>4. Pausing /\ Once
  BY DEF Pausing, Once
<1> QED BY <1>2, <1>3, <1>4 DEF PInv

\* Every variable has its type, whatever the calls and however they interleave.
THEOREM PoolTypes == Spec => []TypeOK
<1>1. PInv => TypeOK
  BY DEF PInv
<1> QED BY <1>1, PInit, PStep, PTL DEF Spec

\* front() is never called on an empty queue, although another worker, a Reset
\* or a destruction may come between a wake-up and the next step
\* (hao_threadpool.cpp:107-113).
THEOREM FrontAlways == Spec => []FrontExists
<1>1. PInv => FrontExists
  BY DEF PInv, Ready, FrontExists
<1> QED BY <1>1, PInit, PStep, PTL DEF Spec

-----------------------------------------------------------------------------
(* tasks_total_                                                            *)

LEMMA Finite ==
  /\ IsFiniteSet(Busy) /\ Cardinality(Busy) \in Nat
  /\ IsFiniteSet(Uncounted) /\ Cardinality(Uncounted) \in Nat
<1>1. Busy \subseteq Workers /\ Uncounted \subseteq Callers
  BY DEF Busy, Uncounted
<1> QED BY <1>1, Names, FS_Subset, FS_CardinalityType

LEMMA TotalSame ==
  ASSUME TotalAccounts, UNCHANGED <<queue, total>>, Busy' = Busy, Uncounted' = Uncounted
  PROVE  TotalAccounts'
BY DEF TotalAccounts

LEMMA TotalWorker ==
  ASSUME PInv, TotalAccounts, NEW w \in Workers, WorkerStep(w) \/ WakeUp(w)
  PROVE  TotalAccounts'
<1> USE Names DEF PInv, TypeOK, OwnPlaces, WorkerPlaces, CallerPlaces
<1>1. CASE Act(w) /\ running /\ ~paused
  <2>1. queue # <<>> /\ queue' = Tail(queue) /\ queue \in Seq(Tasks) /\ UNCHANGED total
        /\ w \notin Busy /\ Busy' = Busy \cup {w} /\ Uncounted' = Uncounted
    BY <1>1 DEF Act, Move, Ready, Busy, Uncounted
  <2>2. Len(queue') = Len(queue) - 1 /\ Len(queue) \in Nat
    BY <2>1, HeadTailProperties, LenProperties
  <2>3. Cardinality(Busy') = Cardinality(Busy) + 1
    BY <2>1, Finite, FS_AddElement
  <2> QED BY <2>1, <2>2, <2>3, Finite DEF TotalAccounts
<1>2. CASE Finish(w)
  <2>1. w \in Busy /\ Busy' = Busy \ {w} /\ Uncounted' = Uncounted
        /\ total' = total - 1 /\ UNCHANGED queue
    BY <1>2 DEF Finish, NotifyDone, Busy, Uncounted
  <2>2. Cardinality(Busy') = Cardinality(Busy) - 1
    BY <2>1, Finite, FS_RemoveElement
  <2>3. Len(queue) \in Nat /\ total \in Int
    BY LenProperties
  <2> QED BY <2>1, <2>2, <2>3, Finite DEF TotalAccounts
<1>3. CASE \/ Top(w) \/ Enter(w) \/ Test(w) \/ Block(w) \/ WakeUp(w) \/ Run(w)
           \/ Act(w) /\ ~(running /\ ~paused)
  <2>1. UNCHANGED <<queue, total>> /\ Busy' = Busy /\ Uncounted' = Uncounted
    BY <1>3 DEF Top, Enter, Test, Block, WakeUp, Run, Act, Move, data, Busy, Uncounted
  <2> QED BY <2>1, TotalSame
<1> QED BY <1>1, <1>2, <1>3 DEF WorkerStep

LEMMA TotalCaller ==
  ASSUME PInv, TotalAccounts, NEW c \in Callers,
         \/ \E t \in Tasks : Push(c, t)
         \/ \E o \in Calls : Call(c, o)
         \/ PushStep(c) \/ CallStep(c) \/ WakeUpCaller(c)
  PROVE  TotalAccounts'
<1> USE Names DEF PInv, TypeOK, OwnPlaces, WorkerPlaces, CallerPlaces
<1>0. Len(queue) \in Nat /\ total \in Int
  BY LenProperties
<1>1. ASSUME NEW t \in Tasks, Push(c, t)
      PROVE  TotalAccounts'
  <2>1. c \notin Uncounted /\ Uncounted' = Uncounted \cup {c} /\ Busy' = Busy
        /\ queue' = Append(queue, t) /\ UNCHANGED total
    BY <1>1 DEF Push, Move, Busy, Uncounted
  <2>2. Cardinality(Uncounted') = Cardinality(Uncounted) + 1
    BY <2>1, Finite, FS_AddElement
  <2>3. Len(queue') = Len(queue) + 1
    BY <2>1, AppendProperties
  <2> QED BY <1>0, <2>1, <2>2, <2>3, Finite DEF TotalAccounts
<1>2. CASE Count(c)
  <2>1. c \in Uncounted /\ Uncounted' = Uncounted \ {c} /\ Busy' = Busy
        /\ total' = total + 1 /\ UNCHANGED queue
    BY <1>2 DEF Count, Move, Busy, Uncounted
  <2>2. Cardinality(Uncounted') = Cardinality(Uncounted) - 1
    BY <2>1, Finite, FS_RemoveElement
  <2> QED BY <1>0, <2>1, <2>2, Finite DEF TotalAccounts
<1>3. CASE WakeAll(c) \/ CreateThreads(c) \/ Notify(c)
  <2>1. UNCHANGED <<queue, total>> /\ Busy' = Busy /\ Uncounted' = Uncounted
    BY <1>3 DEF WakeAll, CreateThreads, Notify, Joined, data, Busy, Uncounted
  <2> QED BY <2>1, TotalSame
<1>4. CASE \/ \E o \in Calls : Call(c, o)
           \/ SetWaiting(c) \/ LockTasks(c) \/ Wait(c) \/ WakeUpCaller(c) \/ Told(c)
           \/ Stop(c) \/ Join(c) \/ Restore(c)
  <2>1. UNCHANGED <<queue, total>> /\ Busy' = Busy /\ Uncounted' = Uncounted
    BY <1>4, ZenonT(40) DEF Call, SetWaiting, LockTasks, Wait, WakeUpCaller, Told, Stop, Join, Restore,
                Move, data, Busy, Uncounted
  <2> QED BY <2>1, TotalSame
<1> QED BY <1>1, <1>2, <1>3, <1>4 DEF PushStep, CallStep

LEMMA TotalStep ==
  ASSUME PInv, TotalAccounts, [Next]_vars
  PROVE  TotalAccounts'
<1>1. CASE UNCHANGED vars
  BY <1>1 DEF vars, data, TotalAccounts, Busy, Uncounted
<1> QED BY <1>1, TotalWorker, TotalCaller DEF Next

LEMMA TotalInit ==
  ASSUME Init
  PROVE  TotalAccounts
<1>1. Busy = {} /\ Uncounted = {} /\ queue = <<>> /\ total = 0
  BY Names DEF Init, Busy, Uncounted
<1> QED BY <1>1, FS_EmptySet DEF TotalAccounts

\* tasks_total_, raised outside the mutex, is the number of tasks queued or
\* with a thread less those not yet counted (hao_threadpool.h:93-101).
THEOREM TotalAlways == Spec => []TotalAccounts
BY PInit, PStep, TotalInit, TotalStep, PTL DEF Spec

-----------------------------------------------------------------------------
(* The refinement: with one caller the pool is a TaskService.              *)

RunBy(w) == pc[w] = "run"
IsTold(c) == pc[c] = "told" /\ op[c] = "wait"

\* A step of which TaskService sees nothing.
LEMMA Unseen ==
  ASSUME UNCHANGED <<queue, task, finished>>,
         \A w \in Workers : RunBy(w)' <=> RunBy(w),
         \A c \in Callers : IsTold(c)' <=> IsTold(c)
  PROVE  UNCHANGED Service!vars
<1>1. {v \in Workers : pc'[v] = "run"} = {v \in Workers : pc[v] = "run"}
  BY DEF RunBy
<1>2. {c \in Callers : pc'[c] = "told" /\ op'[c] = "wait"}
        = {c \in Callers : pc[c] = "told" /\ op[c] = "wait"}
  BY DEF IsTold
<1> QED BY <1>1, <1>2 DEF Service!vars

LEMMA ServiceWorker ==
  ASSUME PInv, NEW w \in Workers, WorkerStep(w) \/ WakeUp(w)
  PROVE  [Service!Next]_(Service!vars)
<1> USE Names DEF PInv, TypeOK, OwnPlaces, WorkerPlaces, CallerPlaces
<1> DEFINE Run0 == {task[v] : v \in {u \in Workers : pc[u] = "run"}}
           Told0 == {c \in Callers : pc[c] = "told" /\ op[c] = "wait"}
<1>1. CASE Act(w) /\ running /\ ~paused
  <2>1. /\ queue # <<>> /\ queue' = Tail(queue) /\ UNCHANGED <<op, finished>>
        /\ task' = [task EXCEPT ![w] = Head(queue)]
        /\ pc[w] = "act" /\ pc' = [pc EXCEPT ![w] = "run"]
    BY <1>1 DEF Act, Move, Ready, callVars
  <2>2. Run0' = Run0 \cup {Head(queue)}
    <3>1. \A v \in Workers : v # w => pc'[v] = pc[v] /\ task'[v] = task[v]
      BY <2>1
    <3>2. pc'[w] = "run" /\ task'[w] = Head(queue) /\ pc[w] # "run"
      BY <2>1
    <3> QED BY <3>1, <3>2
  <2>3. Told0' = Told0
    BY <2>1
  <2> QED BY <2>1, <2>2, <2>3 DEF Service!Next, Service!Start
<1>2. CASE Run(w)
  <2>1. /\ finished' = finished \cup {task[w]} /\ UNCHANGED <<queue, op>>
        /\ pc[w] = "run" /\ pc' = [pc EXCEPT ![w] = "finish"]
        /\ task' = [task EXCEPT ![w] = NoTask]
    BY <1>2 DEF Run, Move, data, callVars
  <2>2. task[w] \in Run0 /\ task[w] \in Tasks
    BY <2>1 DEF Once
  <2>3. Run0' = Run0 \ {task[w]}
    <3>1. \A v \in Workers : v # w => pc'[v] = pc[v] /\ task'[v] = task[v]
      BY <2>1
    <3>2. pc'[w] # "run"
      BY <2>1
    <3>3. \A v \in Workers : v # w => task[v] # task[w]
      BY <2>1 DEF Once
    <3> QED BY <3>1, <3>2, <3>3
  <2>4. Told0' = Told0
    BY <2>1
  <2> QED BY <2>1, <2>2, <2>3, <2>4 DEF Service!Next, Service!End
<1>3. CASE \/ Top(w) \/ Enter(w) \/ Test(w) \/ Block(w) \/ WakeUp(w) \/ Finish(w)
           \/ Act(w) /\ ~(running /\ ~paused)
  <2>1. UNCHANGED <<queue, task, finished, op>>
    BY <1>3 DEF Top, Enter, Test, Block, WakeUp, Finish, Act, data, callVars
  <2>2. \A v \in Workers : RunBy(v)' <=> RunBy(v)
    BY <1>3 DEF Top, Enter, Test, Block, WakeUp, Finish, NotifyDone, Act, Move, RunBy
  <2>3. \A c \in Callers : IsTold(c)' <=> IsTold(c)
    BY <1>3, <2>1 DEF Top, Enter, Test, Block, WakeUp, Finish, NotifyDone, Act, Move, IsTold
  <2> QED BY <2>1, <2>2, <2>3, Unseen
<1> QED BY <1>1, <1>2, <1>3 DEF WorkerStep

\* A notification moves its caller and wakes sleepers, no one else.
LEMMA Notified ==
  ASSUME PInv, NEW c \in Callers, WakeAll(c) \/ Notify(c)
  PROVE  /\ pc[c] \in {"wake", "notify"} /\ pc'[c] \in {"join", "idle"}
         /\ \A v \in Workers : pc'[v] = pc[v] \/ (pc[v] = "sleep" /\ pc'[v] = "enter")
<1>1. /\ c \in Threads /\ \A v \in Workers : v \in Threads /\ v # c
      /\ DOMAIN pc = Threads
  BY Names DEF PInv, TypeOK
<1>2. CASE WakeAll(c)
  BY <1>1, <1>2 DEF WakeAll
<1>3. CASE Notify(c)
  <2>1. /\ pc[c] = "notify" /\ DOMAIN pc' = Threads
        /\ \/ pc' = [pc EXCEPT ![c] = "idle"]
           \/ \E w \in Workers : pc[w] = "sleep" /\ pc' = [pc EXCEPT ![c] = "idle", ![w] = "enter"]
    BY <1>1, <1>3 DEF Notify
  <2>2. CASE pc' = [pc EXCEPT ![c] = "idle"]
    BY <1>1, <2>1, <2>2
  <2>3. CASE \E w \in Workers : pc[w] = "sleep" /\ pc' = [pc EXCEPT ![c] = "idle", ![w] = "enter"]
    BY <1>1, <2>1, <2>3
  <2> QED BY <2>1, <2>2, <2>3
<1> QED BY <1>2, <1>3

LEMMA ServiceCaller ==
  ASSUME PInv, TotalAccounts, NEW c, Callers = {c},
         \/ \E t \in Tasks : Push(c, t)
         \/ \E o \in Calls : Call(c, o)
         \/ PushStep(c) \/ CallStep(c) \/ WakeUpCaller(c)
  PROVE  [Service!Next]_(Service!vars)
<1> USE Names DEF PInv, TypeOK, OwnPlaces, WorkerPlaces, CallerPlaces
<1> DEFINE Run0 == {task[v] : v \in {u \in Workers : pc[u] = "run"}}
           Told0 == {d \in Callers : pc[d] = "told" /\ op[d] = "wait"}
<1>1. ASSUME NEW t \in Tasks, Push(c, t)
      PROVE  [Service!Next]_(Service!vars)
  <2>1. /\ queue' = Append(queue, t) /\ UNCHANGED <<op, finished, task>>
        /\ pc[c] = "idle" /\ pc' = [pc EXCEPT ![c] = "count"]
        /\ t \notin Pushed
    BY <1>1 DEF Push, Move, callVars
  <2>2. Run0' = Run0 /\ Told0' = Told0
    BY <2>1
  <2>3. t \notin {queue[i] : i \in DOMAIN queue} \cup Run0 \cup finished
    BY <2>1 DEF Pushed
  <2> QED BY <2>1, <2>2, <2>3 DEF Service!Next, Service!Submit, Service!Known
<1>2. CASE Wait(c) /\ AllDone /\ op[c] = "wait"
  <2>1. /\ UNCHANGED <<queue, finished, task, op>>
        /\ pc[c] = "test" /\ pc' = [pc EXCEPT ![c] = "told"]
    BY <1>2 DEF Wait, Move, data, callVars
  <2>2. ~paused
    BY <1>2 DEF Pausing
  <2>3. Uncounted = {} /\ Cardinality(Uncounted) = 0
    BY <2>1, FS_EmptySet DEF Uncounted
  <2>4. Len(queue) \in Nat /\ Len(queue) + Cardinality(Busy) = 0
    BY <1>2, <2>2, <2>3, Finite, LenProperties DEF AllDone, TotalAccounts
  <2>5. Len(queue) = 0 /\ Cardinality(Busy) = 0
    BY <2>4, Finite
  <2>6. queue = <<>> /\ Busy = {}
    BY <2>5, Finite, EmptySeq, FS_EmptySet
  <2>7. Run0 = {} /\ Run0' = {}
    BY <2>1, <2>6 DEF Busy
  <2>8. Told0' = Told0 \cup {c}
    BY <1>2, <2>1
  <2> QED BY <2>1, <2>6, <2>7, <2>8 DEF Service!Next, Service!Tell
<1>3. CASE Told(c) /\ op[c] = "wait"
  <2>1. /\ UNCHANGED <<queue, finished, task>>
        /\ pc[c] = "told" /\ pc' = [pc EXCEPT ![c] = "idle"]
        /\ op' = [op EXCEPT ![c] = "none"]
    BY <1>3 DEF Told, Move, data
  <2>2. Run0' = Run0
    BY <2>1
  <2>3. Told0' = Told0 \ {c}
    BY <2>1
  <2> QED BY <2>1, <2>2, <2>3 DEF Service!Next, Service!Leave
<1>4. CASE \/ Count(c) \/ SetWaiting(c) \/ LockTasks(c) \/ WakeUpCaller(c)
           \/ Stop(c) \/ Join(c) \/ Restore(c)
  <2>1. UNCHANGED <<queue, task, finished, op>>
    BY <1>4 DEF Count, SetWaiting, LockTasks, WakeUpCaller, Stop, Join, Restore, data, callVars
  <2>2. PICK p, q \in CallerPlaces \ {"told"} : pc[c] = p /\ pc' = [pc EXCEPT ![c] = q]
    BY <1>4 DEF Count, SetWaiting, LockTasks, WakeUpCaller, Stop, Join, Restore, Move
  <2>3. \A v \in Workers : RunBy(v)' <=> RunBy(v)
    BY <2>2 DEF RunBy
  <2>4. \A d \in Callers : IsTold(d)' <=> IsTold(d)
    BY <2>1, <2>2 DEF IsTold
  <2> QED BY <2>1, <2>3, <2>4, Unseen
<1>5. CASE Wait(c) /\ ~(AllDone /\ op[c] = "wait")
  <2>1. UNCHANGED <<queue, task, finished, op>>
    BY <1>5 DEF Wait, data, callVars
  <2>2. \A v \in Workers : RunBy(v)' <=> RunBy(v)
    BY <1>5 DEF Wait, Move, RunBy
  <2>3. \A d \in Callers : IsTold(d)' <=> IsTold(d)
    BY <1>5, <2>1 DEF Wait, Move, IsTold
  <2> QED BY <2>1, <2>2, <2>3, Unseen
<1>6. CASE Told(c) /\ op[c] # "wait"
  <2>1. UNCHANGED <<queue, task, finished>>
    BY <1>6 DEF Told, data
  <2>2. op' = op /\ pc' = [pc EXCEPT ![c] = "stop"]
    BY <1>6 DEF Told, Move
  <2>3. \A v \in Workers : RunBy(v)' <=> RunBy(v)
    BY <2>2 DEF RunBy
  <2>4. \A d \in Callers : IsTold(d)' <=> IsTold(d)
    BY <1>6, <2>2 DEF IsTold
  <2> QED BY <2>1, <2>3, <2>4, Unseen
<1>7. ASSUME NEW o \in Calls, Call(c, o)
      PROVE  [Service!Next]_(Service!vars)
  <2>1. /\ UNCHANGED <<queue, task, finished>>
        /\ pc[c] = "idle" /\ pc' = [pc EXCEPT ![c] = "waiting"]
    BY <1>7 DEF Call, Move, data
  <2>2. \A v \in Workers : RunBy(v)' <=> RunBy(v)
    BY <2>1 DEF RunBy
  <2>3. \A d \in Callers : IsTold(d)' <=> IsTold(d)
    BY <2>1 DEF IsTold
  <2> QED BY <2>1, <2>2, <2>3, Unseen
<1>8. CASE WakeAll(c) \/ Notify(c)
  <2>1. UNCHANGED <<queue, task, finished, op>>
    BY <1>8 DEF WakeAll, Notify, data, callVars
  <2>2. /\ pc[c] \in {"wake", "notify"} /\ pc'[c] \in {"join", "idle"}
        /\ \A v \in Workers : pc'[v] = pc[v] \/ (pc[v] = "sleep" /\ pc'[v] = "enter")
    BY <1>8, Notified
  <2>3. \A v \in Workers : RunBy(v)' <=> RunBy(v)
    BY <2>2 DEF RunBy
  <2>4. \A d \in Callers : IsTold(d)' <=> IsTold(d)
    BY <2>1, <2>2 DEF IsTold
  <2> QED BY <2>1, <2>3, <2>4, Unseen
<1>9. CASE CreateThreads(c)
  <2>1. UNCHANGED <<queue, task, finished>> /\ op' = [op EXCEPT ![c] = "none"]
    BY <1>9 DEF CreateThreads, data
  <2>2. /\ pc[c] = "create" /\ pc'[c] = "idle"
        /\ \A v \in Workers : pc[v] = "none" /\ pc'[v] = "top"
    BY <1>9 DEF CreateThreads, Joined
  <2>3. \A v \in Workers : RunBy(v)' <=> RunBy(v)
    BY <2>2 DEF RunBy
  <2>4. \A d \in Callers : IsTold(d)' <=> IsTold(d)
    BY <2>1, <2>2 DEF IsTold
  <2> QED BY <2>1, <2>3, <2>4, Unseen
<1> QED BY <1>1, <1>2, <1>3, <1>4, <1>5, <1>6, <1>7, <1>8, <1>9 DEF PushStep, CallStep

LEMMA ServiceInit ==
  ASSUME Init
  PROVE  Service!Init
BY Names DEF Init, Service!Init

\* With one caller, as the epoll thread is for the pool of a worker process,
\* no task is lost, run twice or overtaken, and WaitForTasks returns only when
\* nothing is queued or running (hao_threadpool.cpp:39-123).
THEOREM PoolServes ==
  ASSUME NEW CONSTANT c, Callers = {c}
  PROVE  Spec => ServesTasks
<1>1. Init => PInv /\ TotalAccounts /\ Service!Init
  BY PInit, TotalInit, ServiceInit
<1>2. PInv /\ TotalAccounts /\ [Next]_vars => PInv' /\ TotalAccounts'
  BY PStep, TotalStep
<1>3. PInv /\ TotalAccounts /\ [Next]_vars => [Service!Next]_(Service!vars)
  <2> SUFFICES ASSUME PInv, TotalAccounts, [Next]_vars PROVE [Service!Next]_(Service!vars)
    OBVIOUS
  <2>1. CASE UNCHANGED vars
    BY <2>1, Unseen DEF vars, data, callVars, RunBy, IsTold
  <2>2. CASE Next
    BY <2>2, ServiceWorker, ServiceCaller DEF Next
  <2> QED BY <2>1, <2>2
<1> QED BY <1>1, <1>2, <1>3, PTL DEF Spec, ServesTasks, Service!Spec
=============================================================================
