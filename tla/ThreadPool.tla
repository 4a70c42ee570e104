----------------------------- MODULE ThreadPool -----------------------------
(***************************************************************************)
(* The thread pool of a worker process.  Callers push tasks, wait for all  *)
(* of them, destroy the pool or replace its threads (Reset); the threads   *)
(* take tasks from a queue under tasks_mutex_ and sleep on                 *)
(* task_available_cv_.  tasks_total_ counts the tasks queued or running,   *)
(* and is raised outside the mutex.                                        *)
(*                                                                         *)
(* A step of a thread is what it does between two accesses of shared state *)
(* another thread can disturb.  A thread that evaluates the condition of a *)
(* wait and then blocks does so in two steps, because DestoryThreads       *)
(* notifies without holding the mutex.                                     *)
(***************************************************************************)
EXTENDS Integers, Sequences, FiniteSets

CONSTANTS
  Callers,    \* threads that use the pool
  Workers,    \* its threads
  Tasks,
  Calls,      \* the calls made: subset of {"push", "wait", "destroy", "reset"}
  MaxCalls,   \* bound: calls other than PushTask
  Nobody, NoTask

ASSUME PoolAssumption ==
  /\ IsFiniteSet(Callers) /\ IsFiniteSet(Workers)
  /\ Callers \cap Workers = {}
  /\ Nobody \notin Callers \cup Workers
  /\ NoTask \notin Tasks
  /\ Calls \subseteq {"push", "wait", "destroy", "reset"}
  /\ MaxCalls \in Nat

VARIABLES
  queue,     \* tasks_
  total,     \* tasks_total_, a size_t; negative values stand for wrapped ones
  waiting, running, paused,  \* waiting_, running_, paused_
  lock,      \* the holder of tasks_mutex_
  pc,        \* where each thread is
  task,      \* the task a worker runs
  op,        \* the call a caller has made
  wasPaused, \* was_paused, in Reset
  finished,  \* tasks that have been run
  calls      \* calls made so far

data == <<queue, total>>
flags == <<waiting, running, paused>>
callVars == <<op, wasPaused, calls>>
vars == <<data, flags, lock, pc, task, callVars, finished>>

Threads == Callers \cup Workers

\* Before CreateThreads has run and after the threads have been joined a worker
\* is "none".
WorkerPlaces == {"none", "top", "enter", "test", "block", "sleep", "act", "run",
                 "finish"}
CallerPlaces == {"idle", "count", "notify", "waiting", "lock", "test", "sleep",
                 "told", "stop", "wake", "join", "restore", "create", "gone"}

Init ==
  /\ queue = <<>>
  /\ total = 0
  /\ waiting = FALSE /\ running = TRUE /\ paused = FALSE
  /\ lock = Nobody
  /\ pc = [t \in Threads |-> IF t \in Workers THEN "top" ELSE "idle"]
  /\ task = [w \in Workers |-> NoTask]
  /\ op = [c \in Callers |-> "none"]
  /\ wasPaused = FALSE
  /\ finished = {}
  /\ calls = 0

Move(t, from, to) ==
  /\ pc[t] = from
  /\ pc' = [pc EXCEPT ![t] = to]

Acquire(t) == lock = Nobody /\ lock' = t
Release(t) == lock = t /\ lock' = Nobody

\* Tasks handed to the pool.
Pushed == {queue[i] : i \in DOMAIN queue} \cup {task[w] : w \in Workers} \cup finished

-----------------------------------------------------------------------------
(* WorkerThread *)

\* while(running_): a thread that leaves the loop can be joined.
Top(w) ==
  /\ Move(w, "top", IF running THEN "enter" ELSE "none")
  /\ UNCHANGED <<data, flags, lock, task, callVars, finished>>

Enter(w) ==
  /\ Move(w, "enter", "test")
  /\ Acquire(w)
  /\ UNCHANGED <<data, flags, task, callVars, finished>>

\* Mutant of Test: the wait has no condition.
MutTestNone(w) ==
  /\ Move(w, "test", "act")
  /\ UNCHANGED <<data, flags, lock, task, callVars, finished>>

\* The condition of the wait.
Test(w) ==
  /\ Move(w, "test", IF queue # <<>> \/ ~running THEN "act" ELSE "block")
  /\ UNCHANGED <<data, flags, lock, task, callVars, finished>>

Block(w) ==
  /\ Move(w, "block", "sleep")
  /\ Release(w)
  /\ UNCHANGED <<data, flags, task, callVars, finished>>

\* A wait may return without a notification.
WakeUp(w) ==
  /\ Move(w, "sleep", "enter")
  /\ UNCHANGED <<data, flags, lock, task, callVars, finished>>

\* The first task is taken; front() of an empty queue would be undefined.
Act(w) ==
  /\ Move(w, "act", IF running /\ ~paused THEN "run" ELSE "top")
  /\ IF running /\ ~paused
     THEN /\ task' = [task EXCEPT ![w] = IF queue = <<>> THEN NoTask ELSE Head(queue)]
          /\ queue' = IF queue = <<>> THEN queue ELSE Tail(queue)
     ELSE UNCHANGED <<task, queue>>
  /\ Release(w)
  /\ UNCHANGED <<total, flags, callVars, finished>>

\* The task runs.
Run(w) ==
  /\ Move(w, "run", "finish")
  /\ finished' = finished \cup {task[w]}
  /\ task' = [task EXCEPT ![w] = NoTask]
  /\ UNCHANGED <<data, flags, lock, callVars>>

\* task_done_cv_.notify_one(): at most one sleeping caller wakes up.
NotifyDone(w, to) ==
  LET asleep == {c \in Callers : pc[c] = "sleep"}
  IN  IF waiting /\ asleep # {}
      THEN \E c \in asleep : pc' = [pc EXCEPT ![w] = to, ![c] = "lock"]
      ELSE pc' = [pc EXCEPT ![w] = to]

\* Mutant of Finish: the callers waiting are not told.
MutFinishNoNotify(w) ==
  /\ pc[w] = "finish" /\ lock = Nobody
  /\ total' = total - 1
  /\ pc' = [pc EXCEPT ![w] = "top"]
  /\ UNCHANGED <<queue, flags, lock, task, callVars, finished>>

\* Under the mutex: the count, and the notification.
Finish(w) ==
  /\ pc[w] = "finish" /\ lock = Nobody
  /\ total' = total - 1
  /\ NotifyDone(w, "top")
  /\ UNCHANGED <<queue, flags, lock, task, callVars, finished>>

-----------------------------------------------------------------------------
(* PushTask *)

Push(c, t) ==
  /\ "push" \in Calls
  /\ \A d \in Callers : pc[d] # "gone"
  /\ Move(c, "idle", "count")
  /\ lock = Nobody
  /\ t \notin Pushed
  /\ queue' = Append(queue, t)
  /\ UNCHANGED <<total, flags, lock, task, callVars, finished>>

\* Mutant of Count: the increment is missing.
MutCountNot(c) ==
  /\ Move(c, "count", "notify")
  /\ UNCHANGED <<data, flags, lock, task, callVars, finished>>

Count(c) ==
  /\ Move(c, "count", "notify")
  /\ total' = total + 1
  /\ UNCHANGED <<queue, flags, lock, task, callVars, finished>>

\* Mutant of Notify: nobody is notified.
MutNotifyNobody(c) ==
  /\ Move(c, "notify", "idle")
  /\ UNCHANGED <<data, flags, lock, task, callVars, finished>>

\* task_available_cv_.notify_one()
Notify(c) ==
  /\ pc[c] = "notify"
  /\ LET asleep == {w \in Workers : pc[w] = "sleep"}
     IN  IF asleep = {}
         THEN pc' = [pc EXCEPT ![c] = "idle"]
         ELSE \E w \in asleep : pc' = [pc EXCEPT ![c] = "idle", ![w] = "enter"]
  /\ UNCHANGED <<data, flags, lock, task, callVars, finished>>

-----------------------------------------------------------------------------
(* WaitForTasks, the destructor and Reset, which both wait and then run      *)
(* DestoryThreads                                                            *)

\* Reset pauses the pool first.  One caller at a time resets or destroys it.
Call(c, o) ==
  /\ o \in Calls \ {"push"}
  /\ calls < MaxCalls
  /\ \A d \in Callers : op[d] \notin {"reset", "destroy"}
  /\ Move(c, "idle", "waiting")
  /\ op' = [op EXCEPT ![c] = o]
  /\ calls' = calls + 1
  /\ IF o = "reset" THEN wasPaused' = paused /\ paused' = TRUE
                    ELSE UNCHANGED <<wasPaused, paused>>
  /\ UNCHANGED <<data, waiting, running, lock, task, finished>>

SetWaiting(c) ==
  /\ Move(c, "waiting", "lock")
  /\ waiting' = TRUE
  /\ UNCHANGED <<data, running, paused, lock, task, callVars, finished>>

LockTasks(c) ==
  /\ Move(c, "lock", "test")
  /\ Acquire(c)
  /\ UNCHANGED <<data, flags, task, callVars, finished>>

\* Mutant of AllDone: the queue alone is looked at.
MutAllDoneQueueOnly == IF paused THEN TRUE ELSE queue = <<>>

AllDone == total = (IF paused THEN Len(queue) ELSE 0)

\* The condition of the wait; who notifies task_done_cv_ holds the mutex, so
\* testing and blocking are one step.
Wait(c) ==
  /\ Move(c, "test", IF AllDone THEN "told" ELSE "sleep")
  /\ Release(c)
  /\ waiting' = IF AllDone THEN FALSE ELSE waiting
  /\ UNCHANGED <<data, running, paused, task, callVars, finished>>

WakeUpCaller(c) ==
  /\ Move(c, "sleep", "lock")
  /\ UNCHANGED <<data, flags, lock, task, callVars, finished>>

Told(c) ==
  /\ Move(c, "told", IF op[c] = "wait" THEN "idle" ELSE "stop")
  /\ op' = [op EXCEPT ![c] = IF op[c] = "wait" THEN "none" ELSE @]
  /\ UNCHANGED <<data, flags, lock, task, wasPaused, calls, finished>>

Stop(c) ==
  /\ Move(c, "stop", "wake")
  /\ running' = FALSE
  /\ UNCHANGED <<data, waiting, paused, lock, task, callVars, finished>>

\* task_available_cv_.notify_all(), without the mutex.
WakeAll(c) ==
  /\ pc[c] = "wake"
  /\ pc' = [t \in Threads |-> IF t = c THEN "join"
                              ELSE IF t \in Workers /\ pc[t] = "sleep" THEN "enter"
                              ELSE pc[t]]
  /\ UNCHANGED <<data, flags, lock, task, callVars, finished>>

\* The workers have left their loops.
Join(c) ==
  /\ Move(c, "join", IF op[c] = "reset" THEN "restore" ELSE "gone")
  /\ \A w \in Workers : pc[w] = "none"
  /\ UNCHANGED <<data, flags, lock, task, callVars, finished>>

\* Reset puts paused_ back and creates the threads.
Restore(c) ==
  /\ Move(c, "restore", "create")
  /\ paused' = wasPaused
  /\ UNCHANGED <<data, waiting, running, lock, task, callVars, finished>>

CreateThreads(c) ==
  /\ pc[c] = "create"
  /\ running' = TRUE
  /\ pc' = [t \in Threads |-> IF t = c THEN "idle"
                              ELSE IF t \in Workers THEN "top" ELSE pc[t]]
  /\ op' = [op EXCEPT ![c] = "none"]
  /\ UNCHANGED <<data, waiting, paused, lock, task, wasPaused, calls, finished>>

-----------------------------------------------------------------------------
WorkerStep(w) ==
  Top(w) \/ Enter(w) \/ Test(w) \/ Block(w) \/ Act(w) \/ Run(w) \/ Finish(w)

PushStep(c) == Count(c) \/ Notify(c)

CallStep(c) ==
  \/ SetWaiting(c) \/ LockTasks(c) \/ Wait(c) \/ Told(c)
  \/ Stop(c) \/ WakeAll(c) \/ Join(c) \/ Restore(c) \/ CreateThreads(c)

Next ==
  \/ \E w \in Workers : WorkerStep(w) \/ WakeUp(w)
  \/ \E c \in Callers :
       \/ \E t \in Tasks : Push(c, t)
       \/ \E o \in Calls : Call(c, o)
       \/ PushStep(c) \/ CallStep(c) \/ WakeUpCaller(c)

Spec == Init /\ [][Next]_vars

\* The threads keep running, tasks end, and a thread waiting for the mutex
\* gets it in the end.  No wait is assumed to return by itself.
Fairness ==
  /\ \A w \in Workers : WF_vars(WorkerStep(w)) /\ SF_vars(Enter(w)) /\ SF_vars(Finish(w))
  /\ \A c \in Callers : WF_vars(PushStep(c)) /\ WF_vars(CallStep(c)) /\ SF_vars(LockTasks(c))

FairSpec == Spec /\ Fairness

-----------------------------------------------------------------------------
\* Every variable has its type.
TypeOK ==
  /\ queue \in Seq(Tasks)
  /\ total \in Int
  /\ waiting \in BOOLEAN /\ running \in BOOLEAN /\ paused \in BOOLEAN
  /\ lock \in Threads \cup {Nobody}
  /\ pc \in [Threads -> WorkerPlaces \cup CallerPlaces]
  /\ task \in [Workers -> Tasks \cup {NoTask}]
  /\ op \in [Callers -> {"none", "wait", "destroy", "reset"}]
  /\ wasPaused \in BOOLEAN
  /\ finished \in SUBSET Tasks
  /\ calls \in 0 .. MaxCalls

\* A thread that is about to take a task finds one: another thread, a Reset or
\* a second test of running_ never leaves it with an empty queue.
FrontExists ==
  \A w \in Workers : pc[w] = "act" /\ running /\ ~paused => queue # <<>>

Uncounted == {c \in Callers : pc[c] = "count"}
Busy == {w \in Workers : pc[w] \in {"run", "finish"}}

\* tasks_total_ is the number of tasks queued or with a thread, less those
\* whose PushTask has not yet counted them.
TotalAccounts ==
  total = Len(queue) + Cardinality(Busy) - Cardinality(Uncounted)

\* The pool is a TaskService: no task is lost, run twice or overtaken in the
\* queue, and WaitForTasks returns only when nothing is queued or running.
Service == INSTANCE TaskService WITH
  pending  <- queue,
  running  <- {task[w] : w \in {v \in Workers : pc[v] = "run"}},
  told     <- {c \in Callers : pc[c] = "told" /\ op[c] = "wait"}
ServesTasks == Service!Spec

\* No wakeup is lost: a task handed in is run in the end, unless
\* DestoryThreads stops the threads first.
TasksRun == \A t \in Tasks : t \in Pushed ~> t \in finished \/ ~running

\* A call ends: WaitForTasks always, also when the destructor or Reset calls it
\* while tasks are queued.  DestoryThreads joins the threads unless one of them
\* missed its notification, between its test and its wait, and sleeps: nothing
\* else, not even a paused pool with tasks in its queue, keeps it waiting.
CallsReturn ==
  \A c \in Callers :
    /\ pc[c] = "waiting" ~> pc[c] = "told"
    /\ pc[c] = "join" ~> pc[c] # "join" \/ \E w \in Workers : pc[w] = "sleep"

=============================================================================
