--------------------------- MODULE ProcessControl ---------------------------
(***************************************************************************)
(* The master process and its workers: MasterProcessCycle with             *)
(* StartWorkerProcess, MakeChildProcess and WorkerProcessCycle             *)
(* (app/proc/hao_server.cpp), signal_handler and process_get_status        *)
(* (app/signal/hao_signal.cpp).                                            *)
(*                                                                         *)
(* The master blocks its signals, forks the workers and then alternates    *)
(* between sigsuspend, the only place where a signal reaches it, and       *)
(* sleep(10).  Signals do not queue: those of one kind sent while they are *)
(* blocked merge into one.  An exited worker stays a zombie until          *)
(* process_get_status, called from the handler of SIGCHLD, waits for it.   *)
(*                                                                         *)
(* The signals are split by what the table of init_signals makes of them:  *)
(* Handled ones only leave a line in the log, Fatal ones have no entry and *)
(* keep the default action, which ends the process.                        *)
(***************************************************************************)
EXTENDS Integers

CONSTANTS
    NumWorkers,     \* WorkerProcesses of hao.hjson
    Handled,        \* SIGINT, SIGTERM, ...: in the table, the handler only logs
    Fatal           \* SIGUSR1, SIGALRM, ...: blocked by the master, no handler

SIGCHLD == "SIGCHLD"

ASSUME WorkersAssumption == NumWorkers \in Nat
ASSUME SignalsAssumption == SIGCHLD \notin Handled \cup Fatal /\ Handled \cap Fatal = {}

VARIABLES
    at,                     \* where the master is
    i,                      \* the loop of StartWorkerProcess
    worker,                 \* the life of each worker process
    pending,                \* signals sent to the master, not delivered
    wpending,               \* signals sent to a worker, not delivered
    worker_status_changed,
    err                     \* what process_get_status makes of errno

master == <<at, i, worker_status_changed, err>>
vars   == <<at, i, worker, pending, wpending, worker_status_changed, err>>

Workers  == 0 .. NumWorkers - 1
Signals  == Handled \cup Fatal \cup {SIGCHLD}
Alive    == {"starting", "running"}     \* children waitpid answers 0 for
Zombies  == {w \in Workers : worker[w] = "zombie"}
Children == {w \in Workers : worker[w] \in Alive \cup {"zombie"}}

TypeOK ==
    /\ at \in {"fork", "suspend", "handler", "sleep", "dead"}
    /\ i \in 0 .. NumWorkers
    /\ worker \in [Workers -> {"absent", "zombie", "reaped"} \cup Alive]
    /\ pending \in SUBSET Signals
    /\ wpending \in [Workers -> SUBSET Signals]
    /\ worker_status_changed \in {0, 1}
    /\ err \in {"none", "EINTR"}

\* ServerInit has installed the handlers; MasterProcessCycle has blocked the
\* signals, which from then on collect in `pending`.
Init ==
    /\ at = "fork" /\ i = 0
    /\ worker = [w \in Workers |-> "absent"]
    /\ pending = {}
    /\ wpending = [w \in Workers |-> {}]
    /\ worker_status_changed = 0
    /\ err = "none"
-----------------------------------------------------------------------------
(* The master forks its workers.                                           *)

\* MakeChildProcess, the parent's side: the child starts with the master's
\* signals blocked and none pending.
ForkWorker ==
    /\ at = "fork" /\ i < NumWorkers
    /\ worker' = [worker EXCEPT ![i] = "starting"]
    /\ i' = i + 1
    /\ UNCHANGED <<at, pending, wpending, worker_status_changed, err>>

\* fork() answers -1: one line in the log, and the loop goes on.
ForkFails ==
    /\ at = "fork" /\ i < NumWorkers
    /\ i' = i + 1
    /\ UNCHANGED <<at, worker, pending, wpending, worker_status_changed, err>>

ForkDone ==
    /\ at = "fork" /\ i = NumWorkers
    /\ at' = "suspend"
    /\ UNCHANGED <<i, worker, pending, wpending, worker_status_changed, err>>

-----------------------------------------------------------------------------
(* A worker's life.                                                        *)

\* WorkerProcessCycle sets process_type, and WorkerProcessInit unblocks the
\* signals: those sent meanwhile are delivered by HandleInWorker.
WorkerReady(w) ==
    /\ worker[w] = "starting"
    /\ worker' = [worker EXCEPT ![w] = "running"]
    /\ UNCHANGED <<master, pending, wpending>>

\* The kernel's part of an exit: a zombie, and SIGCHLD for the parent.
Exits(w) ==
    /\ worker' = [worker EXCEPT ![w] = "zombie"]
    /\ pending' = IF at = "dead" THEN pending ELSE pending \cup {SIGCHLD}
    /\ wpending' = [wpending EXCEPT ![w] = {}]
    /\ UNCHANGED master

\* g_socket.Initialize() fails (a port in use, say): exit(EXIT_FAILURE).
InitializeFails(w) == worker[w] = "starting" /\ Exits(w)

\* A crash, or a signal that cannot be caught.
WorkerDies(w) == worker[w] = "running" /\ Exits(w)

\* A signal with a handler leaves the worker as it was; one without ends it.
HandleInWorker(w) ==
    /\ worker[w] = "running" /\ wpending[w] # {}
    /\ IF wpending[w] \cap Fatal # {}
         THEN Exits(w)
         ELSE /\ wpending' = [wpending EXCEPT ![w] = {}]
              /\ UNCHANGED <<master, worker, pending>>

-----------------------------------------------------------------------------
(* The master waits for signals.                                           *)

\* Mutant of Wake: the handler sets the flag and leaves the rest to a loop that
\* does not look at it.
MutWake ==
    /\ at = "suspend" /\ pending # {}
    /\ pending' = {}
    /\ at' = IF pending \cap Fatal # {} THEN "dead" ELSE "sleep"
    /\ worker_status_changed' = IF SIGCHLD \in pending THEN 1 ELSE worker_status_changed
    /\ UNCHANGED <<i, worker, wpending, err>>

\* sigsuspend with an empty mask delivers everything pending at once, and the
\* handler of SIGCHLD calls process_get_status.
Wake ==
    /\ at = "suspend" /\ pending # {}
    /\ pending' = {}
    /\ at' = IF pending \cap Fatal # {} THEN "dead"
             ELSE IF SIGCHLD \in pending THEN "handler" ELSE "sleep"
    /\ worker_status_changed' = IF at' = "handler" THEN 1 ELSE worker_status_changed
    /\ UNCHANGED <<i, worker, wpending, err>>

\* In the handler only SIGCHLD is blocked: other signals interrupt it.
Interrupt ==
    /\ at = "handler" /\ pending \ {SIGCHLD} # {}
    /\ pending' = pending \cap {SIGCHLD}
    /\ at' = IF pending \cap Fatal # {} THEN "dead" ELSE at
    /\ UNCHANGED <<i, worker, wpending, worker_status_changed, err>>

\* waitpid(-1, &status, WNOHANG) answers one of the exited workers.
Reap(w) ==
    /\ at = "handler" /\ worker[w] = "zombie"
    /\ worker' = [worker EXCEPT ![w] = "reaped"]
    /\ UNCHANGED <<master, pending, wpending>>

\* Mutant of ReapDone: one waitpid for each signal.
MutReapDone ==
    /\ at = "handler" /\ Children # {}
    /\ at' = "sleep"
    /\ UNCHANGED <<i, worker, pending, wpending, worker_status_changed, err>>

\* It answers 0, there are workers and none has exited: the handler returns
\* with the master's mask, and sigsuspend with it.
ReapDone ==
    /\ at = "handler" /\ Zombies = {} /\ Children # {}
    /\ at' = "sleep"
    /\ UNCHANGED <<i, worker, pending, wpending, worker_status_changed, err>>

\* It answers -1, there is no worker left: `if(err = EINTR)` assigns, and the
\* loop goes on.
NoChild ==
    /\ at = "handler" /\ Children = {}
    /\ err' = "EINTR"
    /\ UNCHANGED <<at, i, worker, pending, wpending, worker_status_changed>>

\* sleep(10), with every signal blocked.
SleepEnds ==
    /\ at = "sleep"
    /\ at' = "suspend"
    /\ UNCHANGED <<i, worker, pending, wpending, worker_status_changed, err>>

-----------------------------------------------------------------------------
(* Anyone may signal a process.                                            *)

SignalMaster(s) ==
    /\ at # "dead" /\ s \notin pending
    /\ pending' = pending \cup {s}
    /\ UNCHANGED <<master, worker, wpending>>

SignalWorker(w, s) ==
    /\ worker[w] \in Alive /\ s \notin wpending[w]
    /\ wpending' = [wpending EXCEPT ![w] = @ \cup {s}]
    /\ UNCHANGED <<master, worker, pending>>

Next ==
    \/ ForkWorker \/ ForkFails \/ ForkDone
    \/ Wake \/ Interrupt \/ ReapDone \/ NoChild \/ SleepEnds
    \/ \E w \in Workers :
          WorkerReady(w) \/ InitializeFails(w) \/ WorkerDies(w) \/ HandleInWorker(w) \/ Reap(w)
    \/ \E s \in Handled \cup Fatal :
          SignalMaster(s) \/ (\E w \in Workers : SignalWorker(w, s))

Spec == Init /\ [][Next]_vars

\* The master is scheduled: its loop, its handler and its sleep go on.
FairSpec ==
    /\ Spec
    /\ WF_vars(ForkWorker \/ ForkFails \/ ForkDone)
    /\ WF_vars(Wake) /\ WF_vars(ReapDone) /\ WF_vars(SleepEnds)
    /\ \A w \in Workers : WF_vars(Reap(w))
-----------------------------------------------------------------------------
(* Properties.                                                             *)

\* Although SIGCHLD is blocked most of the time and many of them merge into
\* one, no exited worker is forgotten: as long as there is a zombie, another
\* SIGCHLD is waiting for the master or it is in the loop that collects them
\* (hao_signal.cpp:121-168, hao_server.cpp:300-326).
NoneForgotten ==
    Zombies # {} => at \in {"handler", "dead"} \/ SIGCHLD \in pending

\* An exited worker is at last reaped, unless a signal ends the master.
EveryWorkerReaped ==
    \A w \in Workers : worker[w] = "zombie" ~> worker[w] = "reaped" \/ at = "dead"

\* A signal does not stop the master for good: it comes back to sigsuspend.
\* The code means this of the last worker too: "if(err == ECHILD && one)
\* // no child process" returns from the loop (hao_signal.cpp:146-154).
HandlerReturns == at = "handler" ~> at \in {"suspend", "dead"}
=============================================================================
