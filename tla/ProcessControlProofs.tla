------------------------ MODULE ProcessControlProofs ------------------------
(***************************************************************************)
(* No exited worker is forgotten, whatever the number of workers and the   *)
(* signals.  NoneForgotten is inductive over the types.                    *)
(***************************************************************************)
EXTENDS ProcessControl, TLAPS

\* Init and every step of the master and its workers keep the types of
\* ProcessControl's variables.
THEOREM ProcessTypes == Spec => []TypeOK
<1>1. Init => TypeOK
  BY WorkersAssumption DEF Init, TypeOK, Workers
<1>2. TypeOK /\ [Next]_vars => TypeOK'
  <2> SUFFICES ASSUME TypeOK, [Next]_vars PROVE TypeOK'
    OBVIOUS
  <2> USE DEF TypeOK
  <2>1. ASSUME ForkWorker \/ ForkFails PROVE TypeOK'
    BY <2>1, WorkersAssumption DEF ForkWorker, ForkFails, Workers, Alive
  <2>2. CASE ForkDone
    BY <2>2 DEF ForkDone
  <2>3. CASE Wake
    BY <2>3 DEF Wake
  <2>4. CASE Interrupt
    BY <2>4 DEF Interrupt
  <2>5. CASE ReapDone \/ NoChild \/ SleepEnds
    BY <2>5 DEF ReapDone, NoChild, SleepEnds
  <2>6. ASSUME NEW w \in Workers, Exits(w) PROVE TypeOK'
    BY <2>6 DEF Exits, master, Signals
  <2>7. ASSUME NEW w \in Workers, WorkerReady(w) \/ Reap(w) PROVE TypeOK'
    BY <2>7 DEF WorkerReady, Reap, master, Alive
  <2>8. ASSUME NEW w \in Workers, HandleInWorker(w) PROVE TypeOK'
    BY <2>6, <2>8 DEF HandleInWorker, master
  <2>9. ASSUME NEW s \in Handled \cup Fatal, SignalMaster(s) PROVE TypeOK'
    BY <2>9 DEF SignalMaster, master, Signals
  <2>10. ASSUME NEW s \in Handled \cup Fatal, NEW w \in Workers, SignalWorker(w, s)
         PROVE  TypeOK'
    BY <2>10 DEF SignalWorker, master, Signals
  <2>11. CASE UNCHANGED vars
    BY <2>11 DEF vars
  <2> QED
    BY <2>1, <2>2, <2>3, <2>4, <2>5, <2>6, <2>7, <2>8, <2>9, <2>10, <2>11
    DEF Next, InitializeFails, WorkerDies
<1> QED
  BY <1>1, <1>2, PTL DEF Spec

\* A step that only adds signals for the master, and makes no zombie, forgets
\* none.
LEMMA Quiet ==
  ASSUME NoneForgotten,
         at' = at,
         pending \subseteq pending',
         \A w \in Workers : worker'[w] = "zombie" => worker[w] = "zombie"
  PROVE  NoneForgotten'
BY DEF NoneForgotten, Zombies

\* The master is told of every worker that exits: process_get_status leaves no
\* zombie behind, and sigsuspend no SIGCHLD unhandled.
THEOREM NoWorkerForgotten == Spec => []NoneForgotten
<1>1. Init => NoneForgotten
  BY DEF Init, NoneForgotten, Zombies
<1>2. TypeOK /\ NoneForgotten /\ [Next]_vars => NoneForgotten'
  <2> SUFFICES ASSUME TypeOK, NoneForgotten, [Next]_vars PROVE NoneForgotten'
    OBVIOUS
  <2>1. CASE ForkWorker
    <3>1. \A w \in Workers : worker'[w] = "zombie" => worker[w] = "zombie"
      BY <2>1 DEF ForkWorker, TypeOK
    <3> QED
      BY <2>1, <3>1, Quiet DEF ForkWorker
  <2>2. CASE ForkFails \/ NoChild
    BY <2>2, Quiet DEF ForkFails, NoChild
  <2>3. CASE ForkDone \/ SleepEnds
    BY <2>3 DEF ForkDone, SleepEnds, NoneForgotten, Zombies
  <2>4. CASE Wake
    <3>1. CASE at' = "sleep"
      <4>1. SIGCHLD \notin pending
        BY <2>4, <3>1 DEF Wake
      <4> QED
        BY <2>4, <4>1 DEF Wake, NoneForgotten, Zombies
    <3>2. CASE at' \in {"handler", "dead"}
      BY <3>2 DEF NoneForgotten
    <3> QED
      BY <2>4, <3>1, <3>2 DEF Wake
  <2>5. CASE Interrupt
    BY <2>5 DEF Interrupt, NoneForgotten
  <2>6. CASE ReapDone
    BY <2>6 DEF ReapDone, NoneForgotten, Zombies
  <2>7. ASSUME NEW w \in Workers, Exits(w) PROVE NoneForgotten'
    BY <2>7 DEF Exits, master, NoneForgotten
  <2>8. ASSUME NEW w \in Workers, WorkerReady(w) \/ Reap(w) PROVE NoneForgotten'
    <3>1. \A v \in Workers : worker'[v] = "zombie" => worker[v] = "zombie"
      BY <2>8 DEF WorkerReady, Reap, TypeOK
    <3> QED
      BY <2>8, <3>1, Quiet DEF WorkerReady, Reap, master
  <2>9. ASSUME NEW w \in Workers, HandleInWorker(w) PROVE NoneForgotten'
    BY <2>7, <2>9, Quiet DEF HandleInWorker, master
  <2>10. ASSUME NEW s \in Handled \cup Fatal, SignalMaster(s) PROVE NoneForgotten'
    BY <2>10, Quiet DEF SignalMaster, master
  <2>11. ASSUME NEW s \in Handled \cup Fatal, NEW w \in Workers, SignalWorker(w, s)
         PROVE  NoneForgotten'
    BY <2>11, Quiet DEF SignalWorker, master
  <2>12. CASE UNCHANGED vars
    BY <2>12, Quiet DEF vars
  <2> QED
    BY <2>1, <2>2, <2>3, <2>4, <2>5, <2>6, <2>7, <2>8, <2>9, <2>10, <2>11, <2>12
    DEF Next, InitializeFails, WorkerDies
<1> QED
  BY <1>1, <1>2, ProcessTypes, PTL DEF Spec
=============================================================================
