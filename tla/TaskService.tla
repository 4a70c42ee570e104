---------------------------- MODULE TaskService -----------------------------
(***************************************************************************)
(* What a pool of threads promises: every task handed in is started once,  *)
(* in the order the tasks were handed in, and a caller is told that all    *)
(* work is done only when it is.                                           *)
(***************************************************************************)
EXTENDS Sequences

CONSTANTS Tasks, Callers

VARIABLES
  pending,   \* tasks handed in and not started, in that order
  running,   \* tasks being run
  finished,  \* tasks that ended
  told       \* callers that were told that all work is done

vars == <<pending, running, finished, told>>

Known == {pending[i] : i \in DOMAIN pending} \cup running \cup finished

Init ==
  /\ pending = <<>>
  /\ running = {}
  /\ finished = {}
  /\ told = {}

Submit(task) ==
  /\ task \notin Known
  /\ pending' = Append(pending, task)
  /\ UNCHANGED <<running, finished, told>>

Start ==
  /\ pending # <<>>
  /\ running' = running \cup {Head(pending)}
  /\ pending' = Tail(pending)
  /\ UNCHANGED <<finished, told>>

End(task) ==
  /\ task \in running
  /\ running' = running \ {task}
  /\ finished' = finished \cup {task}
  /\ UNCHANGED <<pending, told>>

Tell(c) ==
  /\ pending = <<>> /\ running = {}
  /\ told' = told \cup {c}
  /\ UNCHANGED <<pending, running, finished>>

\* The caller goes on.
Leave(c) ==
  /\ told' = told \ {c}
  /\ UNCHANGED <<pending, running, finished>>

Next ==
  \/ \E task \in Tasks : Submit(task) \/ End(task)
  \/ Start
  \/ \E c \in Callers : Tell(c) \/ Leave(c)

Spec == Init /\ [][Next]_vars

=============================================================================
