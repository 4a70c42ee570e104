----------------------------- MODULE TimerQueue -----------------------------
(***************************************************************************)
(* What the heap of the timer promises: a set of events, each with the     *)
(* time it is due, that gives back an earliest one.                        *)
(***************************************************************************)
CONSTANTS Events, Times

\* The event that is none, and an order of the times.
CONSTANTS NoEvent, Later(_, _)

VARIABLES
  due,    \* when each event in the queue is due
  popped  \* the event the last operation returned

vars == <<due, popped>>

held == DOMAIN due

Init == due = [e \in {} |-> 0] /\ popped = NoEvent

\* An event is added, or given another time.
Set(e, when) ==
  /\ due' = [f \in held \cup {e} |-> IF f = e THEN when ELSE due[f]]
  /\ popped' = NoEvent

Without(e) == [f \in held \ {e} |-> due[f]]

Remove(e) == e \in held /\ due' = Without(e) /\ popped' = NoEvent

Earliest(e) == \A f \in held : ~Later(due[e], due[f])

Pop == \E e \in held : Earliest(e) /\ due' = Without(e) /\ popped' = e

Next ==
  \/ \E e \in Events, when \in Times : Set(e, when)
  \/ \E e \in Events : Remove(e)
  \/ Pop

Spec == Init /\ [][Next]_vars

=============================================================================
