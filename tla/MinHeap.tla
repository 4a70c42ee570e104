------------------------------ MODULE MinHeap -------------------------------
(***************************************************************************)
(* The heap of the timer, hao_timer.cpp.  An operation opens a hole in the *)
(* array and sifts it up or down, one level a step, until the event that   *)
(* moves fits in; each event knows its index, so that one in the middle    *)
(* can be erased or given another time.  One thread runs the operations,   *)
(* one after the other.                                                    *)
(***************************************************************************)
EXTENDS Integers

CONSTANTS
  Events,
  NoEvent,
  MaxTime,  \* bound: the latest time
  FirstA    \* the first size of the array, 8 in the code

ASSUME HeapAssumption ==
  /\ NoEvent \notin Events
  /\ MaxTime \in Nat
  /\ FirstA \in Nat \ {0}

Times == 0 .. MaxTime

VARIABLES
  p,       \* the array
  n,       \* events in the heap
  a,       \* size of the array
  index,   \* min_heap_idx of each event
  due,     \* ev_timeout of each event; 0 when it is not in the heap
  mode,    \* what is going on: nothing, or the loop of a shift
  hole,    \* hole_index
  moving,  \* the event to be put where the hole ends
  victim,  \* the event Pop or Erase takes out
  held,    \* the events added and not taken out
  popped   \* what the last operation returned: an event, if it was Pop

array == <<p, n, a, index>>
shift == <<hole, moving, victim>>
vars == <<array, due, mode, shift, held, popped>>

Modes == {"idle", "up", "first", "down"}

Parent(i) == (i - 1) \div 2

\* min_heap_elem_greater.
Greater(e, f) == due[e] > due[f]

Init ==
  /\ p = <<>> /\ n = 0 /\ a = 0
  /\ index = [e \in Events |-> -1]
  /\ due = [e \in Events |-> 0]
  /\ mode = "idle"
  /\ hole = 0 /\ moving = NoEvent /\ victim = NoEvent
  /\ held = {} /\ popped = NoEvent

-----------------------------------------------------------------------------
(* The operations, up to their loop. *)

\* Mutant of Reserve: off by one.
MutReserve(size) ==
  IF a < size - 1
  THEN /\ a' = size - 1
       /\ p' = [i \in 0 .. size - 2 |-> IF i < a THEN p[i] ELSE NoEvent]
  ELSE UNCHANGED <<a, p>>

\* min_heap_reserve_: room for size events.
Reserve(size) ==
  IF a < size
  THEN LET twice == IF a = 0 THEN FirstA ELSE 2 * a
           new   == IF twice < size THEN size ELSE twice
       IN  /\ a' = new
           /\ p' = [i \in 0 .. new - 1 |-> IF i < a THEN p[i] ELSE NoEvent]
  ELSE UNCHANGED <<a, p>>

\* TimerAdd and min_heap_push_.
Push(e, when) ==
  /\ mode = "idle" /\ e \notin held
  /\ due' = [due EXCEPT ![e] = when]
  /\ Reserve(n + 1)
  /\ n' = n + 1
  /\ mode' = "up" /\ hole' = n /\ moving' = e /\ victim' = NoEvent
  /\ held' = held \cup {e}
  /\ popped' = NoEvent
  /\ UNCHANGED index

\* Timer::Pop and min_heap_pop_: the last event goes where the first was.
Pop ==
  /\ mode = "idle" /\ n > 0
  /\ n' = n - 1
  /\ mode' = "down" /\ hole' = 0 /\ moving' = p[n - 1] /\ victim' = p[0]
  /\ held' = held \ {p[0]}
  /\ popped' = p[0]
  /\ UNCHANGED <<p, a, index, due>>

\* Mutant of Direction: the event always sinks.
MutDirection(e, m) == "down"

\* Which way event m moves when it comes where event e is.
Direction(e, m) ==
  IF index[e] > 0 /\ due'[p[Parent(index[e])]] > due'[m] THEN "first" ELSE "down"

\* TimerCancel and min_heap_erase_: the last event goes where e was.
Erase(e) ==
  /\ mode = "idle" /\ e \in held /\ index[e] # -1
  /\ UNCHANGED due
  /\ n' = n - 1
  /\ mode' = Direction(e, p[n - 1])
  /\ hole' = index[e] /\ moving' = p[n - 1] /\ victim' = e
  /\ held' = held \ {e}
  /\ popped' = NoEvent
  /\ UNCHANGED <<p, a, index>>

\* Timer::Update and min_heap_adjust_ of an event in the heap.
Update(e, when) ==
  /\ mode = "idle" /\ e \in held /\ index[e] # -1
  /\ due' = [due EXCEPT ![e] = when]
  /\ mode' = Direction(e, e)
  /\ hole' = index[e] /\ moving' = e /\ victim' = NoEvent
  /\ popped' = NoEvent
  /\ UNCHANGED <<p, n, a, index, held>>

-----------------------------------------------------------------------------
(* The loops. *)

\* The event at index i goes into the hole, which is now at i.
Pull(i) ==
  /\ p' = [p EXCEPT ![hole] = p[i]]
  /\ index' = [index EXCEPT ![p[i]] = hole]
  /\ hole' = i
  /\ UNCHANGED <<n, a, due, moving, victim, held, popped>>

\* The loop is over; a victim is freed.
Leave ==
  /\ mode' = "idle"
  /\ hole' = 0 /\ moving' = NoEvent /\ victim' = NoEvent
  /\ due' = [e \in Events |-> IF e = victim THEN 0 ELSE due[e]]
  /\ UNCHANGED <<n, a, held, popped>>

\* Mutant of Place: the event that moves does not learn its index.
MutPlace ==
  /\ p' = [p EXCEPT ![hole] = moving]
  /\ index' = [e \in Events |-> IF e = victim THEN -1 ELSE index[e]]
  /\ Leave

\* The event that moves goes into the hole, and a victim has no index.
Place ==
  /\ p' = [p EXCEPT ![hole] = moving]
  /\ index' = [e \in Events |-> IF e = victim THEN -1
                                ELSE IF e = moving THEN hole ELSE index[e]]
  /\ Leave

\* The parent is pulled down: without a test in the first step of
\* min_heap_shift_up_unconditional_.
Rises == hole > 0 /\ Greater(p[Parent(hole)], moving)

ShiftUp ==
  \/ mode = "first" /\ Pull(Parent(hole)) /\ mode' = "up"
  \/ mode = "up" /\ Rises /\ Pull(Parent(hole)) /\ UNCHANGED mode
  \/ mode = "up" /\ ~Rises /\ Place

Right == 2 * (hole + 1)

\* Mutant of MinChild: the left child is taken.
MutMinChild == Right - 1

\* The lesser child; the left one when there is no right one.
MinChild ==
  IF Right = n \/ Greater(p[Right], p[Right - 1]) THEN Right - 1 ELSE Right

Sinks == Right <= n /\ Greater(moving, p[MinChild])

ShiftDown ==
  /\ mode = "down"
  /\ \/ Sinks /\ Pull(MinChild) /\ UNCHANGED mode
     \/ ~Sinks /\ Place

Next ==
  \/ Pop
  \/ \E e \in Events : Erase(e)
  \/ \E e \in Events, when \in Times : Push(e, when) \/ Update(e, when)
  \/ ShiftUp
  \/ ShiftDown

Spec == Init /\ [][Next]_vars

-----------------------------------------------------------------------------
\* Every variable has its type.
TypeOK ==
  /\ n \in Nat /\ a \in Nat
  /\ p \in [0 .. a - 1 -> Events \cup {NoEvent}]
  /\ index \in [Events -> Int]
  /\ due \in [Events -> Times]
  /\ mode \in Modes
  /\ hole \in Nat
  /\ moving \in Events \cup {NoEvent} /\ victim \in Events \cup {NoEvent}
  /\ held \in SUBSET Events
  /\ popped \in Events \cup {NoEvent}

\* Between operations the array holds exactly the events held, each where its
\* index says, in room that is there.
BackPointers ==
  mode = "idle" =>
    /\ n <= a
    /\ held = {p[i] : i \in 0 .. n - 1}
    /\ \A i \in 0 .. n - 1 : index[p[i]] = i
    /\ \A e \in Events \ held : index[e] = -1

\* Between operations no event is due before its parent.
HeapOrder ==
  mode = "idle" => \A i \in 1 .. n - 1 : due[p[Parent(i)]] <= due[p[i]]

\* No step of an operation reads or writes past the array.
InArray == mode # "idle" => hole \in 0 .. a - 1 /\ n <= a

\* The heap is a TimerQueue: Pop returns an event due first, and no event is
\* lost or kept by an operation on another one.
Later(s, t) == s > t
Queue == INSTANCE TimerQueue WITH due <- [e \in held |-> due[e]]
IsQueue == Queue!Spec

=============================================================================
