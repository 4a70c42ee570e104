---------------------------- MODULE MinHeapProofs ----------------------------
(***************************************************************************)
(* Theorems about MinHeap, for every set of events, every latest time and  *)
(* every first size of the array.                                          *)
(***************************************************************************)
EXTENDS MinHeap, FiniteSetTheorems, TLAPS

-----------------------------------------------------------------------------
(* The inductive invariant.  In the middle of a shift the hole holds no    *)
(* event that counts; everything else is a heap around it.                 *)

Busy == mode # "idle"
Filled(i) == i \in 0 .. n - 1 /\ ~(Busy /\ i = hole)

Types ==
  /\ n \in Nat /\ a \in Nat /\ n <= a
  /\ p \in [0 .. a - 1 -> Events \cup {NoEvent}]
  /\ index \in [Events -> Int]
  /\ due \in [Events -> Times]
  /\ mode \in Modes
  /\ hole \in Nat
  /\ moving \in Events \cup {NoEvent} /\ victim \in Events \cup {NoEvent}
  /\ held \in SUBSET Events

\* The event that moves is held, unless it is the victim and was the last.
Carried ==
  /\ Busy => /\ hole <= n /\ hole < a
             /\ moving \in Events
             /\ hole < n <=> moving # victim
             /\ moving # victim => moving \in held
             /\ mode # "down" => hole < n
  /\ ~Busy => victim = NoEvent
  /\ victim \notin held

\* What is in the array knows where it is, and what is held is in the array or
\* carried.
Pointers ==
  /\ \A i \in 0 .. n - 1 : Filled(i) =>
       p[i] \in held /\ index[p[i]] = i /\ ~(Busy /\ p[i] = moving)
  /\ \A e \in held : \/ Busy /\ e = moving
                     \/ index[e] \in 0 .. n - 1 /\ Filled(index[e]) /\ p[index[e]] = e
  /\ \A e \in Events \ held : e # victim => index[e] = -1

\* The events around the hole are in order, also across it.
Ordered ==
  \A i \in 1 .. n - 1 : Filled(i) /\ Filled(Parent(i)) => due[p[Parent(i)]] <= due[p[i]]
Across ==
  Busy /\ hole > 0 => \A i \in 1 .. n - 1 : Parent(i) = hole => due[p[Parent(hole)]] <= due[p[i]]

\* The event that moves up is due before what it leaves below, and the one
\* that moves down after what it leaves above.
Rising ==
  /\ mode = "up" => \A i \in 1 .. n - 1 : Parent(i) = hole => due[moving] <= due[p[i]]
  /\ mode = "first" => hole > 0 /\ due[p[Parent(hole)]] > due[moving]
Sinking ==
  mode = "down" /\ 0 < hole /\ hole < n => due[p[Parent(hole)]] <= due[moving]

HInv == Types /\ Carried /\ Pointers /\ Ordered /\ Across /\ Rising /\ Sinking

-----------------------------------------------------------------------------
(* Indices *)

LEMMA ParentOf ==
  \A i \in Nat : i > 0 =>
    /\ Parent(i) \in Nat /\ Parent(i) < i
    /\ \A h \in Nat : Parent(i) = h <=> i = 2 * h + 1 \/ i = 2 * h + 2
BY DEF Parent

\* A set of indices of an array has a least one.
LEMMA LeastIndex ==
  ASSUME NEW k \in Nat, NEW S \in SUBSET (0 .. k - 1), S # {}
  PROVE  \E m \in S : \A i \in S : m <= i
<1> DEFINE Below(i) == 0 .. i - 1
           T == {Below(i) : i \in S}
           U == 0 .. k - 1
<1>1. IsFiniteSet(U)
  BY FS_Interval
<1>2. IsWellFoundedOn(StrictSubsetOrdering(U), SUBSET U)
  <2> HIDE DEF U
  <2> QED BY <1>1, FS_StrictSubsetOrderingWellFounded, FS_FiniteSubsetsOfFinite
<1>3. T \subseteq SUBSET U /\ T # {}
  <2>1. \A i \in S : Below(i) \in SUBSET U
    OBVIOUS
  <2> HIDE DEF Below, U
  <2> QED BY <2>1
<1>4. PICK t \in T : \A u \in T : ~ (<<u, t>> \in StrictSubsetOrdering(U))
  <2> HIDE DEF T, U
  <2> QED BY <1>2, <1>3, WFMin
<1>5. PICK m \in S : t = Below(m)
  BY <1>4
<1>6. ASSUME NEW i \in S
      PROVE  m <= i
  <2> SUFFICES ASSUME i < m PROVE FALSE
    OBVIOUS
  <2>1. Below(i) \subseteq Below(m)
    OBVIOUS
  <2>2. i \in Below(m) /\ i \notin Below(i)
    OBVIOUS
  <2>3. Below(i) \in T /\ Below(i) \in SUBSET U /\ Below(m) \in SUBSET U
    OBVIOUS
  <2> HIDE DEF Below, U, T
  <2>4. Below(i) # Below(m)
    BY <2>2
  <2>5. <<Below(i), Below(m)>> \in StrictSubsetOrdering(U)
    BY <2>1, <2>3, <2>4 DEF StrictSubsetOrdering
  <2> QED BY <2>3, <2>5, <1>4, <1>5
<1> QED BY <1>6

\* Facts of the idle heap.
LEMMA Idle ==
  ASSUME HInv, mode = "idle"
  PROVE  /\ n \in Nat /\ a \in Nat /\ n <= a
         /\ victim = NoEvent /\ NoEvent \notin Events
         /\ \A i \in 0 .. n - 1 : p[i] \in held /\ index[p[i]] = i /\ p[i] \in Events
         /\ \A e \in held : e \in Events /\ index[e] \in 0 .. n - 1 /\ p[index[e]] = e
         /\ \A e \in Events \ held : index[e] = -1
         /\ \A i \in 1 .. n - 1 : due[p[Parent(i)]] <= due[p[i]]
<1>1. \A i \in 0 .. n - 1 : Filled(i)
  BY DEF Filled, Busy
<1>2. /\ n \in Nat /\ a \in Nat /\ n <= a /\ held \in SUBSET Events
      /\ victim = NoEvent /\ NoEvent \notin Events
  BY HeapAssumption DEF HInv, Types, Carried, Busy
<1>3. /\ \A i \in 0 .. n - 1 : p[i] \in held /\ index[p[i]] = i /\ p[i] \in Events
      /\ \A e \in held : e \in Events /\ index[e] \in 0 .. n - 1 /\ p[index[e]] = e
      /\ \A e \in Events \ held : index[e] = -1
  BY <1>1, <1>2 DEF HInv, Pointers, Busy
<1>4. \A i \in 1 .. n - 1 : Filled(i) /\ Filled(Parent(i))
  BY <1>1, <1>2, ParentOf
<1> QED BY <1>2, <1>3, <1>4 DEF HInv, Ordered

\* The event at the top of an idle heap is due first.
LEMMA TopIsLeast ==
  ASSUME HInv, mode = "idle"
  PROVE  \A e \in held : due[p[0]] <= due[e]
<1> DEFINE S == {i \in 0 .. n - 1 : ~(due[p[0]] <= due[p[i]])}
<1>1. /\ n \in Nat /\ \A i \in 0 .. n - 1 : p[i] \in Events
      /\ \A i \in 1 .. n - 1 : due[p[Parent(i)]] <= due[p[i]]
      /\ \A e \in held : index[e] \in 0 .. n - 1 /\ p[index[e]] = e
  BY Idle
<1>2. \A i \in 0 .. n - 1 : due[p[i]] \in Nat
  BY <1>1 DEF HInv, Types, Times
<1>3. S = {}
  <2> SUFFICES ASSUME S # {} PROVE FALSE
    OBVIOUS
  <2>1. PICK m \in S : \A i \in S : m <= i
    <3>1. S \in SUBSET (0 .. n - 1)
      OBVIOUS
    <3> HIDE DEF S
    <3> QED BY <1>1, <3>1, LeastIndex
  <2>2. m \in 1 .. n - 1
    BY <1>1, <1>2, <2>1
  <2>3. Parent(m) \in 0 .. n - 1 /\ Parent(m) < m
    BY <1>1, <2>2, ParentOf
  <2>4. Parent(m) \notin S
    BY <1>1, <2>1, <2>2, <2>3
  <2>5. due[p[0]] <= due[p[Parent(m)]] /\ due[p[Parent(m)]] <= due[p[m]]
    BY <1>1, <2>2, <2>3, <2>4
  <2>6. due[p[0]] \in Nat /\ due[p[Parent(m)]] \in Nat /\ due[p[m]] \in Nat
    BY <1>1, <1>2, <2>2, <2>3
  <2> QED BY <2>1, <2>5, <2>6
<1> QED BY <1>1, <1>3

-----------------------------------------------------------------------------
(* The operations *)

LEMMA Dues == HInv => \A e \in Events : due[e] \in Nat
BY DEF HInv, Types, Times

\* A larger array keeps its events.
LEMMA Reserved ==
  ASSUME Types, NEW size \in Nat, Reserve(size)
  PROVE  /\ a' \in Nat /\ size <= a'
         /\ p' \in [0 .. a' - 1 -> Events \cup {NoEvent}]
         /\ \A i \in 0 .. a - 1 : p'[i] = p[i]
<1>1. CASE a < size
  <2> DEFINE twice == IF a = 0 THEN FirstA ELSE 2 * a
             new   == IF twice < size THEN size ELSE twice
  <2>1. a' = new /\ p' = [i \in 0 .. new - 1 |-> IF i < a THEN p[i] ELSE NoEvent]
    BY <1>1 DEF Reserve
  <2>2. new \in Nat /\ size <= new
    BY HeapAssumption DEF Types
  <2>3. a < new
    BY <1>1, <2>2 DEF Types
  <2> HIDE DEF new, twice
  <2>4. \A i \in 0 .. new - 1 : (IF i < a THEN p[i] ELSE NoEvent) \in Events \cup {NoEvent}
    BY DEF Types
  <2>5. p' \in [0 .. a' - 1 -> Events \cup {NoEvent}]
    BY <2>1, <2>4
  <2>6. \A i \in 0 .. a - 1 : i \in 0 .. new - 1 /\ i < a
    BY <2>2, <2>3 DEF Types
  <2>7. \A i \in 0 .. a - 1 : p'[i] = p[i]
    BY <2>1, <2>6
  <2> QED BY <2>1, <2>2, <2>5, <2>7
<1>2. CASE ~(a < size)
  BY <1>2 DEF Reserve, Types
<1> QED BY <1>1, <1>2

LEMMA PushStep ==
  ASSUME HInv, NEW e \in Events, NEW when \in Times, Push(e, when)
  PROVE  HInv'
<1>1. /\ mode = "idle" /\ e \notin held
      /\ due' = [due EXCEPT ![e] = when]
      /\ n' = n + 1 /\ mode' = "up" /\ hole' = n /\ moving' = e /\ victim' = NoEvent
      /\ held' = held \cup {e} /\ index' = index
  BY DEF Push
<1>2. /\ n \in Nat /\ a \in Nat /\ n <= a /\ NoEvent \notin Events
      /\ \A i \in 0 .. n - 1 : p[i] \in held /\ index[p[i]] = i /\ p[i] \in Events
      /\ \A f \in held : f \in Events /\ index[f] \in 0 .. n - 1 /\ p[index[f]] = f
      /\ \A f \in Events \ held : index[f] = -1
      /\ \A i \in 1 .. n - 1 : due[p[Parent(i)]] <= due[p[i]]
  BY <1>1, Idle
<1>3. /\ a' \in Nat /\ n' <= a'
      /\ p' \in [0 .. a' - 1 -> Events \cup {NoEvent}]
      /\ \A i \in 0 .. n - 1 : p'[i] = p[i]
  BY <1>1, <1>2, Reserved DEF Push, HInv
<1>4. Types'
  <2>1. due' \in [Events -> Times]
    BY <1>1 DEF HInv, Types
  <2>2. n' \in Nat /\ hole' \in Nat /\ mode' \in Modes /\ held' \in SUBSET Events
    BY <1>1, <1>2 DEF Modes
  <2>3. index' \in [Events -> Int] /\ moving' \in Events \cup {NoEvent}
        /\ victim' \in Events \cup {NoEvent}
    BY <1>1 DEF HInv, Types
  <2> QED BY <1>3, <2>1, <2>2, <2>3 DEF Types
<1>5. Carried'
  <2>1. hole' <= n' /\ hole' < a' /\ hole' < n' /\ moving' # victim'
    BY <1>1, <1>2, <1>3
  <2>2. Busy' /\ moving' \in Events /\ moving' \in held' /\ victim' \notin held'
    BY <1>1, <1>2 DEF HInv, Types, Busy
  <2> QED BY <1>1, <2>1, <2>2 DEF Carried
<1>6. \A i \in 0 .. n : Filled(i)' <=> i \in 0 .. n - 1
  BY <1>1, <1>2 DEF Filled, Busy
<1>7. Pointers'
  <2>1. ASSUME NEW i \in 0 .. n' - 1, Filled(i)'
        PROVE  p'[i] \in held' /\ index'[p'[i]] = i /\ ~(Busy' /\ p'[i] = moving')
    <3>1. i \in 0 .. n - 1
      BY <1>1, <1>2, <1>6, <2>1
    <3>2. p[i] \in held /\ index[p[i]] = i /\ p[i] # e /\ p'[i] = p[i]
      BY <3>1, <1>1, <1>2, <1>3
    <3> QED BY <3>2, <1>1
  <2>2. ASSUME NEW f \in held', f # e
        PROVE  index'[f] \in 0 .. n' - 1 /\ Filled(index[f])' /\ p'[index'[f]] = f
    <3>1. index[f] \in 0 .. n - 1 /\ p[index[f]] = f /\ index'[f] = index[f]
      BY <1>1, <1>2, <2>2
    <3>2. Filled(index[f])'
      BY <3>1, <1>1, <1>2 DEF Filled, Busy
    <3>3. p'[index[f]] = f /\ index[f] \in 0 .. n' - 1
      <4>1. index[f] \in 0 .. n' - 1
        BY <3>1, <1>1, <1>2
      <4> QED BY <3>1, <4>1, <1>3
    <3> QED BY <3>1, <3>2, <3>3
  <2>3. Busy'
    BY <1>1 DEF Busy
  <2>4. \A i \in 0 .. n' - 1 : Filled(i)' =>
          p'[i] \in held' /\ index'[p'[i]] = i /\ ~(Busy' /\ p'[i] = moving')
    BY <2>1
  <2>5. \A f \in held' :
          \/ Busy' /\ f = moving'
          \/ index'[f] \in 0 .. n' - 1 /\ Filled(index[f])' /\ p'[index'[f]] = f
    BY <2>2, <2>3, <1>1
  <2>6. \A f \in Events \ held' : f # victim' => index'[f] = -1
    BY <1>1, <1>2
  <2> QED BY <2>4, <2>5, <2>6 DEF Pointers
<1>8. \A i \in 0 .. n - 1 : p'[i] = p[i] /\ due'[p'[i]] = due[p[i]]
  <2>1. \A i \in 0 .. n - 1 : p[i] # e /\ p[i] \in Events
    BY <1>1, <1>2
  <2> QED BY <2>1, <1>1, <1>3 DEF HInv, Types
<1>9. Ordered'
  <2>1. ASSUME NEW i \in 1 .. n' - 1, Filled(i)'
        PROVE  due'[p'[Parent(i)]] <= due'[p'[i]]
    <3>1. i \in 1 .. n - 1 /\ Parent(i) \in 0 .. n - 1
      BY <1>1, <1>2, <2>1, ParentOf DEF Filled, Busy
    <3> QED BY <3>1, <1>2, <1>8
  <2> QED BY <2>1 DEF Ordered, Parent
<1>10. \A i \in 1 .. n' - 1 : Parent(i) # n
  BY <1>1, <1>2, ParentOf
<1>11. Across' /\ Rising' /\ Sinking'
  BY <1>1, <1>10 DEF Across, Rising, Sinking, Parent
<1> QED BY <1>4, <1>5, <1>7, <1>9, <1>11 DEF HInv

\* An event is taken out of an idle heap, and the last one is to go where it
\* was.
LEMMA TakeStep ==
  ASSUME HInv, NEW e \in held, mode = "idle",
         n' = n - 1, hole' = index[e], moving' = p[n - 1], victim' = e,
         held' = held \ {e}, mode' \in {"first", "down"},
         mode' = "first" <=> index[e] > 0 /\ due[p[Parent(index[e])]] > due[p[n - 1]],
         UNCHANGED <<p, a, index, due>>
  PROVE  HInv'
<1>2. /\ n \in Nat /\ a \in Nat /\ n <= a /\ NoEvent \notin Events
      /\ \A i \in 0 .. n - 1 : p[i] \in held /\ index[p[i]] = i /\ p[i] \in Events
      /\ \A f \in held : f \in Events /\ index[f] \in 0 .. n - 1 /\ p[index[f]] = f
      /\ \A f \in Events \ held : index[f] = -1
      /\ \A i \in 1 .. n - 1 : due[p[Parent(i)]] <= due[p[i]]
  BY Idle
<1>3. /\ e \in Events /\ index[e] \in 0 .. n - 1 /\ p[index[e]] = e
      /\ n - 1 \in 0 .. n - 1 /\ n - 1 \in Nat
      /\ p[n - 1] \in held /\ p[n - 1] \in Events /\ index[p[n - 1]] = n - 1
  BY <1>2
<1>4. Types'
  BY <1>2, <1>3 DEF HInv, Types, Modes
<1>5. index[e] < n - 1 <=> p[n - 1] # e
  BY <1>3
<1>6. mode' = "first" => index[e] < n - 1
  <2> SUFFICES ASSUME mode' = "first", index[e] = n - 1 PROVE FALSE
    BY <1>3
  <2>1. n - 1 \in 1 .. n - 1 /\ due[p[Parent(n - 1)]] > due[p[n - 1]]
    BY <1>3
  <2>2. Parent(n - 1) \in 0 .. n - 1
    BY <2>1, <1>3, ParentOf
  <2> QED BY <2>1, <2>2, <1>2, Dues
<1>7. Carried'
  BY <1>2, <1>3, <1>5, <1>6 DEF HInv, Carried, Busy
<1>8. Pointers'
  <2>1. ASSUME NEW i \in 0 .. n' - 1, Filled(i)'
        PROVE  p'[i] \in held' /\ index'[p'[i]] = i /\ ~(Busy' /\ p'[i] = moving')
    <3>1. i \in 0 .. n - 1 /\ i # index[e] /\ i # n - 1
      BY <2>1, <1>2 DEF Filled, Busy
    <3> QED BY <3>1, <1>2, <1>3
  <2>2. ASSUME NEW f \in held', f # p[n - 1]
        PROVE  index'[f] \in 0 .. n' - 1 /\ Filled(index[f])' /\ p'[index'[f]] = f
    <3>1. f \in held /\ f # e /\ index[f] \in 0 .. n - 1 /\ p[index[f]] = f
      BY <1>2, <2>2
    <3>2. index[f] # n - 1 /\ index[f] # index[e]
      BY <3>1, <2>2, <1>3
    <3>3. index[f] \in 0 .. n' - 1
      BY <3>1, <3>2, <1>2
    <3> QED BY <3>1, <3>2, <3>3 DEF Filled
  <2>3. Busy'
    BY DEF Busy
  <2>4. \A i \in 0 .. n' - 1 : Filled(i)' =>
          p'[i] \in held' /\ index'[p'[i]] = i /\ ~(Busy' /\ p'[i] = moving')
    BY <2>1
  <2>5. \A f \in held' :
          \/ Busy' /\ f = moving'
          \/ index'[f] \in 0 .. n' - 1 /\ Filled(index[f])' /\ p'[index'[f]] = f
    BY <2>2, <2>3
  <2>6. \A f \in Events \ held' : f # victim' => index'[f] = -1
    BY <1>2
  <2> QED BY <2>4, <2>5, <2>6 DEF Pointers
<1>9. Ordered'
  BY <1>2 DEF Ordered, Parent
<1>10. Across'
  <2> SUFFICES ASSUME index[e] > 0, NEW i \in 1 .. n' - 1, Parent(i) = index[e]
               PROVE  due[p[Parent(index[e])]] <= due[p[i]]
    BY DEF Across, Parent
  <2>1. /\ i \in 1 .. n - 1 /\ index[e] \in 1 .. n - 1
        /\ Parent(index[e]) \in 0 .. n - 1
    BY <1>2, <1>3, ParentOf
  <2>2. due[p[Parent(index[e])]] <= due[e] /\ due[e] <= due[p[i]]
    BY <2>1, <1>2, <1>3
  <2> QED BY <2>1, <2>2, <1>2, <1>3, Dues
<1>11. Rising'
  BY DEF Rising, Parent
<1>12. Sinking'
  <2> SUFFICES ASSUME mode' = "down", index[e] > 0
               PROVE  due[p[Parent(index[e])]] <= due[p[n - 1]]
    BY DEF Sinking, Parent
  <2>1. Parent(index[e]) \in 0 .. n - 1
    BY <1>3, ParentOf
  <2> QED BY <2>1, <1>2, <1>3, Dues
<1> QED BY <1>4, <1>7, <1>8, <1>9, <1>10, <1>11, <1>12 DEF HInv

LEMMA PopStep == HInv /\ Pop => HInv'
<1> SUFFICES ASSUME HInv, Pop PROVE HInv'
  OBVIOUS
<1>1. mode = "idle" /\ n > 0
  BY DEF Pop
<1>2. p[0] \in held /\ index[p[0]] = 0
  BY <1>1, Idle
<1> QED BY <1>1, <1>2, TakeStep DEF Pop

LEMMA EraseStep ==
  ASSUME HInv, NEW e \in Events, Erase(e)
  PROVE  HInv'
<1>1. e \in held /\ mode = "idle" /\ UNCHANGED <<p, a, index, due>>
  BY DEF Erase
<1>2. /\ mode' \in {"first", "down"}
      /\ mode' = "first" <=> index[e] > 0 /\ due[p[Parent(index[e])]] > due[p[n - 1]]
  BY <1>1 DEF Erase, Direction
<1> QED BY <1>1, <1>2, TakeStep DEF Erase

LEMMA UpdateStep ==
  ASSUME HInv, NEW e \in Events, NEW when \in Times, Update(e, when)
  PROVE  HInv'
<1>1. /\ mode = "idle" /\ e \in held
      /\ due' = [due EXCEPT ![e] = when]
      /\ hole' = index[e] /\ moving' = e /\ victim' = NoEvent
      /\ UNCHANGED <<p, n, a, index, held>>
      /\ mode' \in {"first", "down"}
      /\ mode' = "first" <=> index[e] > 0 /\ due'[p[Parent(index[e])]] > due'[e]
  BY DEF Update, Direction
<1>2. /\ n \in Nat /\ a \in Nat /\ n <= a /\ NoEvent \notin Events
      /\ \A i \in 0 .. n - 1 : p[i] \in held /\ index[p[i]] = i /\ p[i] \in Events
      /\ \A f \in held : f \in Events /\ index[f] \in 0 .. n - 1 /\ p[index[f]] = f
      /\ \A f \in Events \ held : index[f] = -1
      /\ \A i \in 1 .. n - 1 : due[p[Parent(i)]] <= due[p[i]]
  BY <1>1, Idle
<1>3. index[e] \in 0 .. n - 1 /\ p[index[e]] = e
  BY <1>1, <1>2
<1>4. Types'
  BY <1>1, <1>2, <1>3 DEF HInv, Types, Modes
<1>5. Carried'
  BY <1>1, <1>2, <1>3 DEF HInv, Carried, Busy
<1>6. \A i \in 0 .. n - 1 : i # index[e] => p[i] # e /\ due'[p[i]] = due[p[i]]
  BY <1>1, <1>2 DEF HInv, Types
<1>7. Pointers'
  <2>1. ASSUME NEW i \in 0 .. n' - 1, Filled(i)'
        PROVE  p'[i] \in held' /\ index'[p'[i]] = i /\ ~(Busy' /\ p'[i] = moving')
    <3>1. i \in 0 .. n - 1 /\ i # index[e]
      BY <2>1, <1>1 DEF Filled, Busy
    <3> QED BY <3>1, <1>1, <1>2, <1>6
  <2>2. ASSUME NEW f \in held', f # e
        PROVE  index'[f] \in 0 .. n' - 1 /\ Filled(index[f])' /\ p'[index'[f]] = f
    BY <1>1, <1>2, <1>3, <2>2 DEF Filled
  <2>3. Busy'
    BY <1>1 DEF Busy
  <2>4. \A i \in 0 .. n' - 1 : Filled(i)' =>
          p'[i] \in held' /\ index'[p'[i]] = i /\ ~(Busy' /\ p'[i] = moving')
    BY <2>1
  <2>5. \A f \in held' :
          \/ Busy' /\ f = moving'
          \/ index'[f] \in 0 .. n' - 1 /\ Filled(index[f])' /\ p'[index'[f]] = f
    BY <2>2, <2>3, <1>1
  <2>6. \A f \in Events \ held' : f # victim' => index'[f] = -1
    BY <1>1, <1>2
  <2> QED BY <2>4, <2>5, <2>6 DEF Pointers
<1>8. Ordered'
  <2>1. ASSUME NEW i \in 1 .. n - 1, i # index[e], Parent(i) # index[e]
        PROVE  due'[p[Parent(i)]] <= due'[p[i]]
    <3>1. Parent(i) \in 0 .. n - 1 /\ i \in 0 .. n - 1
      BY <1>2, ParentOf
    <3> QED BY <3>1, <2>1, <1>2, <1>6
  <2> QED BY <2>1, <1>1 DEF Ordered, Filled, Busy, Parent
<1>9. Across'
  <2> SUFFICES ASSUME index[e] > 0, NEW i \in 1 .. n - 1, Parent(i) = index[e]
               PROVE  due'[p[Parent(index[e])]] <= due'[p[i]]
    BY <1>1 DEF Across, Parent
  <2>1. /\ index[e] \in 1 .. n - 1 /\ i \in 0 .. n - 1 /\ i # index[e]
        /\ Parent(index[e]) \in 0 .. n - 1 /\ Parent(index[e]) # index[e]
    BY <1>2, <1>3, ParentOf
  <2>2. due[p[Parent(index[e])]] <= due[e] /\ due[e] <= due[p[i]]
    BY <2>1, <1>2, <1>3
  <2>3. due[p[Parent(index[e])]] <= due[p[i]]
    BY <2>1, <2>2, <1>1, <1>2, Dues
  <2> QED BY <2>1, <2>3, <1>6
<1>10. Rising'
  BY <1>1 DEF Rising, Parent
<1>11. Sinking'
  <2> SUFFICES ASSUME mode' = "down", index[e] > 0
               PROVE  due'[p[Parent(index[e])]] <= due'[e]
    BY <1>1 DEF Sinking, Parent
  <2>1. Parent(index[e]) \in 0 .. n - 1
    BY <1>2, <1>3, ParentOf
  <2>2. due'[p[Parent(index[e])]] \in Nat /\ due'[e] \in Nat
    BY <2>1, <1>2, <1>4 DEF Types, Times
  <2> QED BY <2>2, <1>1
<1> QED BY <1>4, <1>5, <1>7, <1>8, <1>9, <1>10, <1>11 DEF HInv

-----------------------------------------------------------------------------
(* The loops *)

\* Facts of a heap with a hole in it.
LEMMA Holed ==
  ASSUME HInv, Busy, hole < n
  PROVE  /\ n \in Nat /\ a \in Nat /\ n <= a /\ hole \in 0 .. n - 1
         /\ moving \in Events /\ moving \in held /\ moving # victim /\ victim \notin held
         /\ \A i \in 0 .. n - 1 : i # hole =>
              p[i] \in held /\ p[i] \in Events /\ index[p[i]] = i /\ p[i] # moving
         /\ \A f \in held : f # moving =>
              f \in Events /\ index[f] \in 0 .. n - 1 /\ index[f] # hole /\ p[index[f]] = f
         /\ \A f \in Events \ held : f # victim => index[f] = -1
         /\ \A i \in 1 .. n - 1 : i # hole /\ Parent(i) # hole =>
              due[p[Parent(i)]] <= due[p[i]]
<1>1. /\ n \in Nat /\ a \in Nat /\ n <= a /\ hole \in 0 .. n - 1 /\ held \in SUBSET Events
      /\ moving \in Events /\ moving \in held /\ moving # victim /\ victim \notin held
  BY DEF HInv, Types, Carried
<1>2. \A i \in 0 .. n - 1 : Filled(i) <=> i # hole
  BY DEF Filled
<1>3. /\ \A i \in 0 .. n - 1 : i # hole =>
           p[i] \in held /\ p[i] \in Events /\ index[p[i]] = i /\ p[i] # moving
      /\ \A f \in held : f # moving =>
           f \in Events /\ index[f] \in 0 .. n - 1 /\ index[f] # hole /\ p[index[f]] = f
      /\ \A f \in Events \ held : f # victim => index[f] = -1
  BY <1>1, <1>2 DEF HInv, Pointers
<1>4. \A i \in 1 .. n - 1 : i \in 0 .. n - 1 /\ Parent(i) \in 0 .. n - 1
  BY <1>1, ParentOf
<1> QED BY <1>1, <1>2, <1>3, <1>4 DEF HInv, Ordered

\* When an event is pulled into the hole, every pointer is right again.
LEMMA Pulled ==
  ASSUME HInv, Busy, hole < n, NEW j \in 0 .. n - 1, j # hole, Pull(j),
         mode' \in {"up", "down"}
  PROVE  /\ Types' /\ Carried' /\ Pointers'
         /\ \A i \in 0 .. n - 1 : p'[i] = IF i = hole THEN p[j] ELSE p[i]
         /\ UNCHANGED <<n, a, due, moving, victim, held>> /\ hole' = j
<1>1. /\ p' = [p EXCEPT ![hole] = p[j]]
      /\ index' = [index EXCEPT ![p[j]] = hole]
      /\ hole' = j
      /\ UNCHANGED <<n, a, due, moving, victim, held>>
  BY DEF Pull
<1>2. /\ n \in Nat /\ a \in Nat /\ n <= a /\ hole \in 0 .. n - 1
      /\ moving \in Events /\ moving \in held /\ moving # victim /\ victim \notin held
      /\ \A i \in 0 .. n - 1 : i # hole =>
           p[i] \in held /\ p[i] \in Events /\ index[p[i]] = i /\ p[i] # moving
      /\ \A f \in held : f # moving =>
           f \in Events /\ index[f] \in 0 .. n - 1 /\ index[f] # hole /\ p[index[f]] = f
      /\ \A f \in Events \ held : f # victim => index[f] = -1
  BY Holed
<1>3. p[j] \in held /\ p[j] \in Events /\ index[p[j]] = j /\ p[j] # moving
  BY <1>2
<1>4. \A i \in 0 .. n - 1 : p'[i] = IF i = hole THEN p[j] ELSE p[i]
  <2>1. \A i \in 0 .. n - 1 : i \in 0 .. a - 1
    BY <1>2
  <2> QED BY <1>1, <2>1 DEF HInv, Types
<1>5. \A f \in Events : index'[f] = IF f = p[j] THEN hole ELSE index[f]
  BY <1>1 DEF HInv, Types
<1>6. Types'
  <2>1. p' \in [0 .. a - 1 -> Events \cup {NoEvent}]
    BY <1>1, <1>3 DEF HInv, Types
  <2>2. index' \in [Events -> Int]
    BY <1>1, <1>2, <1>3 DEF HInv, Types
  <2>3. hole' \in Nat /\ mode' \in Modes
    BY <1>1, <1>2 DEF Modes
  <2> QED BY <1>1, <2>1, <2>2, <2>3 DEF HInv, Types
<1>7. Carried'
  BY <1>1, <1>2 DEF Carried, Busy
<1>8. \A i \in 0 .. n' - 1 : Filled(i)' =>
        p'[i] \in held' /\ index'[p'[i]] = i /\ ~(Busy' /\ p'[i] = moving')
  <2> SUFFICES ASSUME NEW i \in 0 .. n - 1, i # j
               PROVE  p'[i] \in held /\ index'[p'[i]] = i /\ p'[i] # moving
    BY <1>1 DEF Filled, Busy
  <2>1. CASE i = hole
    BY <2>1, <1>3, <1>4, <1>5
  <2>2. CASE i # hole
    <3>1. p[i] # p[j]
      BY <2>2, <1>2, <1>3
    <3> QED BY <2>2, <3>1, <1>2, <1>4, <1>5
  <2> QED BY <2>1, <2>2
<1>9. \A f \in held' :
        \/ Busy' /\ f = moving'
        \/ index'[f] \in 0 .. n' - 1 /\ Filled(index[f])' /\ p'[index'[f]] = f
  <2> SUFFICES ASSUME NEW f \in held, f # moving
               PROVE  index'[f] \in 0 .. n - 1 /\ index'[f] # j /\ p'[index'[f]] = f
    BY <1>1 DEF Filled, Busy
  <2>1. f \in Events /\ index[f] \in 0 .. n - 1 /\ index[f] # hole /\ p[index[f]] = f
    BY <1>2
  <2>2. CASE f = p[j]
    BY <2>2, <1>2, <1>3, <1>4, <1>5
  <2>3. CASE f # p[j]
    BY <2>1, <2>3, <1>4, <1>5
  <2> QED BY <2>2, <2>3
<1>10. \A f \in Events \ held' : f # victim' => index'[f] = -1
  BY <1>1, <1>2, <1>3, <1>5
<1>11. Pointers'
  BY <1>8, <1>9, <1>10 DEF Pointers
<1> QED BY <1>1, <1>4, <1>6, <1>7, <1>11

LEMMA PullUp ==
  ASSUME HInv, mode \in {"first", "up"}, hole > 0,
         due[p[Parent(hole)]] > due[moving],
         Pull(Parent(hole)), mode' = "up"
  PROVE  HInv'
<1> DEFINE j == Parent(hole)
<1>1. Busy /\ hole < n
  BY DEF Busy, HInv, Carried
<1>2. /\ n \in Nat /\ hole \in 1 .. n - 1
      /\ moving \in Events
      /\ \A i \in 0 .. n - 1 : i # hole => p[i] \in Events
      /\ \A i \in 1 .. n - 1 : i # hole /\ Parent(i) # hole =>
           due[p[Parent(i)]] <= due[p[i]]
  BY <1>1, Holed
<1>3. j \in 0 .. n - 1 /\ j < hole /\ j # hole
  BY <1>2, ParentOf
<1>4. /\ Types' /\ Carried' /\ Pointers'
      /\ \A i \in 0 .. n - 1 : p'[i] = IF i = hole THEN p[j] ELSE p[i]
      /\ UNCHANGED <<n, a, due, moving, victim, held>> /\ hole' = j
  BY <1>1, <1>3, Pulled
<1>5. \A i \in 1 .. n - 1 : Parent(i) = hole => due[p[j]] <= due[p[i]]
  BY <1>1, <1>2 DEF HInv, Across
<1>6. \A i \in 1 .. n - 1 : Parent(i) \in 0 .. n - 1 /\ i \in 0 .. n - 1 /\ Parent(i) # i
  BY <1>2, ParentOf
<1> HIDE DEF j
<1>7. Ordered'
  <2> SUFFICES ASSUME NEW i \in 1 .. n - 1, i # j, Parent(i) # j
               PROVE  due[p'[Parent(i)]] <= due[p'[i]]
    BY <1>4 DEF Ordered, Filled, Busy, Parent
  <2>1. i # hole
    BY DEF j
  <2>2. CASE Parent(i) = hole
    BY <2>1, <2>2, <1>4, <1>5, <1>6
  <2>3. CASE Parent(i) # hole
    BY <2>1, <2>3, <1>2, <1>4, <1>6
  <2> QED BY <2>2, <2>3
<1>8. due[p[j]] \in Nat /\ due[moving] \in Nat /\ due[p[j]] > due[moving]
  BY <1>2, <1>3, Dues DEF j
<1>9. Across'
  <2> SUFFICES ASSUME j > 0, NEW i \in 1 .. n - 1, Parent(i) = j
               PROVE  due[p'[Parent(j)]] <= due[p'[i]]
    BY <1>4 DEF Across, Parent
  <2>1. j \in 1 .. n - 1 /\ Parent(j) \in 0 .. n - 1 /\ Parent(j) < j
    BY <1>2, <1>3, ParentOf
  <2>2. Parent(j) # hole
    BY <2>1, <1>2, <1>3
  <2>3. due[p[Parent(j)]] <= due[p[j]] /\ p'[Parent(j)] = p[Parent(j)]
    BY <2>1, <2>2, <1>2, <1>3, <1>4
  <2>4. CASE i = hole
    BY <2>3, <2>4, <1>4, <1>6
  <2>5. CASE i # hole
    <3>1. due[p[j]] <= due[p[i]] /\ p'[i] = p[i]
      BY <2>5, <1>2, <1>3, <1>4, <1>6
    <3>2. due[p[Parent(j)]] \in Nat /\ due[p[i]] \in Nat
      BY <2>1, <2>2, <2>5, <1>2, <1>6, Dues
    <3> QED BY <2>3, <3>1, <3>2, <1>8
  <2> QED BY <2>4, <2>5
<1>10. Rising'
  <2> SUFFICES ASSUME NEW i \in 1 .. n - 1, Parent(i) = j
               PROVE  due[moving] <= due[p'[i]]
    BY <1>4 DEF Rising, Parent
  <2>1. CASE i = hole
    BY <2>1, <1>4, <1>6, <1>8
  <2>2. CASE i # hole
    <3>1. due[p[j]] <= due[p[i]] /\ p'[i] = p[i]
      BY <2>2, <1>2, <1>3, <1>4, <1>6
    <3>2. due[p[i]] \in Nat
      BY <2>2, <1>2, <1>6, Dues
    <3> QED BY <3>1, <3>2, <1>8
  <2> QED BY <2>1, <2>2
<1>11. Sinking'
  BY DEF Sinking
<1> QED BY <1>4, <1>7, <1>9, <1>10, <1>11 DEF HInv

\* What MinChild chooses.
LEMMA Child ==
  ASSUME HInv, Busy, hole < n, Right <= n
  PROVE  /\ MinChild \in 1 .. n - 1 /\ Parent(MinChild) = hole
         /\ \A i \in 1 .. n - 1 : Parent(i) = hole => due[p[MinChild]] <= due[p[i]]
<1>1. /\ n \in Nat /\ hole \in 0 .. n - 1
      /\ \A i \in 0 .. n - 1 : i # hole => p[i] \in Events
  BY Holed
<1>2. \A i \in 1 .. n - 1 : Parent(i) = hole <=> i = Right - 1 \/ i = Right
  BY <1>1, ParentOf DEF Right
<1>3. Right - 1 \in 1 .. n - 1 /\ Right - 1 # hole /\ Right # hole
  BY <1>1 DEF Right
<1>4. due[p[Right - 1]] \in Nat
  BY <1>1, <1>3, Dues
<1>5. CASE Right = n
  <2>1. MinChild = Right - 1
    BY <1>5 DEF MinChild
  <2>2. \A i \in 1 .. n - 1 : Parent(i) = hole => i = Right - 1
    BY <1>1, <1>2, <1>5
  <2> QED BY <2>1, <2>2, <1>2, <1>3, <1>4
<1>6. CASE Right # n
  <2>1. Right \in 1 .. n - 1
    BY <1>1, <1>3, <1>6 DEF Right
  <2>2. due[p[Right]] \in Nat
    BY <2>1, <1>1, <1>3, Dues
  <2>3. MinChild = IF due[p[Right]] > due[p[Right - 1]] THEN Right - 1 ELSE Right
    BY <1>6 DEF MinChild, Greater
  <2> QED BY <2>1, <2>2, <2>3, <1>2, <1>3, <1>4
<1> QED BY <1>5, <1>6

LEMMA PullDown ==
  ASSUME HInv, mode = "down", Sinks, Pull(MinChild), mode' = "down"
  PROVE  HInv'
<1> DEFINE j == MinChild
<1>1. Right <= n /\ due[moving] > due[p[j]]
  BY DEF Sinks, Greater
<1>2. Busy /\ hole < n
  BY <1>1 DEF Busy, HInv, Types, Right
<1>3. /\ n \in Nat /\ hole \in 0 .. n - 1
      /\ moving \in Events
      /\ \A i \in 0 .. n - 1 : i # hole => p[i] \in Events
      /\ \A i \in 1 .. n - 1 : i # hole /\ Parent(i) # hole =>
           due[p[Parent(i)]] <= due[p[i]]
  BY <1>2, Holed
<1>4. /\ j \in 1 .. n - 1 /\ Parent(j) = hole
      /\ \A i \in 1 .. n - 1 : Parent(i) = hole => due[p[j]] <= due[p[i]]
  BY <1>1, <1>2, Child
<1>5. j \in 0 .. n - 1 /\ j # hole /\ hole < j
  BY <1>3, <1>4, ParentOf
<1>6. /\ Types' /\ Carried' /\ Pointers'
      /\ \A i \in 0 .. n - 1 : p'[i] = IF i = hole THEN p[j] ELSE p[i]
      /\ UNCHANGED <<n, a, due, moving, victim, held>> /\ hole' = j
  BY <1>2, <1>5, Pulled
<1>7. hole > 0 => due[p[Parent(hole)]] <= due[p[j]]
  BY <1>2, <1>3, <1>4 DEF HInv, Across
<1>8. \A i \in 1 .. n - 1 : Parent(i) \in 0 .. n - 1 /\ i \in 0 .. n - 1 /\ Parent(i) < i
  BY <1>3, ParentOf
<1>9. due[p[j]] \in Nat /\ due[moving] \in Nat /\ due[moving] > due[p[j]]
  BY <1>1, <1>3, <1>5, Dues
<1> HIDE DEF j
<1>10. Ordered'
  <2> SUFFICES ASSUME NEW i \in 1 .. n - 1, i # j, Parent(i) # j
               PROVE  due[p'[Parent(i)]] <= due[p'[i]]
    BY <1>6 DEF Ordered, Filled, Busy, Parent
  <2>1. CASE i = hole
    <3>1. hole > 0 /\ Parent(hole) # hole /\ Parent(hole) \in 0 .. n - 1
      BY <2>1, <1>8
    <3> QED BY <2>1, <3>1, <1>3, <1>6, <1>7
  <2>2. CASE i # hole /\ Parent(i) = hole
    BY <2>2, <1>4, <1>6, <1>8
  <2>3. CASE i # hole /\ Parent(i) # hole
    BY <2>3, <1>3, <1>6, <1>8
  <2> QED BY <2>1, <2>2, <2>3
<1>11. Across'
  <2> SUFFICES ASSUME NEW i \in 1 .. n - 1, Parent(i) = j
               PROVE  due[p'[hole]] <= due[p'[i]]
    <3>1. Parent(hole') = hole
      BY <1>4, <1>6
    <3> QED BY <3>1, <1>6 DEF Across, Parent
  <2>1. i # hole
    BY <1>5, <1>8
  <2>2. due[p[j]] <= due[p[i]]
    BY <2>1, <1>3, <1>5
  <2> QED BY <2>1, <2>2, <1>3, <1>6
<1>12. Rising'
  BY DEF Rising
<1>13. Sinking'
  <2>1. Parent(hole') = hole /\ p'[hole] = p[j]
    BY <1>3, <1>4, <1>6
  <2>2. due'[p'[hole]] <= due'[moving']
    BY <2>1, <1>6, <1>9
  <2> QED BY <2>1, <2>2, <1>6 DEF Sinking, Parent
<1> QED BY <1>6, <1>10, <1>11, <1>12, <1>13 DEF HInv

\* The event that moves fits in the hole.
LEMMA Fitting ==
  ASSUME HInv, Busy, hole < n, mode # "first", mode = "up" => ~Rises, mode = "down" => ~Sinks
  PROVE  /\ hole > 0 => due[p[Parent(hole)]] <= due[moving]
         /\ \A i \in 1 .. n - 1 : Parent(i) = hole => due[moving] <= due[p[i]]
<1>1. /\ n \in Nat /\ hole \in 0 .. n - 1
      /\ moving \in Events
      /\ \A i \in 0 .. n - 1 : i # hole => p[i] \in Events
  BY Holed
<1>2. mode \in {"up", "down"}
  BY DEF HInv, Types, Modes, Busy
<1>3. \A i \in 1 .. n - 1 : i \in 0 .. n - 1 /\ (Parent(i) = hole => i # hole)
  BY <1>1, ParentOf
<1>4. hole > 0 => due[p[Parent(hole)]] \in Nat /\ due[moving] \in Nat
  <2>1. hole > 0 => Parent(hole) \in 0 .. n - 1 /\ Parent(hole) # hole
    BY <1>1, ParentOf
  <2> QED BY <2>1, <1>1, Dues
<1>5. CASE mode = "up"
  BY <1>5, <1>4 DEF Rises, Greater, HInv, Rising
<1>6. CASE mode = "down"
  <2>1. hole > 0 => due[p[Parent(hole)]] <= due[moving]
    BY <1>6, <1>1 DEF HInv, Sinking
  <2>2. CASE Right > n
    <3>1. \A i \in 1 .. n - 1 : Parent(i) # hole
      BY <2>2, <1>1, ParentOf DEF Right
    <3> QED BY <2>1, <3>1
  <2>3. CASE Right <= n
    <3>1. ~(due[moving] > due[p[MinChild]])
      BY <2>3, <1>6 DEF Sinks, Greater
    <3>2. /\ MinChild \in 1 .. n - 1 /\ Parent(MinChild) = hole
          /\ \A i \in 1 .. n - 1 : Parent(i) = hole => due[p[MinChild]] <= due[p[i]]
      BY <2>3, Child
    <3>3. due[moving] \in Nat /\ due[p[MinChild]] \in Nat
      BY <3>2, <1>1, <1>3, Dues
    <3>4. ASSUME NEW i \in 1 .. n - 1, Parent(i) = hole
          PROVE  due[moving] <= due[p[i]]
      <4>1. due[p[i]] \in Nat /\ due[p[MinChild]] <= due[p[i]]
        BY <3>2, <3>4, <1>1, <1>3, Dues
      <4> QED BY <4>1, <3>1, <3>3
    <3> QED BY <2>1, <3>4
  <2>4. Right > n \/ Right <= n
    BY <1>1 DEF Right
  <2> QED BY <2>2, <2>3, <2>4
<1> QED BY <1>2, <1>5, <1>6

LEMMA PlaceStep ==
  ASSUME HInv, Busy, Place, mode # "first",
         mode = "up" => ~Rises, mode = "down" => ~Sinks
  PROVE  HInv'
<1>1. /\ p' = [p EXCEPT ![hole] = moving]
      /\ index' = [f \in Events |-> IF f = victim THEN -1
                                    ELSE IF f = moving THEN hole ELSE index[f]]
      /\ mode' = "idle" /\ hole' = 0 /\ moving' = NoEvent /\ victim' = NoEvent
      /\ due' = [f \in Events |-> IF f = victim THEN 0 ELSE due[f]]
      /\ UNCHANGED <<n, a, held>>
  BY DEF Place, Leave
<1>2. /\ n \in Nat /\ a \in Nat /\ n <= a /\ hole \in Nat /\ hole <= n /\ hole < a
      /\ moving \in Events /\ held \in SUBSET Events /\ victim \notin held
      /\ NoEvent \notin Events
      /\ hole < n <=> moving # victim
  BY HeapAssumption DEF HInv, Types, Carried
<1>3. Types'
  <2>1. p' \in [0 .. a - 1 -> Events \cup {NoEvent}]
    BY <1>1, <1>2 DEF HInv, Types
  <2>2. index' \in [Events -> Int]
    BY <1>1, <1>2 DEF HInv, Types
  <2>3. due' \in [Events -> Times]
    BY <1>1, HeapAssumption DEF HInv, Types, Times
  <2> QED BY <1>1, <1>2, <2>1, <2>2, <2>3 DEF Types, Modes
<1>4. Carried'
  BY <1>1, <1>2 DEF Carried, Busy
<1>5. \A f \in held : due'[f] = due[f]
  BY <1>1, <1>2
<1>6. Across' /\ Rising' /\ Sinking'
  BY <1>1 DEF Across, Rising, Sinking, Busy
<1>7. \A i \in 0 .. n - 1 : Filled(i)'
  BY <1>1 DEF Filled, Busy
<1>8. \A i \in 1 .. n - 1 : i \in 0 .. n - 1 /\ Parent(i) \in 0 .. n - 1 /\ Parent(i) # i
  BY <1>2, ParentOf
<1>9. SUFFICES
        /\ \A i \in 0 .. n - 1 : p'[i] \in held /\ index'[p'[i]] = i
        /\ \A f \in held : index'[f] \in 0 .. n - 1 /\ p'[index'[f]] = f
        /\ \A f \in Events \ held : index'[f] = -1
        /\ \A i \in 1 .. n - 1 : due[p'[Parent(i)]] <= due[p'[i]]
  <2> SUFFICES ASSUME
        /\ \A i \in 0 .. n - 1 : p'[i] \in held /\ index'[p'[i]] = i
        /\ \A f \in held : index'[f] \in 0 .. n - 1 /\ p'[index'[f]] = f
        /\ \A f \in Events \ held : index'[f] = -1
        /\ \A i \in 1 .. n - 1 : due[p'[Parent(i)]] <= due[p'[i]]
               PROVE HInv'
    OBVIOUS
  <2>1. Pointers'
    BY <1>1 DEF Pointers, Filled, Busy
  <2>2. Ordered'
    <3> SUFFICES ASSUME NEW i \in 1 .. n - 1
                 PROVE  due'[p'[Parent(i)]] <= due'[p'[i]]
      BY <1>1 DEF Ordered, Parent
    <3> QED BY <1>5, <1>8
  <2> QED BY <2>1, <2>2, <1>3, <1>4, <1>6 DEF HInv
<1>10. CASE hole < n
  <2>1. /\ moving \in held /\ moving # victim
        /\ \A i \in 0 .. n - 1 : i # hole =>
             p[i] \in held /\ p[i] \in Events /\ index[p[i]] = i /\ p[i] # moving
        /\ \A f \in held : f # moving =>
             f \in Events /\ index[f] \in 0 .. n - 1 /\ index[f] # hole /\ p[index[f]] = f
        /\ \A f \in Events \ held : f # victim => index[f] = -1
        /\ \A i \in 1 .. n - 1 : i # hole /\ Parent(i) # hole =>
             due[p[Parent(i)]] <= due[p[i]]
    BY <1>10, Holed
  <2>2. \A i \in 0 .. n - 1 : p'[i] = IF i = hole THEN moving ELSE p[i]
    <3>1. \A i \in 0 .. n - 1 : i \in 0 .. a - 1
      BY <1>2
    <3> QED BY <3>1, <1>1 DEF HInv, Types
  <2>3. ASSUME NEW i \in 0 .. n - 1
        PROVE  p'[i] \in held /\ index'[p'[i]] = i
    <3>1. CASE i = hole
      BY <3>1, <2>1, <2>2, <1>1, <1>2
    <3>2. CASE i # hole
      <4>1. p[i] \in held /\ p[i] \in Events /\ index[p[i]] = i /\ p[i] # moving /\ p[i] # victim
        BY <3>2, <2>1, <1>2
      <4> QED BY <3>2, <4>1, <2>2, <1>1
    <3> QED BY <3>1, <3>2
  <2>4. ASSUME NEW f \in held
        PROVE  index'[f] \in 0 .. n - 1 /\ p'[index'[f]] = f
    <3>1. CASE f = moving
      <4>1. index'[f] = hole /\ hole \in 0 .. n - 1
        BY <3>1, <2>1, <1>1, <1>2, <1>10
      <4> QED BY <3>1, <4>1, <2>2
    <3>2. CASE f # moving
      <4>1. /\ f \in Events /\ f # victim
            /\ index[f] \in 0 .. n - 1 /\ index[f] # hole /\ p[index[f]] = f
        BY <3>2, <2>1, <1>2
      <4>2. index'[f] = index[f]
        BY <3>2, <4>1, <1>1
      <4> QED BY <4>1, <4>2, <2>2
    <3> QED BY <3>1, <3>2
  <2>5. \A f \in Events \ held : index'[f] = -1
    BY <2>1, <1>1
  <2>6. /\ hole > 0 => due[p[Parent(hole)]] <= due[moving]
        /\ \A i \in 1 .. n - 1 : Parent(i) = hole => due[moving] <= due[p[i]]
    BY <1>10, Fitting
  <2>7. ASSUME NEW i \in 1 .. n - 1
        PROVE  due[p'[Parent(i)]] <= due[p'[i]]
    <3>1. CASE i = hole
      BY <3>1, <2>2, <2>6, <1>8
    <3>2. CASE Parent(i) = hole
      BY <3>2, <2>2, <2>6, <1>8
    <3>3. CASE i # hole /\ Parent(i) # hole
      BY <3>3, <2>1, <2>2, <1>8
    <3> QED BY <3>1, <3>2, <3>3
  <2> QED BY <2>3, <2>4, <2>5, <2>7
<1>11. CASE ~(hole < n)
  <2>1. hole = n /\ moving = victim
    BY <1>2, <1>11
  <2>2. \A i \in 0 .. n - 1 : Filled(i)
    BY <2>1, <1>2 DEF Filled
  <2>3. /\ \A i \in 0 .. n - 1 : p[i] \in held /\ index[p[i]] = i
        /\ \A f \in held : index[f] \in 0 .. n - 1 /\ p[index[f]] = f
        /\ \A f \in Events \ held : f # victim => index[f] = -1
    BY <2>1, <2>2, <1>2 DEF HInv, Pointers
  <2>4. \A i \in 1 .. n - 1 : due[p[Parent(i)]] <= due[p[i]]
    BY <2>2, <1>8 DEF HInv, Ordered
  <2>5. \A i \in 0 .. n - 1 : p'[i] = p[i]
    <3>1. \A i \in 0 .. n - 1 : i \in 0 .. a - 1 /\ i # hole
      BY <2>1, <1>2
    <3> QED BY <3>1, <1>1 DEF HInv, Types
  <2>6. \A f \in held : index'[f] = index[f]
    BY <2>1, <1>1, <1>2
  <2>7. \A f \in Events \ held : index'[f] = -1
    BY <2>1, <2>3, <1>1
  <2>8. \A i \in 1 .. n - 1 : due[p'[Parent(i)]] <= due[p'[i]]
    BY <2>4, <2>5, <1>8
  <2>9. \A i \in 0 .. n - 1 : p'[i] \in held /\ index'[p'[i]] = i
    BY <2>3, <2>5, <2>6
  <2>10. \A f \in held : index'[f] \in 0 .. n - 1 /\ p'[index'[f]] = f
    BY <2>3, <2>5, <2>6
  <2> QED BY <2>7, <2>8, <2>9, <2>10
<1> QED BY <1>10, <1>11

LEMMA HInvInit == Init => HInv
<1> SUFFICES ASSUME Init PROVE HInv
  OBVIOUS
<1>1. p \in [0 .. -1 -> Events \cup {NoEvent}]
  BY DEF Init
<1>2. Types
  BY <1>1, HeapAssumption DEF Init, Types, Times, Modes
<1>3. \A i \in 0 .. n - 1 : FALSE
  BY DEF Init
<1> QED BY <1>2, <1>3 DEF Init, HInv, Carried, Pointers, Ordered, Across, Rising, Sinking, Busy

LEMMA HInvStep == HInv /\ [Next]_vars => HInv'
<1> SUFFICES ASSUME HInv, [Next]_vars PROVE HInv'
  OBVIOUS
<1>1. CASE Pop
  BY <1>1, PopStep
<1>2. ASSUME NEW e \in Events, Erase(e) PROVE HInv'
  BY <1>2, EraseStep
<1>3. ASSUME NEW e \in Events, NEW when \in Times, Push(e, when) \/ Update(e, when)
      PROVE  HInv'
  BY <1>3, PushStep, UpdateStep
<1>4. CASE ShiftUp
  <2>1. CASE mode = "first" /\ Pull(Parent(hole)) /\ mode' = "up"
    BY <2>1, PullUp DEF HInv, Rising
  <2>2. CASE mode = "up" /\ Rises /\ Pull(Parent(hole)) /\ UNCHANGED mode
    BY <2>2, PullUp DEF Rises, Greater
  <2>3. CASE mode = "up" /\ ~Rises /\ Place
    BY <2>3, PlaceStep DEF Busy
  <2> QED BY <1>4, <2>1, <2>2, <2>3 DEF ShiftUp
<1>5. CASE ShiftDown
  <2>1. CASE Sinks /\ Pull(MinChild) /\ UNCHANGED mode
    BY <1>5, <2>1, PullDown DEF ShiftDown
  <2>2. CASE ~Sinks /\ Place
    BY <1>5, <2>2, PlaceStep DEF ShiftDown, Busy
  <2> QED BY <1>5, <2>1, <2>2 DEF ShiftDown
<1>6. CASE UNCHANGED vars
  BY <1>6 DEF vars, array, shift, HInv, Types, Carried, Pointers, Ordered, Across, Rising,
              Sinking, Busy, Filled, Parent
<1> QED BY <1>1, <1>2, <1>3, <1>4, <1>5, <1>6 DEF Next

LEMMA HeapInvariance == Spec => []HInv
BY HInvInit, HInvStep, PTL DEF Spec

\* Every variable has its type: every loop and every growth of the array leaves
\* it as long as a says, and Pop returns an event or nothing.
THEOREM HeapTypes == Spec => []TypeOK
<1> DEFINE Returned == popped \in Events \cup {NoEvent}
<1>1. Init => Returned
  BY DEF Init
<1>2. HInv /\ Returned /\ [Next]_vars => Returned'
  <2> SUFFICES ASSUME HInv, Returned, [Next]_vars PROVE Returned'
    OBVIOUS
  <2>1. CASE Pop
    <3>1. popped' = p[0]
      BY <2>1 DEF Pop
    <3>2. 0 \in 0 .. a - 1
      BY <2>1 DEF Pop, HInv, Types
    <3> QED BY <3>1, <3>2 DEF HInv, Types
  <2>2. CASE \E e \in Events : Erase(e)
    BY <2>2 DEF Erase
  <2>3. CASE \E e \in Events, when \in Times : Push(e, when) \/ Update(e, when)
    BY <2>3 DEF Push, Update
  <2>4. CASE ShiftUp \/ ShiftDown
    BY <2>4 DEF ShiftUp, ShiftDown, Pull, Place, Leave
  <2>5. CASE UNCHANGED vars
    BY <2>5 DEF vars
  <2> QED BY <2>1, <2>2, <2>3, <2>4, <2>5 DEF Next
<1>3. HInv /\ Returned => TypeOK
  BY DEF HInv, Types, TypeOK
<1> QED BY <1>1, <1>2, <1>3, HInvInit, HeapInvariance, PTL DEF Spec

\* After every operation no event is due before its parent.
THEOREM HeapOrdered == Spec => []HeapOrder
<1>1. HInv => HeapOrder
  BY Idle DEF HeapOrder
<1> QED BY <1>1, HeapInvariance, PTL

\* After every operation the array holds exactly the events added and not
\* taken out, each where its min_heap_idx says.
THEOREM HeapPointers == Spec => []BackPointers
<1>1. HInv => BackPointers
  <2> SUFFICES ASSUME HInv, mode = "idle" PROVE BackPointers
    BY DEF BackPointers
  <2>1. /\ n <= a
        /\ \A i \in 0 .. n - 1 : p[i] \in held /\ index[p[i]] = i
        /\ \A e \in held : index[e] \in 0 .. n - 1 /\ p[index[e]] = e
        /\ \A e \in Events \ held : index[e] = -1
    BY Idle
  <2>2. held = {p[i] : i \in 0 .. n - 1}
    BY <2>1
  <2> QED BY <2>1, <2>2 DEF BackPointers
<1> QED BY <1>1, HeapInvariance, PTL

\* No step of an operation leaves the array.
THEOREM HeapInArray == Spec => []InArray
<1>1. HInv => InArray
  BY DEF HInv, Types, Carried, Busy, InArray
<1> QED BY <1>1, HeapInvariance, PTL

-----------------------------------------------------------------------------
(* The heap is a TimerQueue *)

LEMMA QueueInit == Init => Queue!Init
<1> SUFFICES ASSUME Init PROVE Queue!Init
  OBVIOUS
<1>1. held = {} /\ popped = NoEvent
  BY DEF Init
<1>2. [e \in held |-> due[e]] = [e \in {} |-> 0]
  BY <1>1
<1> QED BY <1>1, <1>2 DEF Queue!Init

LEMMA QueueStep == HInv /\ [Next]_vars => [Queue!Next]_Queue!vars
<1> SUFFICES ASSUME HInv, [Next]_vars PROVE [Queue!Next]_Queue!vars
  OBVIOUS
<1>1. CASE Pop
  <2>1. /\ mode = "idle" /\ n > 0 /\ held' = held \ {p[0]} /\ popped' = p[0] /\ due' = due
    BY <1>1 DEF Pop
  <2>2. p[0] \in held /\ held \in SUBSET Events
    BY <2>1, Idle DEF HInv, Types
  <2>3. \A e \in held : ~(due[p[0]] > due[e])
    BY <2>1, <2>2, TopIsLeast, Dues
  <2>4. Queue!Earliest(p[0])
    BY <2>2, <2>3 DEF Queue!Earliest, Queue!held, Later
  <2>5. [e \in held' |-> due'[e]] = Queue!Without(p[0])
    BY <2>1 DEF Queue!Without, Queue!held
  <2> QED BY <2>1, <2>2, <2>4, <2>5 DEF Queue!Next, Queue!Pop, Queue!held
<1>2. ASSUME NEW e \in Events, Erase(e)
      PROVE  Queue!Next
  <2>1. e \in held /\ held' = held \ {e} /\ popped' = NoEvent /\ due' = due
    BY <1>2 DEF Erase
  <2>2. [f \in held' |-> due'[f]] = Queue!Without(e)
    BY <2>1 DEF Queue!Without, Queue!held
  <2> QED BY <2>1, <2>2 DEF Queue!Next, Queue!Remove, Queue!held
<1>3. ASSUME NEW e \in Events, NEW when \in Times, Push(e, when) \/ Update(e, when)
      PROVE  Queue!Next
  <2>1. held' = held \cup {e} /\ popped' = NoEvent /\ due' = [due EXCEPT ![e] = when]
    BY <1>3 DEF Push, Update
  <2>2. \A f \in held' : due'[f] = IF f = e THEN when ELSE due[f]
    BY <2>1 DEF HInv, Types
  <2>3. [f \in held' |-> due'[f]]
          = [f \in held \cup {e} |-> IF f = e THEN when ELSE [g \in held |-> due[g]][f]]
    BY <2>1, <2>2
  <2>4. Queue!Set(e, when)
    BY <2>1, <2>3 DEF Queue!Set, Queue!held
  <2> QED BY <2>4 DEF Queue!Next
<1>4. CASE ShiftUp \/ ShiftDown
  <2>1. /\ held' = held /\ popped' = popped
        /\ due' = due \/ due' = [e \in Events |-> IF e = victim THEN 0 ELSE due[e]]
    BY <1>4 DEF ShiftUp, ShiftDown, Pull, Place, Leave
  <2>2. held \in SUBSET Events /\ victim \notin held
    BY DEF HInv, Types, Carried
  <2>3. \A e \in held : due'[e] = due[e]
    BY <2>1, <2>2
  <2> QED BY <2>1, <2>3 DEF Queue!vars
<1>5. CASE UNCHANGED vars
  BY <1>5 DEF vars, Queue!vars
<1> QED BY <1>1, <1>2, <1>3, <1>4, <1>5 DEF Next

\* The heap is a queue that gives back an event due first, and loses or keeps
\* no event wrongly.
THEOREM HeapIsQueue == Spec => IsQueue
BY QueueInit, QueueStep, HeapInvariance, PTL DEF Spec, IsQueue, Queue!Spec

=============================================================================
