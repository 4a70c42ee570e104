CONSTANTS
  Events = {e1, e2, e3, e4, e5, e6}
  NoEvent = NoEvent
  MaxTime = 2
  FirstA = 2
SPECIFICATION Spec
SYMMETRY Symmetry
INVARIANTS
  BackPointers
  HeapOrder
  InArray
PROPERTY IsQueue
