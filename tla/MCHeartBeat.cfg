CONSTANTS
  Conns = {c1, c2}
  NoConn = NoConn
  Events = {e1, e2, e3}
  NoEvent = NoEvent
  Workers = {w1}
  Epoll = Epoll
  wait_time_ = 3
  recycle_connection_wait_time_ = 8
  MaxHold = 2
SYMMETRY Symmetry
SPECIFICATION Spec
INVARIANTS
  WakesInTime
  TimersNotInherited
  KickOnlySilent
  ClosedInTime
