CONSTANTS
  Conns = {c1, c2, c3}
  NoConn = NoConn
  Events = {e1, e2, e3}
  NoEvent = NoEvent
  Workers = {}
  Epoll = Epoll
  wait_time_ = 2
  recycle_connection_wait_time_ = 5
  MaxHold = 1
SPECIFICATION Spec
PROPERTIES
  RemovesOwn
