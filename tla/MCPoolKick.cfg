CONSTANTS
  NListeners = 1
  N = 2
  PoolLimit = 2
  RecycleWait = 2
  MaxHold = 1
  Fds = {f1, f2}
  Clients = {k1, k2}
  Workers = {w1}
  Kickers = {w1}
  Epoll = epoll
  Sender = sender
  NoFd = NoFd
  NoClient = NoClient
SPECIFICATION Spec
CHECK_DEADLOCK FALSE
SYMMETRY Symmetry
INVARIANTS
  PoolPartition
  OnlineCount
  GracePeriod
  Ownership
  OwnDescriptor
