CONSTANTS
  NListeners = 1
  N = 1
  PoolLimit = 2
  RecycleWait = 2
  MaxHold = 1
  Fds = {f1, f2}
  Clients = {k1, k2}
  Workers = {w1}
  Kickers = {}
  Epoll = epoll
  Sender = sender
  NoFd = NoFd
  NoClient = NoClient
SPECIFICATION FairSpec
CHECK_DEADLOCK FALSE
INVARIANTS
  ReplyReachesAsker
PROPERTY Released
