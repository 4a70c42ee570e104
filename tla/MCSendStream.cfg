CONSTANTS
  Connections = {c1}
  Workers = {w1, w2}
  Epoll = epoll
  Sender = sender
  Nobody = Nobody
  NoMsg = NoMsg
  Size = 2
  QLimit = 1
  SLimit = 0
  MaxAsk = 2
  MaxSeq = 5
  Leaving = {"gone"}
  ifkickTimeCount = TRUE
SPECIFICATION FairSpec
CHECK_DEADLOCK FALSE
INVARIANTS
  CountCovers
  CountBound
  LeftToEpoll
  OneWriter
PROPERTIES
  Replies
  LeavesQueue
