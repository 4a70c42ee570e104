CONSTANTS
  HeaderLen = 2
  MaxLength = 9
  Fields <- TheFields
  Verdicts = {TRUE, FALSE}
  MaxStream = 10
  Junk = Junk
  flood_time_interval_ = 2
  flood_kick_count_ = 2
  Workers = {w1}
  TypeLen = 2
  NameLen = 2
  PassLen = 1
  MaxSeq = 4
  MaxTasks = 2
  Zero = Zero
SPECIFICATION LogicSpec
CHECK_DEADLOCK FALSE
INVARIANTS
  Fits
  BufferOwned
  FloodCaught
  KickNeedsRun
  AnswersValid
  AnswersEcho
  BlocksOwned
PROPERTY CutsPackets
