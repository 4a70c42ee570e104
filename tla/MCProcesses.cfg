CONSTANTS
  NumWorkers = 3
  Handled = {"SIGINT"}
  Fatal = {"SIGUSR1"}
SPECIFICATION FairSpec
CHECK_DEADLOCK FALSE
INVARIANTS
  NoneForgotten
PROPERTY EveryWorkerReaped
