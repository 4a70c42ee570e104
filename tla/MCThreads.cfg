CONSTANTS
  Callers = {c1}
  Workers = {w1, w2}
  Tasks = {t1, t2, t3}
  Calls = {"push", "wait", "destroy", "reset"}
  MaxCalls = 2
  Nobody = Nobody
  NoTask = NoTask
SPECIFICATION FairSpec
CHECK_DEADLOCK FALSE
INVARIANTS
  FrontExists
  TotalAccounts
PROPERTIES
  ServesTasks
  TasksRun
  CallsReturn
