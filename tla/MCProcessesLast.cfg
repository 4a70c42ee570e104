CONSTANTS
  NumWorkers = 2
  Handled = {"SIGINT"}
  Fatal = {}
SPECIFICATION FairSpec
PROPERTIES
  HandlerReturns
