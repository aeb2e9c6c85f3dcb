SPECIFICATION IpcFairSpec
CONSTANTS
  MaxCalls = 3
  MaxStarts = 2
  Timeouts = TRUE
  Stops = TRUE
INVARIANT HandleClosedOnce
INVARIANT AnswersInOrder
PROPERTY ServesNextClient
CHECK_DEADLOCK FALSE
