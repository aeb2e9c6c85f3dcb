SPECIFICATION FairSpec
CONSTANTS
  Conn = {c1}
  MaxPolls = 1
  MaxChunks = 2
  Resets = TRUE
INVARIANTS
  HalfCloseLosesNothing
  BytesAccounted
  NothingLeaks
  NoUseAfterClose
PROPERTIES
  BridgeEnds
  StopReturns
CHECK_DEADLOCK FALSE
