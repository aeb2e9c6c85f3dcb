SPECIFICATION FairSpec
CONSTANT ConnThread = {c1, c2}
INVARIANTS
  CaptureNeedsRelay
  CaptureCallsMatch
  FreedUnused
PROPERTIES
  StopEnds
CHECK_DEADLOCK FALSE
