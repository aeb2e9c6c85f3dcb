SPECIFICATION FairSpec
CONSTANTS
  Caller = {t1, t2}
  MaxFileSize = 2
  MaxFiles = 4
  RingSize = 3
  MaxEntries = 4
  MaxRotations = 1
INVARIANTS
  EntriesAccounted
  FileUsedOpen
  RecentIsLast
PROPERTIES
  ShutdownReturns
  QueueDrains
CHECK_DEADLOCK FALSE
