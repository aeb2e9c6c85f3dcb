SPECIFICATION FairSpec
CONSTANTS
  Thread = {t1}
  Keeper = keeper
  MaxCreates = 2
  MaxCrashes = 2
  Cooldown = TRUE
  Nobody = Nobody
INVARIANTS
  AnswersMatch
  NoOrphans
PROPERTIES
  CallsReturn
CHECK_DEADLOCK FALSE
