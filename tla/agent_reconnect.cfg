SPECIFICATION FairSpec
CONSTANTS
  Thread = {t1}
  Keeper = keeper
  MaxCreates = 1
  MaxCrashes = 1
  Cooldown = TRUE
  Nobody = Nobody
PROPERTIES
  Reconnects
CHECK_DEADLOCK FALSE
