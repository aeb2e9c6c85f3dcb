SPECIFICATION Spec
CONSTANTS
  Port = {3128, 8888}
  GuiPort = 3128
  DefaultPort = 8888
  Password = {"p1"}
  Level = {2}
  Rules <- RuleSets
  DefaultRule = "default"
  MaxSaves = 1
  MaxEdits = 1
  MaxFaults = 2
INVARIANT FileIsWhole
INVARIANT SavedSurvives
CHECK_DEADLOCK FALSE
