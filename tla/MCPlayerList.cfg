SPECIFICATION Spec
CONSTANTS
  Player = {p}
  Mark = {"Cheater", "Suspicious", "custom"}
  Tag = {"custom"}
  Reason = {r}
  StartedInExeDir = TRUE
  MaxEdits = 2
  MaxFailures = 1
  MaxCrashes = 2
  Missing = Missing
  NoAck = NoAck
INVARIANTS TypeOK SavedMarksStay
PROPERTIES NoNewContradiction LoadBacksUp
