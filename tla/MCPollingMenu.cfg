SPECIFICATION Spec
CONSTANTS
  Player = {p}
  G15Interval = 1
  StatusMin = 1
  StatusRefresh = 3
  StatusWindow = 4
  Retry = 5
  Legacy = 1
  MaxRunning = 2
  MaxChanges = 2
  MaxLines = 1
  MaxLost = 0
PROPERTIES EmptyDumpIsNormal
