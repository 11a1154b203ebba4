SPECIFICATION Spec
CONSTANTS
  Caller = {"summary", "source", "export", "friends", "lists", "playtime"}
  Others = {"friends", "lists", "playtime"}
  Asks <- MCAsks
  Mixes <- MCQuitMixes
  Service = {"summary", "source"}
  Endpoint <- MCEndpoint
  HostOf <- MCHostOf
  MinInterval <- MCMinInterval
  MaxInterval = 2
  Errors <- MCErrors
  Tries <- MCTries
  RetryDelay = 2
  Threads = 1
  Serving <- MCServing
  Id = {1, 2, 3}
  Unknown = {2}
  Batch = 2
  UpdateInterval = 1
  MaxChanges = 0
  Exporter = "export"
  Asking <- MCAsking
  NumPlayers = 4
  OnLists <- MCOnLists
  Nonexistent = {4}
  Banned = {1}
  SourceBanned = {2}
  ExportBatch = 2
  SourceBansOn = TRUE
  MaxExports = 1
  DropsRunning = TRUE
PROPERTIES CancelStops
CHECK_DEADLOCK FALSE
