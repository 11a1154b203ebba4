SPECIFICATION FairSpec
CONSTANTS
  Id = {i, j}
  Polled = {p}
  KickInterval = 2
  ChatInterval = 2
  MaxParty = 1
  CompatibilityMode = TRUE
  Sources = {"kick", "chat", "party"}
  MaxRunning = 1
INVARIANTS TypeOK QueueLimits
PROPERTIES SendSpacing KindOrder LostOnlyOutOfGame QueuedEventuallyLeaves SentEventuallyTaken
