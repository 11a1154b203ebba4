SPECIFICATION Spec
CONSTANTS
  a = a
  x = x
  y = y
  Tools = {a, b}
  Marked = {x}
  Order <- MCOrder
  Team <- MCTeam
  UserID <- MCUserID
  Others <- MCOthers
  Voters = {a}
  SendOnce = FALSE
  IgnoreTeams = TRUE
  ChatInterval = 1
  VoteInterval = 1
  WarningDelay = 1
  NonlocalInterval = 2
  MaxParty = 4
  MaxSetbacks = 1
  NoKick = NoKick
INVARIANTS TypeOK
PROPERTIES OneSpeaker LowestIsHeeded EnemyKeepsBeingNamed
