SPECIFICATION Spec
CONSTANTS
  NoMember = NoMember
  SteamID = {a, b}
  MaxSlots = 2
  MaxTime = 2
  Api = {summary, bans}
  LazyLoadAPIData = FALSE
SYMMETRY Symmetry
INVARIANTS TypeOK LobbyMembersKnown LastStatusIsLatest
