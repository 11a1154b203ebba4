SPECIFICATION FeedSpec
CONSTANTS
  NoMember = NoMember
  SteamID = {a, b}
  MaxSlots = 2
  MaxTime = 1
  Api = {}
  LazyLoadAPIData = TRUE
  NoLobby = NoLobby
  Interrupted = Interrupted
  MaxLines = 1
  MaxReplies = 1
  MaxChanges = 3
INVARIANTS FeedTypeOK LobbyMatchesReply
PROPERTIES LobbyConverges LobbySpec
