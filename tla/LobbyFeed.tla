------------------------------ MODULE LobbyFeed ------------------------------
(***************************************************************************)
(* How the lobby of the game reaches LobbyState.  RCONActionManager polls  *)
(* `tf_lobby_debug`; a reply is cut into lines, every line is parsed by a  *)
(* coroutine on the console parsing pool, which has one thread, and then   *)
(* handed to the listeners on the main thread by the dispatcher.  The      *)
(* lines of console.log take no detour: ConsoleLogParser reads them on the *)
(* main thread and the listeners see them at once, so a lobby line of the  *)
(* log can fall between two lines of a reply.  While the preview mode is   *)
(* on, Application::Update leaves console.log alone.                       *)
(*                                                                         *)
(* The game and its console are the environment (external).                *)
(***************************************************************************)
EXTENDS LobbyState, SequencesExt

CONSTANTS
  NoLobby,      \* the game is in no lobby
  Interrupted,  \* marks a lobby cleared by a log line, see shown
  MaxReplies,   \* bound: answered polls waiting for ProcessRunningCommands
  MaxLines,     \* bound: lines under way before another reply is taken up
  MaxChanges    \* bound: how often the game's lobby changes

ASSUME FeedAssumption ==
  /\ MaxReplies \in Nat \ {0}
  /\ MaxLines \in Nat
  /\ MaxChanges \in Nat

VARIABLES
  game,       \* the game's lobby: [joined, invited], two sequences; or NoLobby
  changes,    \* how often it has changed
  replies,    \* the lobbies the answered polls of m_RunningCommands describe
  parseQueue, \* lines queued on m_ConsoleLineParsingPool
  mainQueue,  \* parsed lines queued on the main thread's dispatcher
  logLines,   \* unread lines of console.log about the lobby
  preview,    \* TF2BDApplication::m_Preview
  shown       \* auxiliary: the lobby whose reply was last applied line by line
              \* without a log line clearing it; Interrupted after such a clear

feedVars == <<vars, game, changes, replies, parseQueue, mainQueue, logLines, preview, shown>>

\* The lobbies a game can be in: each account in at most one slot of one kind.
Lobbies ==
  LET Slots == {s \in SeqOf(SteamID, MaxSlots) : IsInjective(s)}
  IN  {l \in [joined : Slots, invited : Slots] : IsInjective(l.joined \o l.invited)}

\* The console lines about the lobby.
HeaderLine(l) == [kind |-> "header", lobby |-> l]
MemberLine(s, i, isPending) ==
  [kind |-> "member", id |-> s[i], index |-> i, isPending |-> isPending]
FailedLine == [kind |-> "failed"]
CreatedLine == [kind |-> "created"]

\* The lines a lobby reply consists of, in the order the game prints them.
ReplyLines(l) ==
  IF l = NoLobby
  THEN <<FailedLine>>
  ELSE <<HeaderLine(l)>>
       \o [i \in DOMAIN l.joined |-> MemberLine(l.joined, i, FALSE)]
       \o [i \in DOMAIN l.invited |-> MemberLine(l.invited, i, TRUE)]

-----------------------------------------------------------------------------

FeedInit ==
  /\ Init
  /\ game = NoLobby
  /\ changes = 0
  /\ replies = <<>> /\ parseQueue = <<>> /\ mainQueue = <<>> /\ logLines = <<>>
  /\ preview = FALSE
  /\ shown = NoLobby

\* The game joins, leaves or changes a lobby.  Entering one writes "Lobby
\* created" to the log.
GameChanges ==
  /\ changes < MaxChanges
  /\ changes' = changes + 1
  /\ \E l \in (Lobbies \union {NoLobby}) \ {game} : game' = l
  /\ logLines' = IF game = NoLobby THEN Append(logLines, CreatedLine) ELSE logLines
  /\ UNCHANGED <<vars, replies, parseQueue, mainQueue, preview, shown>>

\* The game answers a tf_lobby_debug command.
PollAnswered ==
  /\ Len(replies) < MaxReplies
  /\ replies' = Append(replies, game)
  /\ UNCHANGED <<vars, game, changes, parseQueue, mainQueue, logLines, preview, shown>>

\* ProcessRunningCommands hands the oldest reply to AddConsoleOutputChunk, which
\* starts one coroutine per line; each queues itself on the parsing pool.
ProcessReply ==
  /\ replies # <<>>
  /\ Len(parseQueue) + Len(mainQueue) <= MaxLines
  /\ parseQueue' = parseQueue \o ReplyLines(Head(replies))
  /\ replies' = Tail(replies)
  /\ UNCHANGED <<vars, game, changes, mainQueue, logLines, preview, shown>>

\* Mutant of ParseLine: a second thread lets any line overtake the others.
ParseAnyLine ==
  /\ \E i \in DOMAIN parseQueue :
       /\ mainQueue' = Append(mainQueue, parseQueue[i])
       /\ parseQueue' = RemoveAt(parseQueue, i)
  /\ UNCHANGED <<vars, game, changes, replies, logLines, preview, shown>>

\* The pool's only thread parses a line and dispatches it to the main thread.
ParseLine ==
  /\ parseQueue # <<>>
  /\ mainQueue' = Append(mainQueue, Head(parseQueue))
  /\ parseQueue' = Tail(parseQueue)
  /\ UNCHANGED <<vars, game, changes, replies, logLines, preview, shown>>

\* Mutant of ApplyLine: a new lobby drops the players and not the slots.
ApplyLineKeepsSlots(line) ==
  \/ /\ line.kind = "header"
     /\ LobbyHeader(Len(line.lobby.joined), Len(line.lobby.invited))
  \/ /\ line.kind = "member"
     /\ LobbyMember(line.id, line.index, line.isPending)
  \/ /\ line.kind = "failed"
     /\ LobbyStatusFailed
  \/ /\ line.kind = "created"
     /\ players' = {}
     /\ UNCHANGED <<current, pending, updated, lastStatusUpdate, lookups, now>>

\* WorldState::OnConsoleLineParsed for the lines of this feed.
ApplyLine(line) ==
  \/ /\ line.kind = "header"
     /\ LobbyHeader(Len(line.lobby.joined), Len(line.lobby.invited))
  \/ /\ line.kind = "member"
     /\ LobbyMember(line.id, line.index, line.isPending)
  \/ /\ line.kind = "failed"
     /\ LobbyStatusFailed
  \/ /\ line.kind = "created"
     /\ LobbyCreated

\* The dispatcher resumes the next line's coroutine on the main thread.
DispatchLine ==
  /\ mainQueue # <<>>
  /\ LET line == Head(mainQueue)
     IN  /\ ApplyLine(line)
         /\ shown' = CASE line.kind = "header" -> line.lobby
                       [] line.kind = "failed" -> NoLobby
                       [] OTHER -> shown
  /\ mainQueue' = Tail(mainQueue)
  /\ UNCHANGED <<game, changes, replies, parseQueue, logLines, preview>>

\* ConsoleLogParser::Update reads the next line of the log.
ReadLogLine ==
  /\ ~preview
  /\ logLines # <<>>
  /\ ApplyLine(Head(logLines))
  /\ shown' = Interrupted
  /\ logLines' = Tail(logLines)
  /\ UNCHANGED <<game, changes, replies, parseQueue, mainQueue, preview>>

\* SetPreviewMode, honoured by the next Application::Update.
TogglePreview ==
  /\ preview' = ~preview
  /\ UNCHANGED <<vars, game, changes, replies, parseQueue, mainQueue, logLines, shown>>

FeedNext ==
  \/ GameChanges \/ PollAnswered \/ ProcessReply \/ ParseLine
  \/ DispatchLine \/ ReadLogLine \/ TogglePreview

\* The main loop and the pool thread keep running and the poll is repeated every
\* second or five (LobbyDebugActionGenerator); nothing forces the game, or the
\* user's preview switch, to move.
FeedSpec ==
  /\ FeedInit /\ [][FeedNext]_feedVars
  /\ WF_feedVars(PollAnswered) /\ WF_feedVars(ProcessReply) /\ WF_feedVars(ParseLine)
  /\ WF_feedVars(DispatchLine) /\ WF_feedVars(ReadLogLine)

-----------------------------------------------------------------------------
(* Properties *)

\* The lines a reply can hold.
HeaderLines == {HeaderLine(l) : l \in Lobbies}
MemberLines == [kind : {"member"}, id : SteamID, index : 1 .. MaxSlots, isPending : BOOLEAN]
Line == HeaderLines \union MemberLines \union {FailedLine}

\* Every queue holds what the game can have written: the reply queues lobbies, the
\* pool and the dispatcher lines of replies, and the log only "Lobby created".
QueuesOK ==
  /\ game \in Lobbies \union {NoLobby}
  /\ replies \in Seq(Lobbies \union {NoLobby})
  /\ parseQueue \in Seq(Line)
  /\ mainQueue \in Seq(Line)
  /\ logLines \in Seq({CreatedLine})

\* Every variable of the feed has its type.
FeedTypeOK ==
  /\ TypeOK
  /\ QueuesOK
  /\ changes \in 0 .. MaxChanges
  /\ preview \in BOOLEAN
  /\ shown \in Lobbies \union {NoLobby, Interrupted}

Shows(l) ==
  IF l = NoLobby THEN current = <<>> /\ pending = <<>>
                 ELSE current = l.joined /\ pending = l.invited

\* When a whole reply has been applied and no log line cleared the lobby since
\* its header, the two vectors are exactly the lobby the reply described: no slot
\* of an older lobby survives the resize, and no line was lost or reordered on
\* its way through the pool and the dispatcher.
LobbyMatchesReply ==
  (parseQueue = <<>> /\ mainQueue = <<>> /\ shown # Interrupted) => Shows(shown)

\* Once the game's lobby stays as it is, the tool's lobby ends up equal to it for
\* good, whatever replies, log lines and previews were under way.
LobbyConverges == <>[]Shows(game)

\* Each step of the feed is a step of LobbyState or leaves it alone.
LobbySpec == Spec
=============================================================================
