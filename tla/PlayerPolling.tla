---------------------------- MODULE PlayerPolling ----------------------------
(***************************************************************************)
(* How the tool learns who is on the server.  UpdatePlayerDataPolling, run *)
(* by every pass of RCONActionManager, asks for g15_dumpplayer and now and *)
(* then for `status`; without G15 it alternates `status` and `ping`.  A    *)
(* dump is applied to the world the moment its reply is taken; a status    *)
(* goes through the line parser and arrives later, so a younger dump can   *)
(* overtake it.  The module joins the polling state of RCONActionManager   *)
(* to the players of WorldState.                                           *)
(*                                                                         *)
(* A moment is kept as its age in ticks, which stops growing at the        *)
(* longest interval it is compared with.  The commands have no interval    *)
(* and no limit: the pass that queues them sends or discards them.         *)
(* The game is the environment (external).                                 *)
(***************************************************************************)
EXTENDS Naturals, Sequences

CONSTANTS
  Player,
  G15Interval,     \* G15_INTERVAL
  StatusMin,       \* G15_STATUS_MIN_INTERVAL
  StatusRefresh,   \* G15_STATUS_REFRESH_INTERVAL
  StatusWindow,    \* the 35 seconds of HandleG15Reply
  Retry,           \* G15_RETRY_INTERVAL
  Legacy,          \* LEGACY_STATUS_INTERVAL
  MaxRunning,      \* bound: commands under way
  MaxLines,        \* bound: status replies in the parser before another is taken
  MaxChanges,      \* bound: events of the environment
  MaxLost          \* bound: commands that fail

ASSUME PollingAssumption ==
  /\ {G15Interval, StatusMin, StatusRefresh, StatusWindow, Retry, Legacy} \subseteq Nat \ {0}
  /\ StatusMin <= StatusRefresh
  /\ MaxRunning \in Nat /\ MaxRunning >= 2
  /\ MaxLines \in Nat \ {0}
  /\ MaxChanges \in Nat
  /\ MaxLost \in Nat

VARIABLES
  game,         \* the user id of each player on the game's server, 0 for none
  joins,        \* the last user id the servers gave out
  g15,          \* what g15_dumpplayer does in the TF2 that runs, see G15Modes
  useG15,       \* Settings::m_UseG15PlayerData
  discarding,   \* commands to the server are discarded (see RconActions)
  running,      \* m_RunningCommands: the command and the reply to it
  lines,        \* status replies on their way through the parser
  sinceG15, sinceStatus,   \* the ages of m_LastG15Time and m_LastStatusTime
  sinceUnavailable,        \* the age of m_G15UnavailableSince, 0 unless unavailable
  unavailable,  \* m_G15Unavailable
  requested,    \* m_StatusRequested
  empties,      \* m_G15EmptyReplies, capped at EmptyLimit
  nextPing,     \* m_LegacyNextPing
  user,         \* the world's PlayerStatus::m_UserID, 0 for no such player
  real,         \* the user id whose `status` the world has for a player
  sinceSeen,    \* the age of WorldState::m_LastStatusUpdateTime
  changes, lost \* how many changes and lost commands there have been

environment == <<game, joins, g15, useG15, discarding, changes>>
clocks      == <<sinceG15, sinceStatus, sinceUnavailable>>
polling     == <<unavailable, requested, empties, nextPing>>
world       == <<user, real, sinceSeen>>
vars == <<environment, running, lines, clocks, polling, world, lost>>

\* TF2 lists its players, lists nobody, or does not know the command.
G15Modes == {"works", "blank", "unknown"}
EmptyLimit == 3
Nobody == [p \in Player |-> 0]
StatusCap == IF StatusRefresh > Legacy THEN StatusRefresh ELSE Legacy
Older(age, cap) == IF age < cap THEN age + 1 ELSE cap

Snapshots == [Player -> 0 .. MaxChanges]
Sent(command) ==
  IF discarding THEN <<>>
  ELSE <<[command |-> command, future |-> "waiting", players |-> Nobody]>>

-----------------------------------------------------------------------------

Init ==
  /\ game = Nobody /\ joins = 0
  /\ g15 \in G15Modes /\ useG15 = TRUE /\ discarding = FALSE
  /\ running = <<>> /\ lines = <<>>
  /\ sinceG15 = G15Interval /\ sinceStatus = StatusCap /\ sinceUnavailable = 0
  /\ unavailable = FALSE /\ requested = FALSE /\ empties = 0 /\ nextPing = FALSE
  /\ user = Nobody /\ real = Nobody /\ sinceSeen = StatusWindow
  /\ changes = 0 /\ lost = 0

\* Mutant of RetryDue: G15 is tried again only while players are seen.
RetryOnlyWithPlayers ==
  useG15 /\ unavailable /\ sinceUnavailable >= Retry /\ sinceSeen < StatusWindow

\* IsUsingG15, after the retry it makes when G15 has been given up long enough.
RetryDue == useG15 /\ unavailable /\ sinceUnavailable >= Retry
IsUsingG15 == useG15 /\ (~unavailable \/ RetryDue)

\* Mutant of PollG15: the slow refresh is left out, a lost status is not repeated.
PollG15WithoutRefresh ==
  LET dumpDue   == sinceG15 >= G15Interval
      statusDue == requested /\ sinceStatus >= StatusMin
  IN  /\ running' = running \o (IF dumpDue THEN Sent("dump") ELSE <<>>)
                            \o (IF statusDue THEN Sent("status") ELSE <<>>)
      /\ sinceG15' = IF dumpDue THEN 0 ELSE sinceG15
      /\ sinceStatus' = IF statusDue THEN 0 ELSE sinceStatus
      /\ requested' = (requested /\ ~statusDue)
      /\ UNCHANGED nextPing

\* UpdatePlayerDataPolling with G15: the dump, and a status if somebody new has
\* shown up or the last one is old.
PollG15 ==
  LET dumpDue   == sinceG15 >= G15Interval
      statusDue == (requested /\ sinceStatus >= StatusMin) \/ sinceStatus >= StatusRefresh
  IN  /\ running' = running \o (IF dumpDue THEN Sent("dump") ELSE <<>>)
                            \o (IF statusDue THEN Sent("status") ELSE <<>>)
      /\ sinceG15' = IF dumpDue THEN 0 ELSE sinceG15
      /\ sinceStatus' = IF statusDue THEN 0 ELSE sinceStatus
      /\ requested' = (requested /\ ~statusDue)
      /\ UNCHANGED nextPing

\* UpdatePlayerDataPolling without G15: status and ping take turns on one clock.
PollLegacy ==
  LET due == sinceStatus >= Legacy
  IN  /\ running' = running \o (IF ~due THEN <<>>
                                ELSE Sent(IF nextPing THEN "ping" ELSE "status"))
      /\ sinceStatus' = IF due THEN 0 ELSE sinceStatus
      /\ nextPing' = IF due THEN ~nextPing ELSE nextPing
      /\ UNCHANGED <<sinceG15, requested>>

UpdatePlayerDataPolling ==
  /\ Len(running) + 2 <= MaxRunning
  /\ unavailable' = (unavailable /\ ~RetryDue)
  /\ empties' = IF RetryDue THEN 0 ELSE empties
  /\ sinceUnavailable' = IF RetryDue THEN 0 ELSE sinceUnavailable
  /\ IF IsUsingG15 THEN PollG15 ELSE PollLegacy
  /\ UNCHANGED <<environment, lines, world, lost>>

\* The game answers the command at place i with what is on its server now.
GameAnswers(i) ==
  /\ running[i].future = "waiting"
  /\ LET dump == running[i].command = "dump"
     IN  running' = [running EXCEPT
           ![i].future  = IF dump /\ g15 = "unknown" THEN "unknown" ELSE "players",
           ![i].players = IF dump /\ g15 # "works" THEN Nobody ELSE game]
  /\ UNCHANGED <<environment, lines, clocks, polling, world, lost>>

\* The command at place i fails: srcon times out or loses the connection.
CommandFails(i) ==
  /\ lost < MaxLost
  /\ lost' = lost + 1
  /\ running[i].future = "waiting"
  /\ running' = [running EXCEPT ![i].future = "failed"]
  /\ UNCHANGED <<environment, lines, clocks, polling, world>>

\* HandleG15Reply gives G15 up for a while.
GiveUpG15 == unavailable' = TRUE /\ sinceUnavailable' = 0

\* HandleG15Reply, "Unknown command".
G15Unknown ==
  /\ GiveUpG15
  /\ UNCHANGED <<requested, empties, world>>

\* HandleG15Reply, no players: normal in the menu, but not three times while the
\* world has recently heard of players.
G15Empty ==
  LET statusSeesPlayers == sinceSeen < StatusWindow
      counted == IF statusSeesPlayers THEN Older(empties, EmptyLimit) ELSE empties
  IN  /\ empties' = counted
      /\ IF statusSeesPlayers /\ counted >= EmptyLimit
         THEN GiveUpG15
         ELSE UNCHANGED <<unavailable, sinceUnavailable>>
      /\ UNCHANGED <<requested, world>>

\* HandleG15Reply and ApplyG15Dump: a player who is unknown, or known by another
\* user id, calls for a status.
G15Players(dump) ==
  LET present == {p \in Player : dump[p] # 0}
  IN  /\ empties' = 0
      /\ requested' = (requested \/ \E p \in present : user[p] # dump[p])
      /\ user' = [p \in Player |-> IF p \in present THEN dump[p] ELSE user[p]]
      /\ sinceSeen' = 0
      /\ UNCHANGED <<unavailable, sinceUnavailable, real>>

\* Mutant of ToParser: replies without text go to the parser too.
ToParserAlways(command, players) == command = "status"

\* Whether AddConsoleOutputChunk gets player lines out of a reply.
ToParser(command, players) == command = "status" /\ players # Nobody

\* ProcessRunningCommands, for the command in front.
TakeReply ==
  /\ running # <<>>
  /\ Head(running).future # "waiting"
  /\ Len(lines) < MaxLines
  /\ running' = Tail(running)
  /\ LET command == Head(running).command
         future  == Head(running).future
         players == Head(running).players
     IN  /\ \/ command = "dump" /\ future = "unknown" /\ G15Unknown
            \/ command = "dump" /\ future = "players" /\ players = Nobody /\ G15Empty
            \/ command = "dump" /\ future = "players" /\ players # Nobody /\ G15Players(players)
            \/ /\ command # "dump" \/ future = "failed"
               /\ UNCHANGED <<unavailable, sinceUnavailable, empties, requested, world>>
         /\ lines' = IF ToParser(command, players) THEN Append(lines, players) ELSE lines
  /\ UNCHANGED <<environment, sinceG15, sinceStatus, nextPing, lost>>

\* The player lines of a status reach WorldState::OnConsoleLineParsed.
StatusLines ==
  /\ lines # <<>>
  /\ LET status  == Head(lines)
         present == {p \in Player : status[p] # 0}
     IN  /\ user' = [p \in Player |-> IF p \in present THEN status[p] ELSE user[p]]
         /\ real' = [p \in Player |-> IF p \in present THEN status[p] ELSE real[p]]
  /\ sinceSeen' = 0
  /\ lines' = Tail(lines)
  /\ UNCHANGED <<environment, running, clocks, polling, lost>>

Tick ==
  /\ sinceG15' = Older(sinceG15, G15Interval)
  /\ sinceStatus' = Older(sinceStatus, StatusCap)
  /\ sinceUnavailable' = IF unavailable THEN Older(sinceUnavailable, Retry) ELSE 0
  /\ sinceSeen' = Older(sinceSeen, StatusWindow)
  /\ UNCHANGED <<environment, running, lines, polling, user, real, lost>>

\* What may happen outside the tool.
Joins(p) ==
  /\ joins' = joins + 1
  /\ game' = [game EXCEPT ![p] = joins']
  /\ UNCHANGED <<g15, useG15, discarding, world>>

Leaves(p) ==
  /\ game[p] # 0
  /\ game' = [game EXCEPT ![p] = 0]
  /\ UNCHANGED <<joins, g15, useG15, discarding, world>>

\* The user starts TF2 with the launch option, or without it.
Relaunch ==
  /\ \E mode \in G15Modes \ {g15} : g15' = mode
  /\ game' = Nobody
  /\ UNCHANGED <<joins, useG15, discarding, world>>

ChangeSetting ==
  /\ useG15' = ~useG15
  /\ UNCHANGED <<game, joins, g15, discarding, world>>

OnLocalPlayerInitialized ==
  /\ discarding' = ~discarding
  /\ UNCHANGED <<game, joins, g15, useG15, world>>

\* ClearLobbyState, see LobbyState.
ClearLobbyState ==
  /\ user' = Nobody /\ real' = Nobody
  /\ UNCHANGED <<game, joins, g15, useG15, discarding, sinceSeen>>

Environment ==
  /\ changes < MaxChanges
  /\ changes' = changes + 1
  /\ \/ \E p \in Player : Joins(p) \/ Leaves(p)
     \/ Relaunch
     \/ ChangeSetting
     \/ OnLocalPlayerInitialized
     \/ ClearLobbyState
  /\ UNCHANGED <<running, lines, clocks, polling, lost>>

Next ==
  \/ UpdatePlayerDataPolling
  \/ \E i \in DOMAIN running : GameAnswers(i) \/ CommandFails(i)
  \/ TakeReply
  \/ StatusLines
  \/ Tick
  \/ Environment

\* Time passes, the main loop and the parsing pool run, and every command is
\* answered or fails.
Fairness ==
  /\ WF_vars(UpdatePlayerDataPolling) /\ WF_vars(TakeReply) /\ WF_vars(StatusLines)
  /\ WF_vars(Tick)
  /\ \A i \in 1 .. MaxRunning : WF_vars(i \in DOMAIN running /\ GameAnswers(i))

Spec == Init /\ [][Next]_vars /\ Fairness

-----------------------------------------------------------------------------
(* Properties *)

TypeOK ==
  /\ game \in Snapshots /\ joins \in 0 .. MaxChanges
  /\ g15 \in G15Modes /\ useG15 \in BOOLEAN /\ discarding \in BOOLEAN
  /\ running \in Seq([command : {"dump", "status", "ping"},
                       future : {"waiting", "players", "unknown", "failed"},
                       players : Snapshots])
  /\ Len(running) <= MaxRunning
  /\ lines \in Seq(Snapshots \ {Nobody}) /\ Len(lines) <= MaxLines
  /\ sinceG15 \in 0 .. G15Interval /\ sinceStatus \in 0 .. StatusCap
  /\ sinceUnavailable \in 0 .. Retry /\ sinceSeen \in 0 .. StatusWindow
  /\ <<unavailable, requested, nextPing>> \in BOOLEAN \X BOOLEAN \X BOOLEAN
  /\ empties \in 0 .. EmptyLimit
  /\ user \in Snapshots /\ real \in Snapshots
  /\ changes \in 0 .. MaxChanges /\ lost \in 0 .. MaxLost

\* Once the environment settles with commands going out, the world comes to have,
\* for good, the current user id of every player on the server and a `status` of
\* that connection: whatever mode polling is in, dumps overtook, commands failed,
\* players rejoined and lobbies were cleared.
StatusConverges ==
  (<>[]~discarding) =>
    <>[](\A p \in Player : game[p] # 0 => (user[p] = game[p] /\ real[p] = game[p]))

\* A TF2 that lists its players, had the tool given it up, is taken up again in the
\* end and not given up any more.
G15Recovers ==
  (<>[](g15 = "works" /\ useG15 /\ ~discarding)) => <>[]~unavailable

\* HandleG15Reply says that an empty dump is normal in the main menu, and gives
\* the command up when it "isn't doing anything useful": a TF2 whose command lists
\* everybody on the server should not be given up because nobody is on one.
EmptyDumpIsNormal == ([](g15 = "works")) => []~unavailable
=============================================================================
