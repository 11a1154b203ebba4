# TF2PL in TLA+

TF2PL watches a running Team Fortress 2: it reads the game's console, asks it over RCON who is in the
lobby and on the server, looks players up in lists and Steam services, and warns about or votes against
the ones that are marked. This directory holds TLA+ models of its core, TLC runs on small instances and
TLAPS proofs. Paths below are relative to `src/tf2_bot_detector/` unless they begin with `tf2pl/`, which is
`src/tf2_bot_detector_common/include/tf2pl/`.

## The system

Almost everything runs on one main thread. `TF2BDApplication::Update` (`Application.cpp:199-260`) resumes
coroutines for 10 ms (`dispatcher.run_for`), updates the world, the setup flow, then either the preview or
the log parser and the moderator, the web UI, and at last the action manager. Beside it run one thread that
parses console lines, four that make HTTP requests, one per export of the player lists, background threads
that load third-party lists, the threads of the RCON client (`srcon`) and the web server.

| Component | State | Operations | What makes it correct |
|---|---|---|---|
| Lobby and player table (`WorldState`) | two lobby vectors, table of players, status times | one case of `OnConsoleLineParsed` per line, `ApplyG15Dump`, answers of lookups | no slot without a player; times never behind |
| Console feed | replies, lines on the pool, on the dispatcher, in `console.log` | cut, parse, dispatch, read the log | order kept, nothing lost, the lobby ends up as the game's |
| RCON action queue (`RCONActionManager`) | queued actions, clock per type, running commands | queue, pass, take answers, discard, lose the client | limits, spacing, order, everything leaves in the end |
| Player polling (same class) | G15 mode, requests, ages | poll, handle a dump, fall back, retry | the world comes to know who is on the server |
| Player list and its file | entries in memory, `cfg/playerlist.json` | mark, unmark, remove, save, load, back up | saved marks survive; no contradiction; no damaged file replaced without a copy |
| Moderator (`ModeratorLogic`) | warned players, votes, known tools, times to defer to | a pass a second, chat lines, entering a game | one tool per team speaks, yet players are named, voted on and reported |
| HTTP client | slot per host, retries, pool | request, throttle, transfer, retry | slots apart, bounded retries, every request ends |
| Batched lookups (`BatchedAction`) | queue and request per service | queue, send a batch, take an answer or an error | nobody in progress is forgotten |
| Player list export | stage, batches, marks, cancel flag, two files | gather, refresh, drop, write; start, cancel, destroy | whole exports only, with the marks the answers give; a cancel ends it |
| Coroutine runtime (`tf2pl/coroutine`, `tf2pl/concurrency`) | promise states, counts, pool queue | queue, run, complete, await, block, drop | each waiter resumed, nothing freed in use, nothing left behind |
| Rules, `TempDB`, update manager, settings, web UI, user interface | see `PROJECT.json` | | |

Hard behaviours are the mixing of console lines that travel by different ways, answers that come late, out
of order or never, a game that quits and comes back, values read to mean something they were not set for,
tools that know of each other only by what they say, threads that wait for one another, and files that are
written in two steps. `PROJECT.json` lists each with its line under `hazards`.

## Modules

    LobbyState <- LobbyFeed                      RconActions      PlayerPolling
    HttpClient <- Lookups, PlayerExport <- Network                PlayerList
    Future  (implemented by HttpClient and by TaskRuntime)        Moderator

* `LobbyState` is the lobby part of `WorldState`: `current` and `pending` are the two vectors, `players` the
  keys of `m_CurrentPlayerData`, `updated` the status time of each player, `lookups` the ids each batched
  service was asked for. One action per line type (`LobbyHeader`, `LobbyMember`, `LobbyStatusFailed`,
  `LobbyCreated`, `PlayerStatusLine`), and one for a dump, for queueing a lookup and for its answer, which
  may name players of a lobby that is gone.
* `LobbyFeed` extends it with the way `tf_lobby_debug` replies take: `ProcessReply` cuts one, `ParseLine` is
  the single pool thread, `DispatchLine` the main thread's dispatcher, `ReadLogLine` the log parser, whose
  "Lobby created" falls between the lines of a reply. `Application.cpp:231` says of the preview mode that
  nothing new is parsed: the log parser is then not called (`TogglePreview`), but replies still come in.
* `RconActions` is the action queue: `QueueAction` with `MayQueue`, one pass `ProcessQueuedCommands`,
  `CommandDone` for srcon, `ProcessRunningCommands`, `GameQuit` and `GameConnected` for the client.
* `PlayerPolling` is `UpdatePlayerDataPolling`, `HandleG15Reply` and what `ApplyG15Dump` and the status lines
  do with the replies, beside a game whose players join, leave and rejoin under new user ids.
* `PlayerList` is the user's list with its file: `ModifyPlayer` under the two setters and the removal,
  `LoadFile` under the start and the reload, saves that fail before or after the file was truncated,
  crashes, hand edits and backups. A list that could not be read is copied (`SaveConfigFileBackup`) and
  replaced; if it cannot be copied (`BackupFails`) or not be replaced the program ends (`Exit`), since
  `LogFatalException` and `LogFatalError` do not return (`Log.cpp:335-357`).
* `Moderator` is `ModeratorLogic` in each of several tools of one lobby. A pass (`ProcessPlayerActions`) is one
  action: `HandleEnemyCheaters` with its two halves, `HandleFriendlyCheaters` with `InitiateVotekick`, then
  `HandleConnectingMarkedPlayers`. `extra` is `PlayerExtraData`, `tried` and `lastSize` are the two statics of
  `HandleFriendlyCheaters`. `OnChatMsg` reads what another tool wrote; `FlushQueue` stands for the action queue,
  whose own rules are in `RconActions`. `SkipPlayerActions` is a pass that returns early, for lack of a team or
  because it is late. Where a player is tells whether he connects, is `Active`, or has been so for longer than
  `GetAutoVotekickDelay`, which counts for a quorum of his own team. `NewLobby` drops the world's data and keeps
  the moderator's, `GameRestarts` the reverse. A moment is the time left to it.
* `HttpClient` is `GetStringAsync`: `Reserve` takes a slot of the host under the mutex, `Resume` is the main
  thread's dispatcher, `StartTransfer` and `TransferDone` are the HTTP pool, with the retries per kind of
  error. A caller stands for a coroutine that awaits one request at a time.
* `Lookups` extends it by `BatchedAction::Update` and its three users: `View` for the getters of `Player`,
  `SendBatch`, `SendNothing` (the service is off), `TakeAnswer`, `TakeError`, and `ClearPlayers`,
  `SwitchService` for what happens while a request is under way.
* `PlayerExport` extends it by `PlayerListExporter`: `ExportThread` is `RunExport`, stage by stage and batch by
  batch, `ExportMain` the main thread, which starts, cancels and destroys the exporter (`DropExporter`, then
  `Joined` when the thread has ended). `marks` is `m_SavedAttributes` of the players in `m_Players`, by whom
  refreshes them: the moderators' own, VAC and game bans, SourceBans. `TakeBatch` takes an answer that may
  leave out any of the batch: accounts the summaries leave out are dropped, those the bans leave out keep
  what the lists say, those SteamHistory leaves out lose the mark. `WriteFiles` skips who has no mark left.
* `Network` composes the two with other users of the client (friends, playtimes, list updates: `Others`).
  `MainLoop` stops while `joining`: what the main thread resumes waits for the export thread.
* `TaskRuntime` is `thread_pool::add_task` and the `task` it returns: `PopTask` and `LeaveLoop` are the pool's
  `run_for` and `wait_tasks_until`, `SetState`, `ResumeWaiter`, `FinalSuspend`, `Suspend` and `RunOff` the end
  of a coroutine, `LookReady` to `Free` the owners of the task, who await it, block on it or look at it now
  and then. A step is what runs between two points where another thread can come in: a lock taken, an
  unlocked read.
* `Future` is what a task promises: asked for, it becomes a value or an exception once and keeps it.
* `LobbyProofs`, `RconActionsProofs`, `PlayerPollingProofs`, `PlayerListProofs`, `ModeratorProofs`,
  `HttpClientProofs`, `NetworkProofs` and `TaskRuntimeProofs` hold the theorems. The MC modules define instances.

Definitions called "Mutant of X" stand in front of X and describe a plausible mistake in it. No
specification uses them; they are there to check that a property can fail.

## Runs

| Run | Instance | Shows |
|---|---|---|
| `lobby_state` | 2 accounts, vectors of up to 2, clock of 2, 2 services, eager lookups | `LobbyMembersKnown`: `GetLobbyMembers` never throws; `LastStatusIsLatest` |
| `lobby_feed` | 2 accounts, 3 changes of lobby, 1 reply waiting, lines of 1 reply and 1 more under way | the vectors equal the reply (`LobbyMatchesReply`), in the end the game (`LobbyConverges`); it implements `LobbyState` (`LobbySpec`) |
| `rcon_actions` | 2 actions of each kind, intervals of 2 ticks, 1 party message, 1 polled command a pass, fairness | `QueueLimits`, `SendSpacing`, `KindOrder`, `LostOnlyOutOfGame`; `QueuedEventuallyLeaves`, `SentEventuallyTaken` |
| `player_polling` | 1 player, 3 events of the environment, 1 lost command | `StatusConverges`, `G15Recovers` |
| `polling_menu` | 2 events | counterexample: a working G15 given up in the menu |
| `player_list` | 1 player, 3 marks, 1 reason, 2 edits, 2 crashes, 1 failed save | `SavedMarksStay`, `NoNewContradiction`, `LoadBacksUp` |
| `moderator` | 2 tools of one team, 1 marked enemy who may be voted on, 1 setback | `OneSpeaker`, `LowestIsHeeded`, `EnemyKeepsBeingNamed` |
| `moderator_two` | 1 tool, 2 marked players who may be voted on, 2 party messages at a time, 1 setback | `VotesGoOn`, `VotesAreTaken`, `PartyHears` |
| `votes_stuck` | 1 tool, 2 marked players who may be voted on, no setback | counterexample: only the first of them is ever voted on |
| `http_lookups` | 4 mixtures of users, 2 hosts, 3 ids in batches of 2, 4 listed players with 4 sets of marks in batches of 2, 2 changes | `SlotsApart`, `InProgressIsQueued`, `InProgressIsAnswered`, `OnlyWholeExports`; every request is a `Future` (`EveryRequestSettles`) |
| `export_quit` | an export beside a friends request, destroyed while it runs | counterexample: the main thread and the export wait for each other |
| `task_runtime` | 2 threads, 2 jobs, 4 holders: two await, one blocks, one polls | `NoTaskSleptOn`, `FrameInUseIsThere`, `FrameIsFreed`; every held task is a `Future` (`EveryHolderIsAnswered`) |

Why the bounds are enough:

* Two accounts and two slots give resizes that keep, drop and add slots, and a slot of each kind. Three
  changes let the game leave a lobby and enter another while replies about the first are under way.
* Two actions of a kind fill every limit (one kick, two chat messages) and have an order; a party message
  shares the type and its clock with the chat messages, whose limit differs. `MaxRunning` bounds the
  commands a pass may add on top of unanswered ones; a pass with nothing unanswered is not bounded.
  Ages stop growing at the longest interval they are compared with.
* The intervals of the polling keep the order of the real ones (3, 2, 30, 35, 60 and 3 s become 1, 1, 3, 4, 5
  and 1 ticks). Three events cover a rejoin with a clear or a relaunch between. Polling treats players
  independently, but for a request of `status` that any of them raises.
* The list treats players independently but for a load that stops at a bad entry, and for one player that
  entry is read or not. `StartedInExeDir` is true in the run; with another working directory no copy succeeds
  and a damaged list ends the program, which leaves fewer states.
* A tick of `Moderator` is 10 s: the warning and vote intervals and `CHEATER_WARNING_DELAY` become 1,
  `CHEATER_WARNING_INTERVAL_NONLOCAL` 2, so that the time a tool defers is longer than the interval of its own
  warnings. The world moves only before the first pass of a tick, and `MaxSetbacks` counts what is lost (a
  player, a status, a lobby, a game): one setback after two tools came to agree makes them find each other
  again. `Marked` and `Voters` are parameters, so that larger lobbies need another cfg only; with two marked
  players beside two tools the state space exceeds what a run of minutes can visit, so `moderator_two` has one
  tool. Its two marked players make the counters of the vote loop matter and let one name be missing while the
  other is there; `MaxParty` is 2 for the 24 of `PartyChatMessageAction`, since two players' news, taken again
  after a setback, then find the queue full. The other people of the lobby are two in one team and none in the
  other, so that a quorum can fail. `EnemyKeepsBeingNamed` is about tools that are all in the other team:
  `OnChatMsg` defers to a tool of either team, so that beside a tool of lower user id in his own team nobody
  ever names a player. `SendOnce` is off in the run, see below. `LowestIsHeeded` has the premise that
  `ChatInterval` (10 s unless set) is shorter than the time others defer.
* `Mixes` puts up to three users on the client at a time: lookups of either service, the export, whose stages go
  to both hosts, and three others that queue for a slot of one host and for a pool of one thread. The listed
  players and their marks are such that an answer can add a mark, take one away, leave a player without any, or
  leave him out; one account does not exist. Two batches a stage, the last of which need not be full. Three ids
  and batches of two, one id unknown, give a batch with an unanswered id in it and ids left for the next.
  `MinInterval` 1 and 2, `RetryDelay` 2 let a new request and a retry ask for the same slot; `Tries` differ per
  kind of error, so that the one count they share matters.
* Two threads and two jobs let a notification stand for two tasks; four holders give a copy of each kind,
  two waiters resumed one after the other, and a release on either side of the final suspension.

### Fairness

* `LobbyFeed`: the main loop, the pool thread and the repeated poll run (`WF` on the answer, `ProcessReply`,
  `ParseLine`, `DispatchLine`, `ReadLogLine`). The game is not forced to change, nor the user to end the
  preview: the log lines may stay unread, and the lobby converges all the same.
* `RconActions` and `PlayerPolling`: time passes, the main loop calls `Update`, srcon settles every future (it
  times out, and deleting the client breaks the promises), and a lost game comes back. `QueueAction` and the
  environment are not fair. Of a warning `QueuedEventuallyLeaves` assumes that party messages stop at some
  time: each of them restarts the clock warnings wait for.
* `Moderator`: one weak fairness for the loops of all tools and the clock, which suffices because within a tick
  each loop runs out of work and the clock waits for the last; and Steam answers in the end. Players and
  games are free.
* `Network`: time passes, the pool runs, transfers end (they have a timeout), the main loop resumes delayed
  requests and updates the lookups as long as it is not joining, the export thread runs. Nobody has to look
  at a player, to start an export or to cancel one. No server has to answer well: `InProgressIsAnswered`
  assumes in its premise that the requests of the service succeed from some time on.
* `TaskRuntime`: the threads run and the owners go on until they have their result. A sleeping thread looks
  again every second (`tf2pl/concurrency/thread_pool.inl`); the fairness does not rely on it. Nobody has to
  add a task, or to drop one unread.

### Counterexamples

* `polling_menu`: `HandleG15Reply` takes "players were seen in the last 35 s" as a word of `status` against an
  empty dump. The time is also set by the dumps. Leave a server and three empty dumps, nine seconds, turn
  a working G15 off for a minute.
* `export_quit`: `PlayerListExport.h` says of `Cancel` that the export stops after the current batch. The
  destructor sets the same flag and joins the export thread, on the main thread. The export thread blocks in
  `get()` of a request which may wait for its slot or its next try as a delayed task that only the main
  loop resumes: the batch never completes. `joining` with `~joining` in the guard of `MainLoop` is all it takes.
* `votes_stuck`: `HandleFriendlyCheaters` counts the players it tried in order not to be "stuck in the first
  player" (`ModeratorLogic.cpp:519-522`). Between two votes there are passes in which no vote can be called
  yet; such a pass walks to the end of the list, where the count becomes 0 (line 555), and the next vote is
  against the first player again. `VotesAlwaysStayWithTheFirst` proves the same for every list and interval.

## Proofs

For every set of accounts, players, callers, threads and jobs, every bound and every setting:

* `LobbyProofs`, about `LobbyState`. `TypeCorrect`; `LobbyMembersAlwaysKnown`; `LastStatusAlwaysLatest`. The
  invariant `IInv` is `TypeOK`, `LobbyMembersKnown` and `LastStatusIsLatest` extended from the players of the
  table to every account: a player that is dropped from the table must not leave a time behind that is later
  than the world's when it is created anew. The lemmas say what a resize and the assignment of a slot do to the
  members. Assumptions: `LobbyAssumption`.
* `LobbyProofs`, about `LobbyFeed`. `FeedImplementsLobby` (every line applied is one LobbyState knows, since the
  queues hold only lines of replies: `QueuesOK`), with which `FeedMembersAlwaysKnown` follows from the theorem
  about `LobbyState`; `FeedTypeCorrect`, of which `QueuesOK` is a part; and `LobbyAlwaysMatchesReply`. The last
  is about lines of replies that are not stored anywhere as such. `FlowInv` says that the lines under way can be
  marked with the reply and the place they come from so that whole replies follow one another, and that the
  vectors hold what the lines applied of the current reply say (`Follow`, `Holds`). Parsing keeps the marks, a
  new reply extends them and applying a line shifts them. Assumptions: `LobbyAssumption`, `FeedAssumption`.
* `PlayerListProofs`. `TypeCorrect`; `SavedMarksAlwaysStay`; `NeverANewContradiction`; `LoadAlwaysBacksUp`, in
  whatever directory the program is started. `SavedMarksStay` is not inductive, since after a crash memory says
  nothing: `FileIsAcked` says that the file holds the marks of the last save that succeeded. The lemmas
  `SerializeFaithful` and `DeserializeFaithful` are the two halves of the round trip. Assumptions:
  `PlayerListAssumption`, and that the value for "no file" is not a content (`MissingAssumption`).
* `RconActionsProofs`. `TypeCorrect`; `QueueAlwaysLimited`; `SendsAlwaysSpaced`; `KindAlwaysInOrder`;
  `NothingElseIsLost`. The invariant `IInv` is `TypeOK`, `QueueLimits` and `ClocksAgree`: the clock of a type is
  restarted at least as late as the last command of each limited kind was sent, which is what makes the clock of
  the code say something about what the game got. The lemmas about `Place` and `Taken` say that a pass takes
  actions out of the queue without reordering or multiplying them, `FrontIsDone` that the answered front of the
  running commands is well defined. Assumptions: `RconAssumption`.
* `PlayerPollingProofs`. `TypeCorrect`, from `IInv`, which adds that there are no more joins than changes (the
  bound on the user ids). `KnowledgeAlwaysStays` and `WorkingDumpAlwaysStays` are what can be proved of
  `StatusConverges` and `G15Recovers`: that the states they lead to are not left while players and game rest.
  `Settled` (each reply under way is current) is needed for the first, because a late status overwrites the
  user id; `DumpsList` (each dump answered names somebody) for the second. Assumptions: `PollingAssumption`.
* `ModeratorProofs`. `TypeCorrect`. `LowestAlwaysHeeded`: being `Hushed` says in which order the two tools'
  times come, and a pass of the lowest, its chat line on the way and a tick each change that order. What
  makes it inductive is `TickInv`: what is queued or unread was said in this tick, after an enemy was named the
  next warning of that tool is still to come, and the lowest waits no longer than `ChatInterval`, which the
  property's premise compares with the time the others defer. `WarningsAlwaysInOrder` is inductive with
  `TypeOK`. `VotesAlwaysTaken` and `VotesAlwaysStayWithTheFirst` rest on `VotesAreRecent` (a queued vote was
  called in this tick); `Stuck` says where in the interval between two votes the count of players tried is
  0 or about to become 0. `LeastNumber` is the least-number principle, from the well-founded order of the
  naturals, for the first player of a list. Assumptions: `ModeratorAssumption`.
* `HttpClientProofs`. `SlotsAlwaysApart`, which is about slots: several whose time has come go together when
  the main thread resumes them late. Its `SlotInv` ties the auxiliary variables to the host's next slot:
  the next slot is the last one and its gap, or both are past. `HttpTypeCorrect` says with `PoolInv` that the
  pool's queue holds each waiting request once; `RequestsAreFutures` is the safety part of the refinement of
  `Future`. Assumptions: `HttpAssumption`.
* `NetworkProofs`. `UsersImplementClient`: each step of the composition is a step of `HttpClient`, so
  `UsersKeepApart` follows; `InProgressAlwaysQueued` by induction with `QueueInv`, the types of what it is about;
  `ExportsAlwaysWhole`, whose `ExportInv` says of each stage of an export which players are left, whom each
  service was asked about and whom it named (`StageInv`), and that everybody has the marks that follow from
  it (`MarksInv`), for files depend on stages long gone; `NetworkTypeCorrect`.
  Assumptions: those of `HttpClient`, `Lookups`, `PlayerExport` and `Network`.
* `TaskRuntimeProofs`. `NoTaskEverSleptOn`, by itself; `TypeCorrect`, `FrameInUseAlwaysThere`,
  `FrameAlwaysFreed` and `HoldersHaveFutures` (the initial states and steps of the refinement of `Future`)
  from `IInv`: `Types`; `Places` and `Stages`, where threads and jobs can be together; `Handles`, that a handle is in
  exactly one list, of its own job; `Started`, what a job that was never queued cannot have; `Counts`, that
  the reference count is the number of holders; `Frames`, who may have freed the frame. `Counts` needs the
  cardinality of the set of holders at each step, which is why `Holder` is assumed finite.

Only model-checked: all liveness (`LobbyConverges`, `QueuedEventuallyLeaves`, `SentEventuallyTaken`,
`StatusConverges`, `G15Recovers`, `InProgressIsAnswered`, `OneSpeaker`, `EnemyKeepsBeingNamed`, `VotesGoOn`,
`PartyHears`, the fairness part of the two refinements of `Future`), which the proof system does not treat.
Every invariant and every action property of a run is a theorem, and of some liveness properties the safety
half is: `LowestIsHeeded` of `OneSpeaker`, `KnowledgeStays` of `StatusConverges`, `WorkingDumpStays` of
`G15Recovers`. `KnowledgeStays`, `WorkingDumpStays`, `WarningsInOrder` and `VotesStayWithTheFirst` are stated
beside their proofs and belong to no run. Three properties are found violated by a run; they have no theorem,
though `VotesAlwaysStayWithTheFirst` says for all constants why the last fails.

## Not modelled

* The rest of `WorldState` (map, host name, votes, scores, friends).
* The texts of commands, log lines and files. A file is what can be read from it.
* In `PlayerList`: the official list (`IsOfficial` is true for one SteamID), subscribed lists, the time and name
  a player was last seen with. `SaveConfigFileBackup` copies the name as given, not the path that was read
  (`Config/ConfigHelpers.cpp:251`): in a working directory other than the program's there is nothing to copy
  and the program ends, which is modelled; that there is a player list of another kind, which is then copied
  in place of the damaged one, is not. Of a save that failed or tore the file `SavedMarksStay` says nothing.
* In `Moderator`: rules (`OnRuleMatch`), ban marks, friends of marked players, custom tags, mutes. With
  `m_ChatWarningSendOnce` a tool that waits for another counts a player as warned about although it named
  nobody (`ModeratorLogic.cpp:641`), so `EnemyKeepsBeingNamed` cannot hold with it and the run has it off.
  A custom warning text is not recognised by other tools; the model has the standard texts.
* In `PlayerExport`: that the two files differ after an error in the second, or that one is torn; names and
  proofs; the unlocked walk through the lists (`PlayerListExport.cpp:312`). A cancelled export returns before
  the line that would report it (`PlayerListExport.cpp:259-291, 306`), so that its last stage stays on display, and
  one cancelled while the files are written has new files all the same: the model does so (`Stop`,
  `WriteFiles`), no property forbids it. Nor does one forbid that an answer which leaves out an account that
  exists drops him, although the comment at `PlayerListExport.cpp:364` calls such accounts confirmed nonexistent.
* In `HttpClient`: when transfers start. Slots are reserved apart, but a main thread that comes late resumes all
  that are due, and a free thread of the pool takes them at once.
* In `TaskRuntime`: the end of a pool with tasks in its queue, `make_ready_task`, generators, delayed tasks of
  a dispatcher (`HttpClient` has them as delays). After `final_suspend` has returned and before the coroutine
  is suspended a holder may free the frame; `Suspend` allows for the outcomes, and no property claims that
  a frame is freed only once.
* `TempDB`, update manager, settings, web server, chat wrappers, logging, user interface, renderer, Discord,
  platform layer: caches whose second answer replaces the first, pages, drawing, formatting and calls of
  the operating system.

What could come next, in this order: `ConfigFile` (subscribed lists: the update pass of one load and the next
reload on the same files), `TempDB`, the update manager's states, the queue between web server and main
thread, and the friends cache of the moderator.
