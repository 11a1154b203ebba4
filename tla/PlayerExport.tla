----------------------------- MODULE PlayerExport -----------------------------
(***************************************************************************)
(* PlayerListExporter: a thread merges all player lists, asks the services *)
(* about every player, batch after batch, each time blocking on the task,  *)
(* drops the accounts they do not return, sets and clears the marks they   *)
(* know about and writes the players who have a mark.  The main thread     *)
(* starts and cancels it, and joins it when it drops the exporter.         *)
(* An answer may leave players out.                                        *)
(***************************************************************************)
EXTENDS HttpClient

CONSTANTS
  Exporter,         \* the caller that stands for the export thread
  Asking,           \* the endpoint of each refreshing stage
  NumPlayers,       \* the players on the lists are 1 .. NumPlayers
  OnLists,          \* their marks there, all lists together
  Nonexistent,      \* those of which GetPlayerSummaries returns nothing
  Banned,           \* those who have VAC or game bans
  SourceBanned,     \* those of whom SteamHistory knows bans
  ExportBatch,      \* EXPORT_BATCH_SIZE
  SourceBansOn,     \* m_EnableSteamHistoryIntegration, with a key
  MaxExports,       \* bound: how often an export is started
  DropsRunning      \* the exporter may be dropped while it runs

Refreshing == <<"summaries", "bans", "source">>
Stages == {"none", "gathering", "writing", "finished", "failed"} \union {Refreshing[i] : i \in 1 .. 3}
Players == 1 .. NumPlayers

\* What m_SavedAttributes holds: marks of moderators, which no service changes,
\* those for VAC and game bans, and the one for bans on community servers.
Mark == {"own", "banned", "sourceBanned"}

ASSUME ExportAssumption ==
  /\ Exporter \in Caller
  /\ Asking \in [{Refreshing[i] : i \in 1 .. 3} -> Endpoint]
  /\ NumPlayers \in Nat /\ ExportBatch \in Nat \ {0} /\ MaxExports \in Nat
  /\ OnLists \in [Players -> SUBSET Mark]
  /\ Nonexistent \subseteq Players /\ Banned \subseteq Players /\ SourceBanned \subseteq Players
  /\ SourceBansOn \in BOOLEAN /\ DropsRunning \in BOOLEAN

VARIABLES
  stage,    \* Progress::m_Stage
  running,  \* m_Running
  cancel,   \* m_Cancel
  allIDs,   \* the local allIDs of a refreshing stage
  offset,   \* its local offset
  found,    \* the players in m_Players
  marks,    \* their m_SavedAttributes
  covered,  \* auxiliary: in each stage, the players in the batches answered
  named,    \* auxiliary: in each stage, those of them the answers speak of
  files,    \* the players in the export files with their marks
  joining,  \* the main thread is in ~PlayerListExporter
  exports

exportVars == <<stage, running, cancel, allIDs, offset, found, marks, covered, named, files,
                joining, exports>>

Nobody == [i \in 1 .. 3 |-> {}]

ExportInit ==
  /\ stage = "none" /\ running = FALSE /\ cancel = FALSE
  /\ allIDs = <<>> /\ offset = 0
  /\ found = {} /\ marks = OnLists
  /\ covered = Nobody /\ named = Nobody
  /\ files = <<>>
  /\ joining = FALSE /\ exports = 0

-----------------------------------------------------------------------------
(* The main thread *)

\* A new exporter is made and started; one that is done makes way.
StartExport ==
  /\ ~joining /\ ~running
  /\ exports < MaxExports
  /\ exports' = exports + 1
  /\ running' = TRUE /\ cancel' = FALSE
  /\ stage' = "gathering"
  /\ found' = {} /\ allIDs' = <<>> /\ offset' = 0
  /\ covered' = Nobody /\ named' = Nobody
  /\ UNCHANGED <<httpVars, marks, files, joining>>

CancelExport ==
  /\ ~joining /\ running
  /\ cancel' = TRUE
  /\ UNCHANGED <<httpVars, stage, running, allIDs, offset, found, marks, covered, named, files,
                 joining, exports>>

\* The exporter is destroyed: by the close button once it is done, and with the
\* web UI when the user switches back to the native one or the program ends,
\* whatever it is doing.  The destructor cancels and joins.
DropExporter ==
  /\ ~joining /\ stage # "none"
  /\ running => DropsRunning
  /\ cancel' = TRUE
  /\ joining' = TRUE
  /\ UNCHANGED <<httpVars, stage, running, allIDs, offset, found, marks, covered, named, files, exports>>

Joined ==
  /\ joining /\ ~running
  /\ joining' = FALSE
  /\ stage' = "none"
  /\ cancel' = FALSE
  /\ UNCHANGED <<httpVars, running, allIDs, offset, found, marks, covered, named, files, exports>>

-----------------------------------------------------------------------------
(* The export thread *)

\* RunExport returns with the progress at this stage.
EndAt(last) == stage' = last /\ running' = FALSE

\* RunExport returns because it was cancelled: the stage shown is the one it was in.
Stop == EndAt(stage) /\ UNCHANGED <<allIDs, offset>>

\* CollectSteamIDs: the keys of a map, each once; which comes first is of no matter.
CollectSteamIDs(players) ==
  CHOOSE ids \in [1 .. Cardinality(players) -> players] :
    /\ \A p \in players : \E i \in DOMAIN ids : ids[i] = p
    /\ \A i, j \in DOMAIN ids : ids[i] = ids[j] => i = j

\* The next stage's loop begins over the players there are now.
Begin(i, players) ==
  /\ stage' = Refreshing[i]
  /\ allIDs' = CollectSteamIDs(players)
  /\ offset' = 0

Gather ==
  /\ stage = "gathering" /\ running
  /\ found' = Players
  /\ marks' = OnLists
  /\ IF cancel THEN Stop
     ELSE IF Players = {} THEN EndAt("finished") /\ UNCHANGED <<allIDs, offset>>
     ELSE Begin(1, Players) /\ UNCHANGED running
  /\ UNCHANGED <<httpVars, cancel, covered, named, files, joining, exports>>

\* GetRequiredHTTPClient throws: the settings do not allow internet usage any more.
NoClient(i) ==
  /\ stage = Refreshing[i] /\ running
  /\ offset = 0 /\ phase[Exporter] = "empty"
  /\ i = 3 => SourceBansOn
  /\ EndAt("failed")
  /\ UNCHANGED <<httpVars, cancel, allIDs, offset, found, marks, covered, named, files, joining, exports>>

\* Mutant of MoreBatches: a last batch that is not full is forgotten.
FullBatchesLeft == offset + ExportBatch <= Len(allIDs)

\* The loop over the batches of a stage goes on.
MoreBatches == offset < Len(allIDs)

\* min(offset + EXPORT_BATCH_SIZE, total)
BatchEnd == IF offset + ExportBatch < Len(allIDs) THEN offset + ExportBatch ELSE Len(allIDs)
BatchIDs == {allIDs[i] : i \in offset + 1 .. BatchEnd}

\* The loop sends the next batch and blocks in get().
AskBatch(i) ==
  /\ stage = Refreshing[i] /\ running
  /\ MoreBatches /\ ~cancel
  /\ Ask(Exporter, Asking[stage])
  /\ UNCHANGED exportVars

\* Those an answer of each stage may speak of: accounts that exist, anyone, players
\* who have bans.
Nameable == <<Players \ Nonexistent, Players, SourceBanned>>

\* SetAttribute(mark, on)
SetAttribute(has, mark, on) == IF on THEN has \union {mark} ELSE has \ {mark}

\* The marks after an answer: that about bans sets and clears those of the players
\* it names, that about SourceBans those of all it was asked about.
MarksAfter(i, answer) ==
  [p \in Players |->
     IF i = 2 /\ p \in answer THEN SetAttribute(marks[p], "banned", p \in Banned)
     ELSE IF i = 3 /\ p \in BatchIDs THEN SetAttribute(marks[p], "sourceBanned", p \in answer)
     ELSE marks[p]]

\* get() returns, with an answer that may leave out any of the batch.
TakeBatch(i) ==
  /\ stage = Refreshing[i] /\ running /\ phase[Exporter] = "value"
  /\ Drop(Exporter)
  /\ offset' = offset + ExportBatch
  /\ covered' = [covered EXCEPT ![i] = @ \union BatchIDs]
  /\ \E answer \in SUBSET (BatchIDs \intersect Nameable[i]) :
       /\ named' = [named EXCEPT ![i] = @ \union answer]
       /\ marks' = MarksAfter(i, answer)
  /\ UNCHANGED <<stage, running, cancel, allIDs, found, files, joining, exports>>

\* get() throws: the export has failed.
BatchFailed(i) ==
  /\ stage = Refreshing[i] /\ running /\ phase[Exporter] = "exception"
  /\ Drop(Exporter)
  /\ EndAt("failed")
  /\ UNCHANGED <<cancel, allIDs, offset, found, marks, covered, named, files, joining, exports>>

\* RunExport between two stages; SourceBans of nobody are refreshed when that is
\* switched off.
NextStage(i, players) ==
  IF cancel THEN Stop
  ELSE IF i < 3
  THEN Begin(i + 1, IF i = 2 /\ ~SourceBansOn THEN {} ELSE players) /\ UNCHANGED running
  ELSE stage' = "writing" /\ UNCHANGED <<running, allIDs, offset>>

\* The loop of a stage is over; after the summaries the accounts in the batches so
\* far that were not returned are dropped.
EndStage(i) ==
  /\ stage = Refreshing[i] /\ running /\ phase[Exporter] = "empty"
  /\ ~MoreBatches \/ cancel
  /\ LET kept == IF i = 1 THEN found \ (covered[1] \ named[1]) ELSE found
     IN /\ found' = kept
        /\ NextStage(i, kept)
  /\ UNCHANGED <<httpVars, cancel, marks, covered, named, files, joining, exports>>

\* The players who have a mark are written to both files, or an error ends it with
\* the first file replaced or none.  A cancel meanwhile only changes the message.
WriteFiles ==
  /\ stage = "writing" /\ running
  /\ LET written == [p \in {q \in found : marks[q] # {}} |-> marks[p]]
     IN \/ files' = written /\ EndAt(IF cancel THEN stage ELSE "finished")
        \/ files' \in {files, written} /\ EndAt("failed")
  /\ UNCHANGED <<httpVars, cancel, allIDs, offset, found, marks, covered, named, joining, exports>>

ExportThread ==
  \/ Gather
  \/ \E i \in 1 .. 3 : \/ NoClient(i) \/ AskBatch(i) \/ TakeBatch(i) \/ BatchFailed(i)
                       \/ EndStage(i)
  \/ WriteFiles

ExportMain == StartExport \/ CancelExport \/ DropExporter \/ Joined

-----------------------------------------------------------------------------
(* Properties *)

ExportTypeOK ==
  /\ stage \in Stages
  /\ running \in BOOLEAN /\ cancel \in BOOLEAN /\ joining \in BOOLEAN
  /\ allIDs \in Seq(Players) /\ offset \in Nat
  /\ found \subseteq Players /\ marks \in [Players -> SUBSET Mark]
  /\ covered \in [1 .. 3 -> SUBSET Players] /\ named \in [1 .. 3 -> SUBSET Players]
  /\ DOMAIN files \subseteq Players /\ files \in [DOMAIN files -> (SUBSET Mark) \ {{}}]
  /\ exports \in 0 .. MaxExports

\* The marks a player should have after the answers of this export: his own, what
\* the service says of his bans or, if it does not name him, what the lists say, and
\* the same of SourceBans if he was asked about.
Refreshed(p) ==
  {m \in Mark :
     \/ m = "own" /\ m \in OnLists[p]
     \/ m = "banned" /\ (IF p \in named[2] THEN p \in Banned ELSE m \in OnLists[p])
     \/ m = "sourceBanned" /\ (IF p \in covered[3] THEN p \in named[3] ELSE m \in OnLists[p])}

\* PlayerListExport.h, "drops accounts that no longer exist on Steam", "refreshes
\* VAC/game/SourceBan markers": the files are only ever replaced by a whole export.
\* Every player of the lists was looked up and all whom an answer returned are
\* there, and no others, but for those left without a mark; every one of them was
\* asked about at each service, and has the marks the answers give him.  A batch
\* that failed, was cut short or left out, or an earlier export, never shows.
OnlyWholeExports ==
  [][files' # files =>
       /\ files' = [p \in {q \in named[1] : Refreshed(q) # {}} |-> Refreshed(p)]
       /\ covered[1] = Players
       /\ DOMAIN files' \subseteq covered[2]
       /\ SourceBansOn => DOMAIN files' \subseteq covered[3]]_exportVars

\* PlayerListExport.h:37, "Requests the export to stop after the current API batch
\* completes": a cancelled export, by the button or by the destructor, ends.
CancelStops == cancel /\ running ~> ~running
===============================================================================
