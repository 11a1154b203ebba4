---------------------------- MODULE NetworkProofs ----------------------------
(***************************************************************************)
(* For any mixture of users of the HTTP client, in any number: they use it *)
(* as HttpClient says, so that its slots stay apart; the batched lookups   *)
(* never forget a player that is shown as in progress; and the export      *)
(* replaces its files by whole exports only.                               *)
(***************************************************************************)
EXTENDS Network, HttpClientProofs, FiniteSetTheorems

-----------------------------------------------------------------------------
(* The users implement HttpClient *)

\* What the assumptions say of each user.
LEMMA Users ==
  /\ \A s \in Service : s \in Caller /\ Serving[s] \in Endpoint
  /\ \A c \in Others : c \in Caller /\ Asks[c] \in Endpoint
  /\ Exporter \in Caller
  /\ \A i \in 1 .. 3 : Asking[Refreshing[i]] \in Endpoint
  BY LookupsAssumption, NetworkAssumption, ExportAssumption
     DEF LookupsAssumption, NetworkAssumption, ExportAssumption

\* A lookup sends a request, takes its result or leaves the client alone.
LEMMA LookupsUseClient ==
  ASSUME NEW s \in Service, UpdateLookups(s) PROVE [HttpNext]_httpVars
<1>1. CASE SendBatch(s)
  BY <1>1, Users DEF SendBatch, HttpNext
<1>2. CASE SendNothing(s)
  BY <1>2 DEF SendNothing
<1>3. CASE TakeAnswer(s) \/ TakeError(s)
  BY <1>3, Users DEF TakeAnswer, TakeError, HttpNext
<1> QED
  BY <1>1, <1>2, <1>3 DEF UpdateLookups

\* So does the export, on either thread.
LEMMA ExportUsesClient == ExportThread \/ ExportMain => [HttpNext]_httpVars
<1>1. ASSUME NEW i \in 1 .. 3, AskBatch(i) PROVE HttpNext
  BY <1>1, Users DEF AskBatch, HttpNext
<1>2. ASSUME NEW i \in 1 .. 3, TakeBatch(i) \/ BatchFailed(i) PROVE HttpNext
  BY <1>2, Users DEF TakeBatch, BatchFailed, HttpNext
<1>3. Gather \/ WriteFiles \/ (\E i \in 1 .. 3 : NoClient(i) \/ EndStage(i)) => UNCHANGED httpVars
  BY DEF Gather, NoClient, WriteFiles, EndStage
<1>4. ExportMain => UNCHANGED httpVars
  BY DEF ExportMain, StartExport, CancelExport, DropExporter, Joined
<1> QED
  BY <1>1, <1>2, <1>3, <1>4 DEF ExportThread

\* Every step of the whole is a step of the client, or none.
LEMMA NextUsesClient == [Next]_vars => [HttpNext]_httpVars
<1> SUFFICES ASSUME [Next]_vars PROVE [HttpNext]_httpVars
  OBVIOUS
<1>1. CASE MainLoop
  BY <1>1, LookupsUseClient DEF MainLoop, HttpNext
<1>2. CASE Events
  BY <1>2 DEF Events, View, ClearPlayers, SwitchService
<1>3. CASE OtherRequest
  BY <1>3, Users DEF OtherRequest, HttpNext
<1>4. CASE Export
  BY <1>4, ExportUsesClient DEF Export
<1>5. CASE Servers \/ Tick
  BY <1>5 DEF Servers, Tick, HttpNext
<1>6. CASE UNCHANGED vars
  BY <1>6 DEF vars
<1> QED
  BY <1>1, <1>2, <1>3, <1>4, <1>5, <1>6 DEF Next

\* Whoever uses the client, and with whatever other users: it is HttpClient.
THEOREM UsersImplementClient == Spec => HttpSpec
  BY NextUsesClient, PTL DEF Spec, Init, HttpSpec

\* So the slots of all users together keep the distance each host asks for, and
\* nobody's transfer goes to the pool before its slot.
THEOREM UsersKeepApart == Spec => SlotsApart
  BY UsersImplementClient, SlotsAlwaysApart, PTL

-----------------------------------------------------------------------------
(* The lookups forget nobody *)

\* The types of the two variables the invariant is about.
QueueTypeOK ==
  /\ data \in [Service -> [Id -> {"none", "pending", "known", "off"}]]
  /\ wanted \in [Service -> SUBSET Id]
  /\ asked \in [Service -> SUBSET Id]

QueueInv == QueueTypeOK /\ InProgressIsQueued

\* What happens to one service leaves the others alone.
LEMMA OneServiceQueued ==
  ASSUME QueueInv, NEW s \in Service,
         NEW d \in [Id -> {"none", "pending", "known", "off"}], NEW q \in SUBSET Id,
         \A id \in Id : d[id] = "pending" => id \in q,
         data' = [data EXCEPT ![s] = d], wanted' = [wanted EXCEPT ![s] = q],
         asked' \in [Service -> SUBSET Id]
  PROVE  QueueInv'
<1>1. QueueTypeOK'
  BY DEF QueueInv, QueueTypeOK
<1>2. ASSUME NEW r \in Service, NEW id \in Id, data'[r][id] = "pending"
      PROVE id \in wanted'[r]
  BY <1>2 DEF QueueInv, QueueTypeOK, InProgressIsQueued
<1> QED
  BY <1>1, <1>2 DEF QueueInv, InProgressIsQueued

\* Every step of BatchedAction::Update keeps who is in progress queued.
LEMMA LookupsKeepQueued ==
  ASSUME QueueInv, NEW s \in Service, UpdateLookups(s) PROVE QueueInv'
<1>1. /\ data[s] \in [Id -> {"none", "pending", "known", "off"}]
      /\ wanted[s] \in SUBSET Id /\ asked[s] \in SUBSET Id
      /\ \A id \in Id : data[s][id] = "pending" => id \in wanted[s]
  BY DEF QueueInv, QueueTypeOK, InProgressIsQueued
<1>2. CASE SendBatch(s)
  BY <1>1, <1>2 DEF SendBatch, QueueInv, QueueTypeOK, InProgressIsQueued
<1>3. CASE SendNothing(s)
  <2>1. UNCHANGED <<wanted, asked>>
    BY <1>3 DEF SendNothing
  <2>2. CASE UNCHANGED data
    BY <2>1, <2>2 DEF QueueInv, QueueTypeOK, InProgressIsQueued
  <2>3. CASE ~UNCHANGED data
    <3>1. PICK there \in SUBSET {id \in wanted[s] : data[s][id] = "none"} :
            data' = [data EXCEPT ![s] = [id \in Id |->
                       IF id \in there \/ (id \in wanted[s] /\ data[s][id] # "none") THEN "off" ELSE data[s][id]]]
      BY <1>3, <2>3 DEF SendNothing, QueueInv, QueueTypeOK
    <3> DEFINE d == [id \in Id |->
                       IF id \in there \/ (id \in wanted[s] /\ data[s][id] # "none") THEN "off" ELSE data[s][id]]
    <3>2. /\ d \in [Id -> {"none", "pending", "known", "off"}]
          /\ \A id \in Id : d[id] = "pending" => id \in wanted[s]
      BY <1>1
    <3>3. wanted' = [wanted EXCEPT ![s] = wanted[s]] /\ asked' \in [Service -> SUBSET Id]
      BY <2>1 DEF QueueInv, QueueTypeOK
    <3> HIDE DEF d
    <3> QED
      BY <1>1, <3>1, <3>2, <3>3, OneServiceQueued DEF d
  <2> QED
    BY <2>2, <2>3
<1>4. CASE TakeAnswer(s)
  <2> DEFINE d == [id \in Id |-> IF id \in AnswerOf(s) THEN "known" ELSE data[s][id]]
  <2>1. /\ data' = [data EXCEPT ![s] = d]
        /\ wanted' = [wanted EXCEPT ![s] = wanted[s] \ AnswerOf(s)]
        /\ asked' = [asked EXCEPT ![s] = {}]
    BY <1>4 DEF TakeAnswer, Kept, QueueInv, QueueTypeOK
  <2>2. /\ d \in [Id -> {"none", "pending", "known", "off"}]
        /\ \A id \in Id : d[id] = "pending" => id \in wanted[s] \ AnswerOf(s)
    BY <1>1
  <2>3. wanted[s] \ AnswerOf(s) \in SUBSET Id /\ asked' \in [Service -> SUBSET Id]
    BY <1>1, <2>1 DEF QueueInv, QueueTypeOK
  <2> HIDE DEF d
  <2> QED
    BY <2>1, <2>2, <2>3, OneServiceQueued
<1>5. CASE TakeError(s)
  BY <1>5 DEF TakeError, QueueInv, QueueTypeOK, InProgressIsQueued
<1> QED
  BY <1>2, <1>3, <1>4, <1>5 DEF UpdateLookups

\* The invariant holds of a new WorldState and every step preserves it.
LEMMA InitQueueInv == Init => QueueInv
  BY DEF Init, LookupsInit, QueueInv, QueueTypeOK, InProgressIsQueued

LEMMA NextQueueInv == QueueInv /\ [Next]_vars => QueueInv'
<1> SUFFICES ASSUME QueueInv, [Next]_vars PROVE QueueInv'
  OBVIOUS
<1>1. UNCHANGED lookupVars => QueueInv'
  BY DEF lookupVars, QueueInv, QueueTypeOK, InProgressIsQueued
<1>2. CASE MainLoop
  BY <1>1, <1>2, LookupsKeepQueued DEF MainLoop
<1>3. ASSUME NEW s \in Service, NEW id \in Id, View(s, id) PROVE QueueInv'
  <2> DEFINE d == [data[s] EXCEPT ![id] = "pending"]
             q == wanted[s] \union {id}
  <2>1. /\ data' = [data EXCEPT ![s] = d] /\ wanted' = [wanted EXCEPT ![s] = q]
        /\ asked' \in [Service -> SUBSET Id]
    BY <1>3 DEF View, QueueInv, QueueTypeOK
  <2>2. /\ d \in [Id -> {"none", "pending", "known", "off"}] /\ q \in SUBSET Id
        /\ \A i \in Id : d[i] = "pending" => i \in q
    BY DEF QueueInv, QueueTypeOK, InProgressIsQueued
  <2> HIDE DEF d, q
  <2> QED
    BY <2>1, <2>2, OneServiceQueued
<1>4. CASE ClearPlayers
  BY <1>4 DEF ClearPlayers, QueueInv, QueueTypeOK, InProgressIsQueued
<1>5. CASE \E s \in Service : SwitchService(s)
  BY <1>5 DEF SwitchService, QueueInv, QueueTypeOK, InProgressIsQueued
<1>6. CASE Events
  BY <1>3, <1>4, <1>5, <1>6 DEF Events
<1>7. CASE OtherRequest \/ Export \/ Servers \/ UNCHANGED vars
  BY <1>1, <1>7 DEF OtherRequest, Export, Servers, vars
<1>8. CASE Tick
  BY <1>8 DEF Tick, LookupsTick, QueueInv, QueueTypeOK, InProgressIsQueued
<1> QED
  BY <1>2, <1>6, <1>7, <1>8 DEF Next

\* BatchedAction and its three uses: however requests, answers, errors, lobbies and
\* settings interleave, a player that a view shows as in progress is still queued.
THEOREM InProgressAlwaysQueued == Spec => []InProgressIsQueued
<1>1. QueueInv => InProgressIsQueued
  BY DEF QueueInv
<1> QED
  BY <1>1, InitQueueInv, NextQueueInv, PTL DEF Spec

-----------------------------------------------------------------------------
(* Only whole exports *)

\* The players in the first n places of a stage's list.
FirstOf(ids, n) == {ids[k] : k \in {m \in DOMAIN ids : m <= n}}

\* Whom stage i is about: all players, later those returned, none of them when
\* SourceBans are switched off.
AskedIn(i, players) == IF i = 3 /\ ~SourceBansOn THEN {} ELSE players

\* Stage i goes through its list batch by batch, over those who remain; the stages
\* to come have not been heard of.
StageInv(i) ==
  /\ {allIDs[k] : k \in DOMAIN allIDs} = AskedIn(i, found)
  /\ \A k, n \in DOMAIN allIDs : allIDs[k] = allIDs[n] => k = n
  /\ covered[i] = FirstOf(allIDs, offset)
  /\ \A j \in 1 .. 3 : j > i => covered[j] = {} /\ named[j] = {}
  /\ named[1] \subseteq covered[1] /\ named[i] \subseteq covered[i]
  /\ i = 1 => found = Players
  /\ i > 1 => found = named[1] /\ covered[1] = Players
  /\ i = 3 => found \subseteq covered[2]

\* What holds when the files are written.
Complete ==
  /\ found = named[1] /\ covered[1] = Players
  /\ found \subseteq covered[2]
  /\ SourceBansOn => found \subseteq covered[3]

ExportTyped ==
  /\ allIDs \in Seq(Players) /\ offset \in Nat
  /\ found \in SUBSET Players
  /\ marks \in [Players -> SUBSET Mark]
  /\ covered \in [1 .. 3 -> SUBSET Players]
  /\ named \in [1 .. 3 -> SUBSET Players]

\* Every player has the marks the answers so far give him.
MarksInv == \A p \in Players : marks[p] = Refreshed(p)

ExportInv ==
  /\ ExportTyped
  /\ running /\ stage = "gathering" => covered = Nobody /\ named = Nobody
  /\ \A i \in 1 .. 3 : running /\ stage = Refreshing[i] => StageInv(i) /\ MarksInv
  /\ running /\ stage = "writing" => Complete /\ MarksInv

LEMMA StageNames ==
  /\ \A i, j \in 1 .. 3 : Refreshing[i] = Refreshing[j] => i = j
  /\ \A i \in 1 .. 3 : Refreshing[i] \notin {"none", "gathering", "writing", "finished", "failed"}
BY DEF Refreshing

\* CollectSteamIDs lists a set of players.
LEMMA AllAreListed ==
  ASSUME NEW players \in SUBSET Players
  PROVE  /\ CollectSteamIDs(players) \in Seq(Players)
         /\ {CollectSteamIDs(players)[k] : k \in DOMAIN CollectSteamIDs(players)} = players
         /\ \A k, n \in DOMAIN CollectSteamIDs(players) :
              CollectSteamIDs(players)[k] = CollectSteamIDs(players)[n] => k = n
<1>1. IsFiniteSet(players)
  <2>1. IsFiniteSet(Players)
    BY ExportAssumption, FS_Interval DEF Players
  <2> QED
    BY <2>1, FS_Subset
<1> DEFINE n == Cardinality(players)
           Lists(ids) == /\ \A p \in players : \E i \in DOMAIN ids : ids[i] = p
                         /\ \A i, j \in DOMAIN ids : ids[i] = ids[j] => i = j
<1>2. n \in Nat /\ ExistsBijection(1 .. n, players)
  BY <1>1, FS_CardinalityType
<1>3. \E ids \in [1 .. n -> players] : Lists(ids)
  BY <1>2 DEF ExistsBijection, Bijection, Surjection, Injection, IsInjective
<1> DEFINE ids == CollectSteamIDs(players)
<1>4. ids \in [1 .. n -> players] /\ Lists(ids)
  BY <1>3 DEF CollectSteamIDs
<1> HIDE DEF n, ids
<1>5. ids \in Seq(Players)
  BY <1>2, <1>4
<1>6. {ids[k] : k \in DOMAIN ids} = players
  BY <1>4
<1> QED
  BY <1>4, <1>5, <1>6 DEF ids

\* The next stage begins with nothing done.
LEMMA StageBegins ==
  ASSUME NEW i \in 1 .. 3, NEW players \in SUBSET Players, Begin(i, players)
  PROVE  /\ allIDs' \in Seq(Players) /\ offset' = 0 /\ stage' = Refreshing[i]
         /\ {allIDs'[k] : k \in DOMAIN allIDs'} = players
         /\ \A k, n \in DOMAIN allIDs' : allIDs'[k] = allIDs'[n] => k = n
         /\ FirstOf(allIDs', offset') = {}
<1>1. /\ allIDs' \in Seq(Players) /\ offset' = 0 /\ stage' = Refreshing[i]
      /\ {allIDs'[k] : k \in DOMAIN allIDs'} = players
      /\ \A k, n \in DOMAIN allIDs' : allIDs'[k] = allIDs'[n] => k = n
  BY AllAreListed DEF Begin
<1>2. FirstOf(allIDs', 0) = {}
  BY <1>1 DEF FirstOf
<1> QED
  BY <1>1, <1>2

\* A batch adds the players in its places, who were in none before.
LEMMA BatchIsNext ==
  ASSUME ExportTyped
  PROVE  /\ FirstOf(allIDs, offset + ExportBatch) = FirstOf(allIDs, offset) \union BatchIDs
         /\ BatchIDs \in SUBSET Players
         /\ (\A k, n \in DOMAIN allIDs : allIDs[k] = allIDs[n] => k = n)
              => BatchIDs \intersect FirstOf(allIDs, offset) = {}
<1>1. ExportBatch \in Nat /\ offset \in Nat /\ Len(allIDs) \in Nat /\ DOMAIN allIDs = 1 .. Len(allIDs)
  BY ExportAssumption DEF ExportTyped
<1>2. {m \in DOMAIN allIDs : m <= offset + ExportBatch} =
        {m \in DOMAIN allIDs : m <= offset} \union (offset + 1 .. BatchEnd)
  BY <1>1 DEF BatchEnd
<1>3. \A k \in offset + 1 .. BatchEnd : k \in DOMAIN allIDs /\ k > offset /\ allIDs[k] \in Players
  BY <1>1 DEF BatchEnd, ExportTyped
<1> QED
  BY <1>1, <1>2, <1>3 DEF FirstOf, BatchIDs

\* The marks an answer leaves are those it should.
LEMMA MarksAreRefreshed ==
  ASSUME ExportTyped, MarksInv, NEW i \in 1 .. 3,
         NEW answer \in SUBSET BatchIDs, BatchIDs \in SUBSET Players,
         i < 3 => covered[3] = {} /\ named[3] = {},
         named[3] \intersect BatchIDs = {},
         marks' = MarksAfter(i, answer),
         covered'[i] = covered[i] \union BatchIDs, named'[i] = named[i] \union answer,
         \A j \in 1 .. 3 \ {i} : covered'[j] = covered[j] /\ named'[j] = named[j]
  PROVE  MarksInv' /\ marks' \in [Players -> SUBSET Mark]
<1> SUFFICES ASSUME NEW p \in Players
             PROVE  marks'[p] = Refreshed(p)' /\ marks'[p] \in SUBSET Mark
  BY DEF MarksInv, MarksAfter
<1>1. marks[p] = Refreshed(p) /\ marks[p] \in SUBSET Mark
  BY DEF MarksInv, ExportTyped
<1>2. CASE i = 1
  <2>1. marks'[p] = marks[p] /\ named'[2] = named[2] /\ named'[3] = named[3] /\ covered'[3] = covered[3]
    BY <1>2 DEF MarksAfter
  <2> QED
    BY <1>1, <2>1 DEF Refreshed
<1>3. CASE i = 2
  <2>1. /\ marks'[p] = IF p \in answer THEN SetAttribute(marks[p], "banned", p \in Banned) ELSE marks[p]
        /\ named'[2] = named[2] \union answer
        /\ named'[3] = named[3] /\ covered'[3] = covered[3]
    BY <1>3 DEF MarksAfter
  <2> QED
    BY <1>1, <2>1 DEF Refreshed, SetAttribute, Mark
<1>4. CASE i = 3
  <2>1. /\ marks'[p] = IF p \in BatchIDs THEN SetAttribute(marks[p], "sourceBanned", p \in answer)
                                         ELSE marks[p]
        /\ named'[2] = named[2]
        /\ named'[3] = named[3] \union answer /\ covered'[3] = covered[3] \union BatchIDs
    BY <1>4 DEF MarksAfter
  <2>2. p \in BatchIDs => p \notin named[3]
    OBVIOUS
  <2> QED
    BY <1>1, <2>1, <2>2 DEF Refreshed, SetAttribute, Mark
<1> QED
  BY <1>2, <1>3, <1>4

LEMMA InitExportInv == Init => ExportInv
<1> SUFFICES ASSUME Init PROVE ExportInv
  OBVIOUS
<1>1. ExportTyped /\ stage = "none"
  BY ExportAssumption DEF Init, ExportInit, ExportTyped, Nobody
<1> QED
  BY <1>1, StageNames DEF ExportInv

\* A stage that begins after another has its invariant.
LEMMA StageFollows ==
  ASSUME NEW i \in 1 .. 3, ExportTyped, Begin(i, AskedIn(i, found')),
         found' \in SUBSET Players, marks' \in [Players -> SUBSET Mark],
         UNCHANGED <<covered, named>>,
         \A j \in 1 .. 3 : j >= i => covered[j] = {} /\ named[j] = {},
         named[1] \subseteq covered[1],
         i = 1 => found' = Players,
         i > 1 => found' = named[1] /\ covered[1] = Players,
         i = 3 => found' \subseteq covered[2]
  PROVE  ExportTyped' /\ stage' = Refreshing[i] /\ StageInv(i)'
<1>1. AskedIn(i, found') \in SUBSET Players
  BY DEF AskedIn
<1>2. /\ allIDs' \in Seq(Players) /\ offset' = 0 /\ stage' = Refreshing[i]
      /\ {allIDs'[k] : k \in DOMAIN allIDs'} = AskedIn(i, found')
      /\ \A k, n \in DOMAIN allIDs' : allIDs'[k] = allIDs'[n] => k = n
      /\ FirstOf(allIDs', offset') = {}
  BY <1>1, StageBegins
<1>3. ExportTyped'
  BY <1>2 DEF ExportTyped
<1>4. covered'[i] = {} /\ named'[i] = {}
  OBVIOUS
<1>5. \A j \in 1 .. 3 : j > i => covered'[j] = {} /\ named'[j] = {}
  OBVIOUS
<1>6. /\ named'[1] \subseteq covered'[1]
      /\ i = 1 => found' = Players
      /\ i > 1 => found' = named'[1] /\ covered'[1] = Players
      /\ i = 3 => found' \subseteq covered'[2]
  OBVIOUS
<1> DEFINE asks == AskedIn(i, found')
<1>7. asks = AskedIn(i, found)'
  BY DEF AskedIn
<1> HIDE DEF asks
<1>8. StageInv(i)'
  BY <1>2, <1>4, <1>5, <1>6, <1>7 DEF StageInv, asks
<1> QED
  BY <1>2, <1>3, <1>8

\* Nothing has been answered yet when the players have just been gathered.
LEMMA GatherKeepsExport == ExportInv /\ Gather => ExportInv'
<1> SUFFICES ASSUME ExportInv, Gather PROVE ExportInv'
  OBVIOUS
<1>1. /\ found' = Players /\ marks' = OnLists /\ covered' = Nobody /\ named' = Nobody
      /\ UNCHANGED <<covered, named>> /\ ExportTyped
  BY DEF Gather, ExportInv
<1>2. marks' \in [Players -> SUBSET Mark]
  BY <1>1, ExportAssumption
<1>3. CASE ~running'
  <2>1. UNCHANGED <<allIDs, offset>>
    BY <1>3 DEF Gather, Stop
  <2>2. ExportTyped'
    BY <1>1, <1>2, <2>1 DEF ExportTyped
  <2> QED
    BY <1>3, <2>2 DEF ExportInv
<1>4. CASE running'
  <2>1. Begin(1, AskedIn(1, found'))
    BY <1>1, <1>4 DEF Gather, Stop, EndAt, AskedIn
  <2>2. ExportTyped' /\ stage' = Refreshing[1] /\ StageInv(1)'
    BY <1>1, <1>2, <2>1, StageFollows DEF Nobody
  <2>3. ASSUME NEW p \in Players
        PROVE  marks'[p] = Refreshed(p)'
    <3>1. marks'[p] \in SUBSET Mark /\ marks'[p] = OnLists[p]
      BY <1>1, <1>2
    <3> QED
      BY <1>1, <3>1 DEF Refreshed, Nobody, Mark
  <2> QED
    BY <2>2, <2>3, StageNames DEF ExportInv, MarksInv
<1> QED
  BY <1>3, <1>4

\* An answer covers the next batch, whoever it leaves out.
LEMMA BatchKeepsExport ==
  ASSUME ExportInv, NEW i \in 1 .. 3, TakeBatch(i)
  PROVE  ExportInv'
<1>1. /\ offset' = offset + ExportBatch /\ covered' = [covered EXCEPT ![i] = covered[i] \union BatchIDs]
      /\ UNCHANGED <<stage, running, allIDs, found>> /\ stage = Refreshing[i] /\ running
  BY DEF TakeBatch
<1>2. PICK answer \in SUBSET (BatchIDs \intersect Nameable[i]) :
        named' = [named EXCEPT ![i] = named[i] \union answer] /\ marks' = MarksAfter(i, answer)
  BY DEF TakeBatch
<1>3. ExportTyped /\ StageInv(i) /\ MarksInv
  BY <1>1 DEF ExportInv
<1>4. /\ FirstOf(allIDs, offset') = FirstOf(allIDs, offset) \union BatchIDs
      /\ BatchIDs \in SUBSET Players
      /\ BatchIDs \intersect FirstOf(allIDs, offset) = {}
  BY <1>1, <1>3, BatchIsNext DEF StageInv
<1>5. answer \in SUBSET BatchIDs
  BY <1>2
<1>6. /\ covered'[i] = covered[i] \union BatchIDs /\ named'[i] = named[i] \union answer
      /\ \A j \in 1 .. 3 \ {i} : covered'[j] = covered[j] /\ named'[j] = named[j]
  BY <1>1, <1>2, <1>3 DEF ExportTyped
<1>7. MarksInv' /\ marks' \in [Players -> SUBSET Mark]
  <2>1. i < 3 => covered[3] = {} /\ named[3] = {}
    BY <1>3 DEF StageInv
  <2>2. named[3] \intersect BatchIDs = {}
    BY <1>3, <1>4, <2>1 DEF StageInv
  <2> QED
    BY <1>2, <1>3, <1>4, <1>5, <1>6, <2>1, <2>2, MarksAreRefreshed
<1>8. ExportTyped'
  <2>1. covered' \in [1 .. 3 -> SUBSET Players] /\ named' \in [1 .. 3 -> SUBSET Players]
    BY <1>1, <1>2, <1>3, <1>4, <1>5 DEF ExportTyped
  <2> QED
    BY <1>1, <1>3, <1>7, <2>1, ExportAssumption DEF ExportTyped
<1>9. StageInv(i)'
  BY <1>1, <1>3, <1>4, <1>5, <1>6 DEF StageInv, AskedIn
<1> QED
  BY <1>1, <1>7, <1>8, <1>9, StageNames DEF ExportInv

\* A stage that ends has covered all its players, or the export is over.
LEMMA EndKeepsExport ==
  ASSUME ExportInv, NEW i \in 1 .. 3, EndStage(i)
  PROVE  ExportInv'
<1> DEFINE kept == IF i = 1 THEN found \ (covered[1] \ named[1]) ELSE found
<1>1. /\ found' = kept /\ UNCHANGED <<marks, covered, named>> /\ NextStage(i, kept)
      /\ stage = Refreshing[i] /\ running /\ (~MoreBatches \/ cancel)
  BY DEF EndStage
<1>2. ExportTyped /\ StageInv(i) /\ MarksInv
  BY <1>1 DEF ExportInv
<1>3. kept \in SUBSET Players
  BY <1>2 DEF ExportTyped
<1>4. MarksInv'
  BY <1>1, <1>2 DEF MarksInv, Refreshed
<1>5. CASE cancel
  <2>1. UNCHANGED <<allIDs, offset>> /\ ~running'
    BY <1>1, <1>5 DEF NextStage, Stop, EndAt
  <2>2. ExportTyped'
    BY <1>1, <1>2, <1>3, <2>1 DEF ExportTyped
  <2> QED
    BY <2>1, <2>2 DEF ExportInv
<1>6. CASE ~cancel
  <2>1. covered[i] = AskedIn(i, found)
    <3>1. \A m \in DOMAIN allIDs : m <= offset
      BY <1>1, <1>2, <1>6 DEF MoreBatches, ExportTyped
    <3>2. {m \in DOMAIN allIDs : m <= offset} = DOMAIN allIDs
      BY <3>1
    <3> QED
      BY <1>2, <3>2 DEF FirstOf, StageInv
  <2>2. kept = named[1] /\ covered[1] = Players
    BY <1>2, <2>1 DEF StageInv, AskedIn, ExportTyped
  <2>3. i > 1 => kept \subseteq covered[2]
    BY <1>2, <2>1 DEF StageInv, AskedIn
  <2>4. i = 3 /\ SourceBansOn => kept \subseteq covered[3]
    BY <2>1 DEF AskedIn
  <2> HIDE DEF kept
  <2>5. CASE i < 3
    <3>1. i + 1 \in 1 .. 3 /\ i + 1 > 1 /\ (i + 1 = 3 <=> i = 2)
      BY <2>5
    <3>2. Begin(i + 1, AskedIn(i + 1, found')) /\ running'
      BY <1>1, <1>6, <2>5, <3>1 DEF NextStage, AskedIn
    <3>3. \A j \in 1 .. 3 : j >= i + 1 => covered[j] = {} /\ named[j] = {}
      BY <1>2 DEF StageInv
    <3>4. named[1] \subseteq covered[1] /\ marks' \in [Players -> SUBSET Mark]
      BY <1>1, <1>2 DEF StageInv, ExportTyped
    <3>5. ExportTyped' /\ stage' = Refreshing[i + 1] /\ StageInv(i + 1)'
      BY <1>1, <1>2, <1>3, <2>2, <2>3, <3>1, <3>2, <3>3, <3>4, StageFollows
    <3> QED
      BY <1>4, <3>1, <3>5, StageNames DEF ExportInv
  <2>6. CASE i = 3
    <3>1. stage' = "writing" /\ UNCHANGED <<allIDs, offset>>
      BY <1>1, <1>6, <2>6 DEF NextStage
    <3>2. Complete'
      BY <1>1, <2>2, <2>3, <2>4, <2>6 DEF Complete
    <3>3. ExportTyped'
      BY <1>1, <1>2, <1>3, <3>1 DEF ExportTyped
    <3> QED
      BY <1>4, <3>1, <3>2, <3>3, StageNames DEF ExportInv
  <2> QED
    BY <2>5, <2>6
<1> QED
  BY <1>5, <1>6

\* Every step of the export thread preserves the invariant.
LEMMA ThreadKeepsExport == ExportInv /\ ExportThread => ExportInv'
<1> SUFFICES ASSUME ExportInv, ExportThread PROVE ExportInv'
  OBVIOUS
<1>1. ASSUME NEW i \in 1 .. 3, AskBatch(i)
      PROVE  ExportInv'
  BY <1>1 DEF AskBatch, exportVars, ExportInv, ExportTyped, StageInv, MarksInv, Complete, Refreshed
<1>2. ASSUME ~running', UNCHANGED <<allIDs, offset, found, marks, covered, named>>
      PROVE  ExportInv'
  BY <1>2 DEF ExportInv, ExportTyped
<1>3. ASSUME NEW i \in 1 .. 3, NoClient(i) \/ BatchFailed(i)
      PROVE  ExportInv'
  BY <1>2, <1>3 DEF NoClient, BatchFailed, EndAt
<1>4. CASE WriteFiles
  BY <1>2, <1>4 DEF WriteFiles, EndAt
<1> QED
  BY <1>1, <1>3, <1>4, GatherKeepsExport, BatchKeepsExport, EndKeepsExport DEF ExportThread

LEMMA NextExportInv == ExportInv /\ [Next]_vars => ExportInv'
<1> SUFFICES ASSUME ExportInv, [Next]_vars PROVE ExportInv'
  OBVIOUS
<1>1. CASE ExportThread
  BY <1>1, ThreadKeepsExport
<1>2. CASE StartExport
  <2>1. /\ stage' = "gathering" /\ found' = {} /\ allIDs' = <<>> /\ offset' = 0
        /\ covered' = Nobody /\ named' = Nobody /\ marks' = marks /\ ExportTyped
    BY <1>2 DEF StartExport, ExportInv
  <2>2. ExportTyped'
    BY <2>1 DEF ExportTyped, Nobody
  <2> QED
    BY <2>1, <2>2, StageNames DEF ExportInv
<1>3. CASE Joined
  <2>1. ~running' /\ UNCHANGED <<allIDs, offset, found, marks, covered, named>> /\ ExportTyped
    BY <1>3 DEF Joined, ExportInv
  <2> QED
    BY <2>1 DEF ExportInv, ExportTyped
<1>4. ASSUME UNCHANGED <<stage, running, allIDs, offset, found, marks, covered, named>>
      PROVE  ExportInv'
  BY <1>4 DEF ExportInv, ExportTyped, StageInv, MarksInv, Complete, Refreshed
<1>5. UNCHANGED exportVars \/ CancelExport \/ DropExporter \/ Joined \/ StartExport \/ ExportThread
  BY DEF Next, MainLoop, Events, OtherRequest, Export, ExportMain, Servers, Tick, vars
<1> QED
  BY <1>1, <1>2, <1>3, <1>4, <1>5 DEF exportVars, CancelExport, DropExporter

\* PlayerListExporter: whatever batches fail or answers leave out, whenever it is
\* cancelled, started anew or dropped, the files are replaced by a whole export or
\* not at all: the players returned who have a mark, each with the marks the answers
\* of this export give him.
THEOREM ExportsAlwaysWhole == Spec => OnlyWholeExports
<1> DEFINE Whole == files' # files =>
       /\ files' = [p \in {q \in named[1] : Refreshed(q) # {}} |-> Refreshed(p)]
       /\ covered[1] = Players
       /\ DOMAIN files' \subseteq covered[2]
       /\ SourceBansOn => DOMAIN files' \subseteq covered[3]
<1>1. ExportInv /\ [Next]_vars => [Whole]_exportVars
  <2> SUFFICES ASSUME ExportInv, [Next]_vars, files' # files PROVE Whole
    OBVIOUS
  <2>1. WriteFiles
    BY DEF Next, MainLoop, Events, OtherRequest, Export, ExportThread, ExportMain, Servers, Tick, vars,
           exportVars, Gather, NoClient, AskBatch, TakeBatch, BatchFailed, EndStage,
           StartExport, CancelExport, DropExporter, Joined
  <2>2. Complete /\ MarksInv /\ ExportTyped
    BY <2>1 DEF WriteFiles, ExportInv
  <2>3. files' = [p \in {q \in found : marks[q] # {}} |-> marks[p]]
    BY <2>1 DEF WriteFiles
  <2>4. found \subseteq Players /\ \A p \in Players : marks[p] = Refreshed(p)
    BY <2>2 DEF MarksInv, ExportTyped
  <2>5. {q \in found : marks[q] # {}} = {q \in named[1] : Refreshed(q) # {}}
    BY <2>2, <2>4 DEF Complete
  <2>6. files' = [p \in {q \in named[1] : Refreshed(q) # {}} |-> Refreshed(p)]
    BY <2>3, <2>4, <2>5
  <2>7. DOMAIN files' \subseteq found
    BY <2>3
  <2> QED
    BY <2>2, <2>6, <2>7 DEF Complete
<1> QED
  BY <1>1, InitExportInv, NextExportInv, PTL DEF Spec, OnlyWholeExports

-----------------------------------------------------------------------------
(* Types *)

\* The variables of the lookups that QueueTypeOK leaves out.
RestOfLookupsOK ==
  /\ cooldown \in [Service -> 0 .. UpdateInterval]
  /\ on \subseteq Service
  /\ changes \in 0 .. MaxChanges

\* The files hold players, each with a mark.
FilesOK == DOMAIN files \subseteq Players /\ files \in [DOMAIN files -> (SUBSET Mark) \ {{}}]

\* Those of the export that ExportInv leaves out.
RestOfExportOK ==
  /\ stage \in Stages
  /\ running \in BOOLEAN /\ cancel \in BOOLEAN /\ joining \in BOOLEAN
  /\ FilesOK
  /\ exports \in 0 .. MaxExports

LEMMA NextLookupsTypes == RestOfLookupsOK /\ [Next]_vars => RestOfLookupsOK'
<1> SUFFICES ASSUME RestOfLookupsOK, [Next]_vars PROVE RestOfLookupsOK'
  OBVIOUS
<1> USE LookupsAssumption DEF RestOfLookupsOK
<1>1. ASSUME NEW s \in Service, UpdateLookups(s) PROVE RestOfLookupsOK'
  <2>1. /\ UNCHANGED <<on, changes>>
        /\ cooldown' = cooldown \/ cooldown' = [cooldown EXCEPT ![s] = UpdateInterval]
    BY <1>1 DEF UpdateLookups, SendBatch, SendNothing, TakeAnswer, TakeError
  <2>2. UpdateInterval \in 0 .. UpdateInterval
    OBVIOUS
  <2> QED
    BY <2>1, <2>2
<1>2. CASE Events
  BY <1>2 DEF Events, View, ClearPlayers, SwitchService
<1>3. CASE Tick
  BY <1>3 DEF Tick, LookupsTick
<1>4. ASSUME UNCHANGED lookupVars PROVE RestOfLookupsOK'
  BY <1>4 DEF lookupVars
<1> QED
  BY <1>1, <1>2, <1>3, <1>4 DEF Next, MainLoop, OtherRequest, Export, Servers, vars

LEMMA NextExportTypes ==
  ExportInv /\ RestOfExportOK /\ [Next]_vars => RestOfExportOK'
<1> SUFFICES ASSUME ExportInv, RestOfExportOK, [Next]_vars PROVE RestOfExportOK'
  OBVIOUS
<1> USE DEF RestOfExportOK
<1>0. UNCHANGED files => FilesOK'
  BY DEF FilesOK
<1>1. /\ \A i \in 1 .. 3 : Refreshing[i] \in Stages
      /\ "none" \in Stages /\ "gathering" \in Stages /\ "writing" \in Stages
      /\ "finished" \in Stages /\ "failed" \in Stages
  BY DEF Stages
<1>2. CASE StartExport
  <2>1. exports' \in 0 .. MaxExports
    BY <1>2, ExportAssumption DEF StartExport
  <2> QED
    BY <1>0, <1>1, <1>2, <2>1 DEF StartExport
<1>3. CASE CancelExport \/ DropExporter \/ Joined
  BY <1>0, <1>1, <1>3 DEF CancelExport, DropExporter, Joined
<1>4. CASE Gather
  <2>1. Refreshing[1] \in Stages
    BY <1>1
  <2>2. stage' \in Stages /\ running' \in BOOLEAN
    BY <1>1, <1>4, <2>1 DEF Gather, Stop, EndAt, Begin
  <2>3. UNCHANGED <<cancel, joining, files, exports>>
    BY <1>4 DEF Gather
  <2> QED
    BY <1>0, <2>2, <2>3
<1>5. ASSUME NEW i \in 1 .. 3, NoClient(i) \/ AskBatch(i) \/ TakeBatch(i) \/ BatchFailed(i)
      PROVE  RestOfExportOK'
  BY <1>0, <1>1, <1>5 DEF NoClient, AskBatch, TakeBatch, BatchFailed, EndAt, exportVars
<1>6. ASSUME NEW i \in 1 .. 3, EndStage(i)
      PROVE  RestOfExportOK'
  <2>1. stage' \in {stage, "writing"} \/ (i < 3 /\ stage' = Refreshing[i + 1])
    BY <1>6 DEF EndStage, NextStage, Stop, EndAt, Begin
  <2>2. stage' \in Stages
    BY <1>1, <2>1
  <2> QED
    BY <1>0, <1>6, <2>2 DEF EndStage, NextStage, Stop, EndAt, Begin
<1>7. CASE WriteFiles
  <2> DEFINE written == [p \in {q \in found : marks[q] # {}} |-> marks[p]]
  <2>1. found \subseteq Players /\ marks \in [Players -> SUBSET Mark]
    BY DEF ExportInv, ExportTyped
  <2>2. DOMAIN written \subseteq Players /\ written \in [DOMAIN written -> (SUBSET Mark) \ {{}}]
    BY <2>1
  <2>3. files' \in {files, written}
    BY <1>7 DEF WriteFiles
  <2> HIDE DEF written
  <2>4. FilesOK'
    BY <2>2, <2>3 DEF FilesOK
  <2> QED
    BY <1>1, <1>7, <2>4 DEF WriteFiles, EndAt
<1>8. ASSUME UNCHANGED exportVars PROVE RestOfExportOK'
  BY <1>0, <1>8 DEF exportVars
<1> QED
  BY <1>2, <1>3, <1>4, <1>5, <1>6, <1>7, <1>8
     DEF Next, MainLoop, Events, OtherRequest, Export, ExportThread, ExportMain, Servers, Tick, vars

\* The types of the whole: of the client, the lookups and the export.
THEOREM NetworkTypeCorrect == Spec => []TypeOK
<1>1. Init => RestOfLookupsOK /\ RestOfExportOK
  <2> SUFFICES ASSUME Init PROVE RestOfLookupsOK /\ RestOfExportOK
    OBVIOUS
  <2>1. RestOfLookupsOK
    BY LookupsAssumption DEF Init, LookupsInit, RestOfLookupsOK
  <2>2. RestOfExportOK
    <3>1. 0 \in 0 .. MaxExports
      BY ExportAssumption
    <3>2. stage = "none" /\ running = FALSE /\ cancel = FALSE /\ joining = FALSE /\ files = <<>> /\ exports = 0
      BY DEF Init, ExportInit
    <3>3. FilesOK
      BY <3>2 DEF FilesOK
    <3> QED
      BY <3>1, <3>2, <3>3 DEF RestOfExportOK, Stages
  <2> QED
    BY <2>1, <2>2
<1>2. QueueInv /\ RestOfLookupsOK => LookupsTypeOK
  BY DEF QueueInv, QueueTypeOK, RestOfLookupsOK, LookupsTypeOK
<1>3. ExportInv /\ RestOfExportOK => ExportTypeOK
  BY DEF ExportInv, ExportTyped, RestOfExportOK, FilesOK, ExportTypeOK
<1>4. HttpTypeOK /\ LookupsTypeOK /\ ExportTypeOK => TypeOK
  BY DEF TypeOK
<1> QED
  BY <1>1, <1>2, <1>3, <1>4, UsersImplementClient, HttpTypeCorrect, NextLookupsTypes, NextExportTypes,
     InitQueueInv, NextQueueInv, InitExportInv, NextExportInv, PTL DEF Spec
=============================================================================
