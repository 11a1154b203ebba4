------------------------------- MODULE Lookups -------------------------------
(***************************************************************************)
(* BatchedAction and its three uses in WorldState: what views want to know *)
(* of a player is queued per service, the main loop sends a batch at a     *)
(* time, and an answer takes the players it was about off the queue.       *)
(* Players vanish with their lobby and services are switched off and on    *)
(* while a request is under way.                                           *)
(***************************************************************************)
EXTENDS HttpClient

CONSTANTS
  Service,         \* "summary", "bans" and "source", or some of them
  Serving,         \* the endpoint of each service
  Id,              \* SteamIDs
  Unknown,         \* the ids of which Steam returns nothing
  Batch,           \* how many ids Take100 takes
  UpdateInterval,  \* BatchedAction::MIN_INTERVAL, in ticks
  MaxChanges       \* bound: how often a lobby or the settings change

ASSUME LookupsAssumption ==
  /\ Service \subseteq Caller /\ Service \subseteq {"summary", "bans", "source"}
  /\ Serving \in [Service -> Endpoint]
  /\ Unknown \subseteq Id
  /\ Batch \in Nat \ {0}
  /\ UpdateInterval \in Nat
  /\ MaxChanges \in Nat

VARIABLES
  data,      \* what the player table has of each id, per service
  wanted,    \* m_Queued of each service
  asked,     \* the ids of the request under way (m_Requested)
  cooldown,  \* time until m_LastUpdate is MIN_INTERVAL ago
  on,        \* the services the settings allow
  changes

lookupVars == <<data, wanted, asked, cooldown, on, changes>>

LookupsInit ==
  /\ data = [s \in Service |-> [id \in Id |-> "none"]]
  /\ wanted = [s \in Service |-> {}]
  /\ asked = [s \in Service |-> {}]
  /\ cooldown = [s \in Service |-> 0]
  /\ on = Service
  /\ changes = 0

-----------------------------------------------------------------------------

\* The getters of Player: ask at the first sight of a player.  Bans, unlike the
\* summary, are asked for again once a service that was off may be used.
LooksUp(s, id) ==
  \/ data[s][id] = "none"
  \/ s \in {"bans", "source"} /\ data[s][id] = "off" /\ s \in on

View(s, id) ==
  /\ LooksUp(s, id)
  /\ data' = [data EXCEPT ![s][id] = "pending"]
  /\ wanted' = [wanted EXCEPT ![s] = @ \union {id}]
  /\ UNCHANGED <<httpVars, asked, cooldown, on, changes>>

\* BatchedAction::Update may send: something is queued, no request is under way
\* and the last one was sent long enough ago.
MaySend(s) == wanted[s] # {} /\ phase[s] = "empty" /\ cooldown[s] = 0

\* SendRequest: the first Batch ids, in an order the hashes decide.
SendBatch(s) ==
  /\ MaySend(s) /\ s \in on
  /\ \E ids \in SUBSET wanted[s] :
       /\ Cardinality(ids) = IF Cardinality(wanted[s]) < Batch THEN Cardinality(wanted[s])
                                                               ELSE Batch
       /\ asked' = [asked EXCEPT ![s] = ids]
  /\ cooldown' = [cooldown EXCEPT ![s] = UpdateInterval]
  /\ Ask(s, Serving[s])
  /\ UNCHANGED <<data, wanted, on, changes>>

\* SendRequest with the service off: without any client nobody is told; else the
\* queued players that are in the table are, and stay queued.  One that nobody has
\* looked at may be in the table.
SendNothing(s) ==
  /\ MaySend(s) /\ s \notin on
  /\ \/ UNCHANGED data
     \/ \E there \in SUBSET {id \in wanted[s] : data[s][id] = "none"} :
          data' = [data EXCEPT ![s] = [id \in Id |->
                     IF id \in there \/ (id \in wanted[s] /\ @[id] # "none") THEN "off" ELSE @[id]]]
  /\ cooldown' = [cooldown EXCEPT ![s] = UpdateInterval]
  /\ UNCHANGED <<httpVars, wanted, asked, on, changes>>

\* The players an answer is about: SteamHistory leaves out those without bans,
\* Steam those it does not know.
AnswerOf(s) == IF s = "source" THEN asked[s] ELSE asked[s] \ Unknown

\* Mutant of Kept: "we can safely clear our queue", all of it.
KeptNone(s) == {}

\* What OnDataReady leaves queued.
Kept(s) == wanted[s] \ AnswerOf(s)

\* Update finds the answer and gives it to OnDataReady; the players of a lobby
\* that is gone are created again.
TakeAnswer(s) ==
  /\ phase[s] = "value"
  /\ Drop(s)
  /\ data' = [data EXCEPT ![s] = [id \in Id |-> IF id \in AnswerOf(s) THEN "known" ELSE @[id]]]
  /\ wanted' = [wanted EXCEPT ![s] = Kept(s)]
  /\ asked' = [asked EXCEPT ![s] = {}]
  /\ UNCHANGED <<cooldown, on, changes>>

\* Mutant of TakeError: the future is kept, and its error found again for ever.
KeepError(s) ==
  /\ phase[s] = "exception"
  /\ UNCHANGED <<httpVars, lookupVars>>

\* Update finds an exception: it is logged, and the ids stay queued.
TakeError(s) ==
  /\ phase[s] = "exception"
  /\ Drop(s)
  /\ asked' = [asked EXCEPT ![s] = {}]
  /\ UNCHANGED <<data, wanted, cooldown, on, changes>>

\* ClearLobbyState: the players are dropped, the queues are not.
ClearPlayers ==
  /\ changes < MaxChanges
  /\ changes' = changes + 1
  /\ data' = [s \in Service |-> [id \in Id |-> "none"]]
  /\ UNCHANGED <<httpVars, wanted, asked, cooldown, on>>

\* The user switches a service off or on.
SwitchService(s) ==
  /\ changes < MaxChanges
  /\ changes' = changes + 1
  /\ on' = IF s \in on THEN on \ {s} ELSE on \union {s}
  /\ UNCHANGED <<httpVars, data, wanted, asked, cooldown>>

LookupsTick ==
  /\ cooldown' = [s \in Service |-> IF cooldown[s] > 0 THEN cooldown[s] - 1 ELSE 0]
  /\ UNCHANGED <<data, wanted, asked, on, changes>>

\* The steps of BatchedAction::Update, all on the main thread.
UpdateLookups(s) == SendBatch(s) \/ SendNothing(s) \/ TakeAnswer(s) \/ TakeError(s)

-----------------------------------------------------------------------------
(* Properties *)

LookupsTypeOK ==
  /\ data \in [Service -> [Id -> {"none", "pending", "known", "off"}]]
  /\ wanted \in [Service -> SUBSET Id]
  /\ asked \in [Service -> SUBSET Id]
  /\ cooldown \in [Service -> 0 .. UpdateInterval]
  /\ on \subseteq Service
  /\ changes \in 0 .. MaxChanges

\* Player::GetPlayerBans, BatchedAction: a player that a view shows as "in
\* progress" is queued.  It must not leave the queue unanswered, be it because it
\* was queued, cleared or queued again while a request was under way, or because a
\* request failed: nobody asks again for what is in progress.
InProgressIsQueued ==
  \A s \in Service, id \in Id : data[s][id] = "pending" => id \in wanted[s]

\* BatchedAction::Update: once the transfers of a service succeed, a player in
\* progress whom the service knows comes to be known, or vanishes from the table, or
\* the service is switched off.  Failed requests are sent again, and ids that are
\* never answered and stay queued do not keep others from being asked about.
Recovers(s) == <>[][TransferDone(s) => phase'[s] = "value"]_<<httpVars, lookupVars>>
InProgressIsAnswered ==
  \A s \in Service, id \in Id \ Unknown :
    Recovers(s) => (data[s][id] = "pending" ~> data[s][id] # "pending" \/ s \notin on)
===============================================================================
