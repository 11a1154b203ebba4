------------------------------ MODULE Moderator ------------------------------
(***************************************************************************)
(* ModeratorLogic: what a tool does about the marked players of a lobby.   *)
(* It names marked enemies in the public chat, announces those that still  *)
(* connect, tells the party, and calls votes against marked team mates.    *)
(* Several tools may play in one lobby; they know of each other only by    *)
(* their chat messages, and the one with the lowest user id is to speak.   *)
(*                                                                         *)
(* The game is external: it shows the chat of one tool to the others and   *)
(* takes the votes.  A tick stands for ten seconds, in which every tool    *)
(* runs its once-a-second pass at least once.                              *)
(***************************************************************************)
EXTENDS Integers, Sequences, FiniteSets

CONSTANTS
  Tools,             \* the players who run the tool
  Marked,            \* the players every tool has marked as cheaters
  Order,             \* the marked players in the order of the lobby's slots
  Team,              \* the lobby team of each tool and marked player
  UserID,            \* the user id of each tool
  Others,            \* how many more players each team has, all connected for long
  Voters,            \* the tools whose m_AutoVotekick is set
  SendOnce,          \* m_ChatWarningSendOnce
  IgnoreTeams,       \* VoteKickIgnoresTeamState, for the map being played
  ChatInterval,      \* m_ChatWarningInterval, in ticks
  VoteInterval,      \* m_MinVoteKickInterval
  WarningDelay,      \* CHEATER_WARNING_DELAY
  NonlocalInterval,  \* CHEATER_WARNING_INTERVAL_NONLOCAL
  MaxParty,          \* PartyChatMessageAction::GetMaxQueuedCount
  MaxSetbacks,       \* bound: how often a player, status, lobby, game or pass is lost
  NoKick             \* no votekick is queued

ASSUME ModeratorAssumption ==
  /\ Tools \intersect Marked = {}
  /\ NoKick \notin Marked
  /\ Order \in Seq(Marked)
  /\ \A m \in Marked : \E i \in DOMAIN Order : Order[i] = m
  /\ \A i, j \in DOMAIN Order : Order[i] = Order[j] => i = j
  /\ Team \in [Tools \union Marked -> {"defenders", "invaders"}]
  /\ Others \in [{"defenders", "invaders"} -> Nat]
  /\ UserID \in [Tools -> Nat]
  /\ Voters \subseteq Tools
  /\ SendOnce \in BOOLEAN /\ IgnoreTeams \in BOOLEAN
  /\ {ChatInterval, VoteInterval, WarningDelay, NonlocalInterval, MaxParty} \subseteq Nat \ {0}
  /\ MaxSetbacks \in Nat

VARIABLES
  where,        \* where each marked player is, see Places
  playing,      \* tools whose m_IsLocalPlayerInitialized is set
  fresh,        \* the tools of lower user id whose status each tool saw within 20 s
  summaries,    \* marked players whose Steam summary has arrived
  runningTool,  \* m_PlayersRunningTool
  extra,        \* PlayerExtraData of each tool's marked players
  nextWarn,     \* time to m_NextCheaterWarningTime
  nextConn,     \* time to m_NextConnectingCheaterWarningTime
  sinceVote,    \* the age of m_LastVoteCallTime
  tried,        \* kickAttemptedCount
  lastSize,     \* lastSize
  chat,         \* queued chat actions
  kick,         \* the queued KickAction's player
  unread,       \* authors of warnings each tool has yet to read in its console
  acted,        \* tools that made their pass in this tick
  setbacks

toolVars == <<runningTool, extra, nextWarn, nextConn, sinceVote, tried, lastSize, chat, kick>>
worldVars == <<where, playing, fresh, summaries, setbacks>>
vars == <<worldVars, toolVars, unread, acted>>

\* A player is not here, connects, is Active, or has been so for longer than
\* GetAutoVotekickDelay.
Places == {"away", "connecting", "active", "settled"}
NoDelay == -1
FreshData == [preWarned |-> FALSE, warnedOnce |-> FALSE, partyWarned |-> FALSE,
              connDelay |-> NoDelay, warnDelay |-> NoDelay]

\* Chat actions: a warning with the names in it, or a message without any.
Warning(names) == [kind |-> "warning", named |-> names]
Connecting == [kind |-> "connecting", named |-> {}]
Party == [kind |-> "party", named |-> {}]

Here == {m \in Marked : where[m] # "away"}
Active == {m \in Marked : where[m] \in {"active", "settled"}}
Settled == {m \in Marked : where[m] = "settled"}
Enemies(t) == {m \in Marked : Team[m] # Team[t]}
Size(team) == Others[team] + Cardinality({p \in Tools \union Here : Team[p] = team})
Connected(team, players) == Others[team] + Cardinality({p \in Tools \union players : Team[p] = team})
EnemyTeam(t) == IF Team[t] = "defenders" THEN "invaders" ELSE "defenders"

-----------------------------------------------------------------------------

Init ==
  /\ where = [m \in Marked |-> "away"]
  /\ playing = {} /\ summaries = {} /\ acted = {} /\ setbacks = 0
  /\ fresh = [t \in Tools |-> {}]
  /\ runningTool = [t \in Tools |-> {}]
  /\ extra = [t \in Tools |-> [m \in Marked |-> FreshData]]
  /\ nextWarn = [t \in Tools |-> 0] /\ nextConn = [t \in Tools |-> 0]
  /\ sinceVote = [t \in Tools |-> VoteInterval + 1]
  /\ tried = [t \in Tools |-> 0] /\ lastSize = [t \in Tools |-> 0]
  /\ chat = [t \in Tools |-> <<>>]
  /\ kick = [t \in Tools |-> NoKick]
  /\ unread = [t \in Tools |-> {}]

\* The tools with a lower user id than t's.
Below(t) == {s \in Tools : UserID[s] < UserID[t]}

\* GetBotLeader: no running tool of lower user id has been seen by `status` lately.
IsBotLeader(t) == runningTool[t] \intersect fresh[t] = {}

\* A vote needs a majority that is not marked.
CanPassVote(total, cheaters) == cheaters * 2 < total

\* QueueAction: chat and party messages share a type and differ in the limit.
MayQueue(queue, limit) == Len(queue) < limit

\* Mutant of Names: the setting is not asked.
NamesOnce(t, enemies) == {m \in enemies : ~extra[t][m].warnedOnce}

\* The players HandleConnectedEnemyCheaters may name in this pass.
Names(t, enemies) == {m \in enemies : ~SendOnce \/ ~extra[t][m].warnedOnce}

\* Mutant of WarnsNow: the time up to which the tool defers is not asked.
WarnsAnyway(t, enemies) ==
  /\ \E m \in enemies : IsBotLeader(t) \/ extra[t][m].warnDelay = 0
  /\ Names(t, enemies) # {}
  /\ MayQueue(chat[t], 2)

\* HandleConnectedEnemyCheaters queues a warning.
WarnsNow(t, enemies) ==
  /\ \E m \in enemies : IsBotLeader(t) \/ extra[t][m].warnDelay = 0
  /\ Names(t, enemies) # {}
  /\ nextWarn[t] = 0
  /\ MayQueue(chat[t], 2)

\* What HandleConnectedEnemyCheaters remembers of an enemy, warning or not.
AfterActive(t, data) ==
  [data EXCEPT !.warnedOnce = TRUE,
               !.warnDelay = IF ~IsBotLeader(t) /\ @ = NoDelay THEN WarningDelay ELSE @]

\* A connecting enemy that makes HandleConnectingEnemyCheaters announce.
Triggers(t, m) ==
  /\ ~extra[t][m].preWarned
  /\ IsBotLeader(t) \/ extra[t][m].connDelay = 0

\* HandleConnectingEnemyCheaters queues an announcement.
AnnouncesNow(t, joining) ==
  /\ nextConn[t] = 0
  /\ \E m \in joining : Triggers(t, m)
  /\ MayQueue(chat[t], 2)

Place(m) == CHOOSE i \in DOMAIN Order : Order[i] = m

\* What it remembers of one of them: the loop stops at the first that triggers.
AfterConnecting(t, joining, m) ==
  LET reached == \A n \in joining : Triggers(t, n) => Place(m) < Place(n)
      starts  == reached /\ ~extra[t][m].preWarned /\ extra[t][m].connDelay = NoDelay
  IN  [extra[t][m] EXCEPT
         !.preWarned = @ \/ nextConn[t] > 0 \/ AnnouncesNow(t, joining),
         !.connDelay = IF nextConn[t] = 0 /\ starts THEN WarningDelay ELSE @]

\* HandleEnemyCheaters, but for the queue: connected enemies come before connecting
\* ones, and nothing is said if the other team cannot win a vote.
HandleEnemyCheaters(t, enemies, joining) ==
  LET passable  == CanPassVote(Size(EnemyTeam(t)), Cardinality(enemies \union joining))
      warns     == passable /\ WarnsNow(t, enemies)
      announces == passable /\ enemies = {} /\ AnnouncesNow(t, joining)
  IN  [chat  |-> chat[t] \o (IF warns THEN <<Warning(Names(t, enemies))>> ELSE <<>>)
                         \o (IF announces THEN <<Connecting>> ELSE <<>>),
       next  |-> IF warns THEN ChatInterval ELSE nextWarn[t],
       extra |-> [m \in Marked |->
                    CASE passable /\ m \in enemies -> AfterActive(t, extra[t][m])
                      [] passable /\ enemies = {} /\ m \in joining -> AfterConnecting(t, joining, m)
                      [] OTHER -> extra[t][m]]]

\* The marked players HandleFriendlyCheaters walks through, in the order of Place.
Kickable(t) == IF IgnoreTeams THEN Here ELSE {m \in Active : Team[m] = Team[t]}

\* Mutant of VotePossible: where teams are ignored only the own one counts as there.
VotePossibleOwnTeam(t, list) ==
  LET total == Size(Team[t]) + (IF IgnoreTeams THEN Size(EnemyTeam(t)) ELSE 0)
  IN  /\ t \in Voters
      /\ list # {}
      /\ Connected(Team[t], Settled) * 100 > 61 * total
      /\ CanPassVote(total, Cardinality(list))

\* The guards of HandleFriendlyCheaters: the setting, a quorum of 61%, a majority.  A
\* team mate counts as there once he has settled, a member of the other team at once.
VotePossible(t, list) ==
  LET own   == Team[t]
      other == EnemyTeam(t)
      total == Size(own) + (IF IgnoreTeams THEN Size(other) ELSE 0)
      ready == Connected(own, Settled) + (IF IgnoreTeams THEN Connected(other, Active) ELSE 0)
  IN  /\ t \in Voters
      /\ list # {}
      /\ ready * 100 > 61 * total
      /\ CanPassVote(total, Cardinality(list))

\* The place of m in the list, and the one its loop starts after.
Rank(m, list) == Cardinality({n \in list : Place(n) <= Place(m)})
StartAfter(t, list) ==
  IF tried[t] >= Cardinality(list) \/ lastSize[t] # Cardinality(list) THEN 0 ELSE tried[t]

\* Mutant of Candidates: CanCallVoteKick is not asked.
CandidatesAnytime(t, list) == {m \in list \intersect Active : Rank(m, list) > StartAfter(t, list)}

\* The players of whom InitiateVotekick would say that it started a vote.
Candidates(t, list) ==
  {m \in list \intersect Active : Rank(m, list) > StartAfter(t, list) /\ sinceVote[t] > VoteInterval}
First(found) == CHOOSE m \in found : \A n \in found : Place(m) <= Place(n)

\* The players tool t would call a vote on in this pass.
Found(t) == Candidates(t, Kickable(t))

\* HandleFriendlyCheaters and InitiateVotekick.  The loop takes the first candidate;
\* reaching the last place of the list sets the count to 0, before a vote there
\* makes it 1.  A full queue turns the vote away, and it counts as started.
HandleFriendlyCheaters(t) ==
  LET list  == Kickable(t)
      found == Candidates(t, list)
      first == First(found)
      votes == found # {} /\ kick[t] = NoKick
  IN  IF VotePossible(t, list)
      THEN /\ tried' = [tried EXCEPT ![t] =
                          CASE found = {} -> 0
                            [] found # {} /\ Rank(first, list) = Cardinality(list) -> 1
                            [] OTHER -> StartAfter(t, list) + 1]
           /\ lastSize' = [lastSize EXCEPT ![t] = Cardinality(list)]
           /\ kick' = [kick EXCEPT ![t] = IF votes THEN first ELSE @]
           /\ sinceVote' = [sinceVote EXCEPT ![t] = IF votes THEN 0 ELSE @]
      ELSE UNCHANGED <<tried, lastSize, kick, sinceVote>>

\* Mutant of PartyNews: it lists the players that have connected.
PartyNewsOfActive(t, data, queue) ==
  LET news == {m \in Active : ~data[m].partyWarned}
  IN  IF news \subseteq summaries /\ MayQueue(queue, MaxParty) THEN news ELSE {}

\* HandleConnectingMarkedPlayers: the players it has yet to tell the party about,
\* once it knows the names of all of them.
PartyNews(t, data, queue) ==
  LET news == {m \in Here \ Active : ~data[m].partyWarned}
  IN  IF news \subseteq summaries /\ MayQueue(queue, MaxParty) THEN news ELSE {}

\* ProcessPlayerActions of a tool that is in a game.
ProcessPlayerActions(t) ==
  LET done == HandleEnemyCheaters(t, Enemies(t) \intersect Active,
                                     Enemies(t) \intersect (Here \ Active))
      news == PartyNews(t, done.extra, done.chat)
  IN  /\ t \in playing
      /\ nextWarn' = [nextWarn EXCEPT ![t] = done.next]
      /\ chat' = [chat EXCEPT ![t] = done.chat \o IF news = {} THEN <<>> ELSE <<Party>>]
      /\ extra' = [extra EXCEPT ![t] =
                     [m \in Marked |-> [done.extra[m] EXCEPT !.partyWarned = @ \/ m \in news]]]
      /\ HandleFriendlyCheaters(t)
      /\ acted' = acted \union {t}
      /\ UNCHANGED <<worldVars, runningTool, nextConn, unread>>

\* ProcessPlayerActions returns early: the local player is not in a game, or, which
\* counts as a setback, the world is 15 s behind or the own team is not known.
SkipPlayerActions(t) ==
  /\ setbacks' = IF t \in playing THEN setbacks + 1 ELSE setbacks
  /\ setbacks' <= MaxSetbacks
  /\ acted' = acted \union {t}
  /\ UNCHANGED <<where, playing, fresh, summaries, toolVars, unread>>

\* Mutant of Deferred: the tool goes on as before, whoever spoke.
NotDeferred(t, s, time) == time

\* A tool holds its warnings back for a while if s, who spoke, has the lower user id.
Deferred(t, s, time) == IF UserID[s] < UserID[t] THEN NonlocalInterval ELSE time

\* OnChatMsg: a warning by another player shows that he runs the tool.
OnChatMsg(t, s) ==
  /\ s \in unread[t]
  /\ unread' = [unread EXCEPT ![t] = @ \ {s}]
  /\ runningTool' = [runningTool EXCEPT ![t] = @ \union {s}]
  /\ nextWarn' = [nextWarn EXCEPT ![t] = Deferred(t, s, @)]
  /\ nextConn' = [nextConn EXCEPT ![t] = Deferred(t, s, @)]
  /\ UNCHANGED <<worldVars, extra, sinceVote, tried, lastSize, chat, kick, acted>>

\* OnLocalPlayerInitialized, for entering a game and for leaving one: a summary of
\* the marked players in the lobby goes to the party, as far as the queue has room.
OnLocalPlayerInitialized(t) ==
  /\ playing' = IF t \in playing THEN playing \ {t} ELSE playing \union {t}
  /\ setbacks' = IF t \in playing THEN setbacks + 1 ELSE setbacks
  /\ setbacks' <= MaxSetbacks
  /\ LET room  == MaxParty - Len(chat[t])
         lines == 1 + Cardinality(Here)
     IN  chat' = [chat EXCEPT ![t] = @ \o [i \in 1 .. (IF room < lines THEN room ELSE lines) |-> Party]]
  /\ extra' = [extra EXCEPT ![t] =
                 [m \in Marked |-> [extra[t][m] EXCEPT !.partyWarned = @ \/ m \in Here]]]
  /\ UNCHANGED <<where, fresh, summaries, runningTool, nextWarn, nextConn, sinceVote,
                 tried, lastSize, kick, unread, acted>>

\* The action manager sends what is queued, and the game shows public messages to
\* everyone on the server (RconActions models the sending itself).
FlushQueue(t) ==
  /\ chat[t] # <<>> \/ kick[t] # NoKick
  /\ chat' = [chat EXCEPT ![t] = <<>>]
  /\ kick' = [kick EXCEPT ![t] = NoKick]
  /\ unread' = [s \in Tools |->
       IF s # t /\ s \in playing /\ \E i \in DOMAIN chat[t] : chat[t][i].kind # "party"
       THEN unread[s] \union {t} ELSE unread[s]]
  /\ UNCHANGED <<worldVars, runningTool, extra, nextWarn, nextConn, sinceVote, tried, lastSize, acted>>

\* A marked player joins the lobby, finishes connecting, has then played for a while,
\* or leaves the server.  His PlayerExtraData stays with the lobby.
PlayerMoves(m) ==
  /\ \/ where[m] = "away" /\ where' = [where EXCEPT ![m] = "connecting"] /\ UNCHANGED setbacks
     \/ where[m] = "connecting" /\ where' = [where EXCEPT ![m] = "active"] /\ UNCHANGED setbacks
     \/ where[m] = "active" /\ where' = [where EXCEPT ![m] = "settled"] /\ UNCHANGED setbacks
     \/ /\ where[m] # "away" /\ setbacks < MaxSetbacks
        /\ where' = [where EXCEPT ![m] = "away"]
        /\ setbacks' = setbacks + 1
  /\ UNCHANGED <<playing, fresh, summaries, toolVars, unread, acted>>

\* A status or dump shows tool s to tool t, or 20 s pass without one.
StatusChanges(t, s) ==
  /\ \/ s \notin fresh[t] /\ fresh' = [fresh EXCEPT ![t] = @ \union {s}] /\ UNCHANGED setbacks
     \/ /\ s \in fresh[t] /\ setbacks < MaxSetbacks
        /\ fresh' = [fresh EXCEPT ![t] = @ \ {s}]
        /\ setbacks' = setbacks + 1
  /\ UNCHANGED <<where, playing, summaries, toolVars, unread, acted>>

\* Steam answers with the summary of a player.
SummaryArrives(m) ==
  /\ m \in Here
  /\ summaries' = summaries \union {m}
  /\ UNCHANGED <<where, playing, fresh, setbacks, toolVars, unread, acted>>

\* Another lobby: the world of every tool drops its players and what is known of
\* them; the moderator's own members stay.
NewLobby ==
  /\ setbacks < MaxSetbacks
  /\ setbacks' = setbacks + 1
  /\ where' = [m \in Marked |-> "away"]
  /\ fresh' = [t \in Tools |-> {}]
  /\ summaries' = {}
  /\ extra' = [t \in Tools |-> [m \in Marked |-> FreshData]]
  /\ UNCHANGED <<playing, runningTool, nextWarn, nextConn, sinceVote, tried, lastSize,
                 chat, kick, unread, acted>>

\* A tool's game quits and is started again: the setup flow deletes the moderator and
\* creates a new one, while the world and the two static counters live on.
GameRestarts(t) ==
  /\ setbacks < MaxSetbacks
  /\ setbacks' = setbacks + 1
  /\ runningTool' = [runningTool EXCEPT ![t] = {}]
  /\ nextWarn' = [nextWarn EXCEPT ![t] = 0]
  /\ nextConn' = [nextConn EXCEPT ![t] = 0]
  /\ sinceVote' = [sinceVote EXCEPT ![t] = VoteInterval + 1]
  /\ chat' = [chat EXCEPT ![t] = <<>>]
  /\ kick' = [kick EXCEPT ![t] = NoKick]
  /\ unread' = [unread EXCEPT ![t] = {}]
  /\ UNCHANGED <<where, playing, fresh, summaries, extra, tried, lastSize, acted>>

\* Mutant of Earlier: time runs on when a moment is over.
EarlierAlways(time) == IF time # NoDelay THEN time - 1 ELSE time

\* A moment to come is a tick nearer; one that is over, or none, stays.
Earlier(time) == IF time > 0 THEN time - 1 ELSE time

\* Ten seconds pass.  In that time every tool makes its passes, sends what it queued
\* and reads its console: those loops run many times a second.
Tick ==
  /\ acted = Tools
  /\ \A t \in Tools : chat[t] = <<>> /\ kick[t] = NoKick /\ unread[t] = {}
  /\ acted' = {}
  /\ nextWarn' = [t \in Tools |-> Earlier(nextWarn[t])]
  /\ nextConn' = [t \in Tools |-> Earlier(nextConn[t])]
  /\ sinceVote' = [t \in Tools |->
                     IF sinceVote[t] > VoteInterval THEN sinceVote[t] ELSE sinceVote[t] + 1]
  /\ extra' = [t \in Tools |-> [m \in Marked |->
                 [extra[t][m] EXCEPT !.connDelay = Earlier(@), !.warnDelay = Earlier(@)]]]
  /\ UNCHANGED <<worldVars, runningTool, tried, lastSize, chat, kick, unread>>

Update(t) == ProcessPlayerActions(t) \/ SkipPlayerActions(t)

\* What happens around the tools.  Bound: it happens before the first pass of a tick.
World ==
  /\ acted = {}
  /\ \/ \E m \in Marked : PlayerMoves(m)
     \/ \E t \in Tools : \E s \in Below(t) : StatusChanges(t, s)
     \/ \E t \in Tools : OnLocalPlayerInitialized(t) \/ GameRestarts(t)
     \/ NewLobby

\* The loops of the tools, and the clock that waits for them.
Loops ==
  \/ \E t \in Tools : Update(t) \/ FlushQueue(t) \/ \E s \in Tools \ {t} : OnChatMsg(t, s)
  \/ Tick

Next ==
  \/ Loops
  \/ World
  \/ \E m \in Marked : SummaryArrives(m)

\* The loops run and Steam answers in the end; the players and the game are free.
\* One condition does for all loops: within a tick each of them runs out of work,
\* and Tick waits for the last.
Fairness == WF_vars(Loops) /\ \A m \in Marked : WF_vars(SummaryArrives(m))

Spec == Init /\ [][Next]_vars /\ Fairness

-----------------------------------------------------------------------------
(* Properties *)

ChatAction == [kind : {"warning", "connecting", "party"}, named : SUBSET Marked]
ExtraData == [preWarned : BOOLEAN, warnedOnce : BOOLEAN, partyWarned : BOOLEAN,
              connDelay : NoDelay .. WarningDelay, warnDelay : NoDelay .. WarningDelay]
MaxWait == IF ChatInterval > NonlocalInterval THEN ChatInterval ELSE NonlocalInterval

TypeOK ==
  /\ where \in [Marked -> Places]
  /\ playing \subseteq Tools /\ acted \subseteq Tools
  /\ fresh \in [Tools -> SUBSET Tools] /\ \A t \in Tools : fresh[t] \subseteq Below(t)
  /\ summaries \subseteq Marked
  /\ runningTool \in [Tools -> SUBSET Tools]
  /\ extra \in [Tools -> [Marked -> ExtraData]]
  /\ nextWarn \in [Tools -> 0 .. MaxWait]
  /\ nextConn \in [Tools -> 0 .. NonlocalInterval]
  /\ sinceVote \in [Tools -> 0 .. VoteInterval + 1]
  /\ tried \in [Tools -> 0 .. Len(Order)] /\ lastSize \in [Tools -> 0 .. Len(Order)]
  /\ chat \in [Tools -> Seq(ChatAction)]
  /\ kick \in [Tools -> Marked \union {NoKick}]
  /\ unread \in [Tools -> SUBSET Tools]
  /\ setbacks \in 0 .. MaxSetbacks

\* Every tool is in the game and sees the others in its status.
Calm == playing = Tools /\ \A t \in Tools : fresh[t] = Below(t)

\* Tool t queues a public message.
Speaks(t) ==
  Len(chat'[t]) > Len(chat[t]) /\ chat'[t][Len(chat[t]) + 1].kind # "party"

\* Once nothing disturbs the tools of a team they agree on who speaks: however they
\* came to know or forget each other, only the one with the lowest user id still
\* writes to the public chat.
OneSpeaker ==
  <>[]Calm =>
    <>[][\A t \in Tools : Speaks(t) => \A s \in Tools : Team[s] = Team[t] => UserID[t] <= UserID[s]]_vars

\* A queued warning that names m is sent.
Named(m) ==
  \E t \in Tools : /\ chat[t] # <<>> /\ chat'[t] = <<>>
                   /\ \E i \in DOMAIN chat[t] : m \in chat[t][i].named

\* Tool t has heard l, the tool of its team with the lowest user id, and leaves the
\* public chat to it: while there is an enemy to name its time to speak comes after
\* l's, or what l wrote is still on its way.
Public(queue) == \E i \in DOMAIN queue : queue[i].kind # "party"
Passable(t) == CanPassVote(Size(EnemyTeam(t)), Cardinality(Enemies(t) \intersect Here))

Hears(t, l) ==
  /\ Team[t] = Team[l] /\ Below(l) = {}
  /\ {t, l} \subseteq playing /\ l \in fresh[t]

LeavesItTo(t, l) ==
  /\ nextWarn[t] > 0
  /\ nextWarn[t] > nextWarn[l] \/ Public(chat[l]) \/ l \in unread[t]
  /\ IF l \in acted THEN nextWarn[l] > 0 ELSE chat[l] = <<>>

Hushed(t, l) ==
  /\ Hears(t, l) /\ l \in runningTool[t]
  /\ \/ ~Passable(t)
     \/ Enemies(t) \intersect Active # {} /\ LeavesItTo(t, l)
     \/ /\ Enemies(t) \intersect Active = {}
        /\ \A m \in Enemies(t) \intersect Here : extra[t][m].preWarned

\* A tool that hears the lowest one name enemies falls silent, and stays silent as long
\* as players, statuses and games stay as they are and no pass is lost: no order of
\* passes, chat lines and ticks makes it speak in between.  Said of tools that name an
\* enemy again and again (~SendOnce), and with an interval between such warnings that
\* is shorter than the time the others defer for: the values as they come are 10 s
\* and 30 s, but the first can be set higher, and then they do speak in between.
LowestIsHeeded ==
  [][~SendOnce /\ ChatInterval < NonlocalInterval =>
       \A t, l \in Tools :
         /\ OnChatMsg(t, l) /\ Hears(t, l) /\ Enemies(t) \intersect Active # {} => Hushed(t, l)'
         /\ Hushed(t, l) /\ UNCHANGED <<where, playing, fresh, setbacks>>
              => Hushed(t, l)' /\ ~Speaks(t)]_vars

\* The other team hears of a marked enemy again and again as long as he plays: the
\* tools of a team defer to each other but never all at once for good.  Said of tools
\* that are all in the other team, because a tool defers to those of either team:
\* beside a tool of lower user id in his own team nobody ever names him.
EnemyKeepsBeingNamed ==
  \A m \in Marked :
    (Tools # {} /\ \A t \in Tools : Team[m] # Team[t]) =>
      (<>[](Calm /\ m \in Active) => []<><<Named(m)>>_vars)

\* A vote against m is queued.
VoteOn(m) == \E t \in Tools : kick[t] = NoKick /\ kick'[t] = m

\* As long as a marked team mate plays on and the others are a majority, votes are
\* called again and again, if not against him.
VotesGoOn ==
  \A m \in Marked :
    (\E t \in Voters : IgnoreTeams \/ Team[m] = Team[t]) =>
      (<>[](Calm /\ where[m] = "settled") => []<><<\E n \in Marked : VoteOn(n)>>_vars)

\* When a tool finds a player to vote on, no vote waits in its queue, so the vote that
\* InitiateVotekick counts as started is queued and not turned away
\* (ModeratorLogic.cpp:1310-1323): the queue is emptied before the next vote is due.
VotesAreTaken ==
  [][\A t \in Tools :
       ProcessPlayerActions(t) /\ VotePossible(t, Kickable(t)) /\ Found(t) # {} =>
         kick[t] = NoKick /\ kick'[t] = First(Found(t))]_vars

\* Every one of them is voted against again and again: the loop does not stay with the
\* first of the list.  That is what the counters are for (ModeratorLogic.cpp:519-522),
\* and it is violated: a pass made while no vote can be called reaches the end of
\* the list and starts it over.
VotesReachEveryone ==
  \A m \in Marked :
    (\E t \in Voters : IgnoreTeams \/ Team[m] = Team[t]) =>
      (<>[](Calm /\ where[m] = "settled") => []<><<VoteOn(m)>>_vars)

\* A marked player who keeps connecting is reported to the party, whatever else fills
\* the queue and although one report waits for the names of all.
PartyHears ==
  \A t \in Tools, m \in Marked :
    (t \in playing /\ where[m] = "connecting")
      ~> (extra[t][m].partyWarned \/ t \notin playing \/ where[m] # "connecting")
=============================================================================
