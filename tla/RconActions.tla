----------------------------- MODULE RconActions -----------------------------
(***************************************************************************)
(* RCONActionManager: the queue of actions the tool wants the game to      *)
(* perform, the limits on it, the pass that sends what may be sent, and    *)
(* the answers, taken in the order of the commands.  The moderator, the    *)
(* polling of player data and the periodic generators feed the queue; the  *)
(* srcon client and the game behind it answer (external).                  *)
(*                                                                         *)
(* Time advances in ticks of UPDATE_INTERVAL; a moment is kept as its age, *)
(* which stops growing at the longest interval anything compares it with.  *)
(***************************************************************************)
EXTENDS Naturals, Sequences, FiniteSets

CONSTANTS
  Id,                  \* what tells two actions of a kind apart
  Polled,              \* the commands polling or a generator queues in a pass
  KickInterval,        \* KickAction::GetMinInterval, in ticks
  ChatInterval,        \* ChatMessageAction::GetMinInterval, in ticks
  MaxParty,            \* PartyChatMessageAction::GetMaxQueuedCount
  CompatibilityMode,   \* the setting m_ConfigCompatibilityMode
  Sources,             \* the kinds of action the moderator queues
  MaxRunning           \* bound: a pass on top of unanswered commands comes to no more

ASSUME RconAssumption ==
  /\ KickInterval \in Nat \ {0}
  /\ ChatInterval \in Nat \ {0}
  /\ MaxParty \in Nat \ {0}
  /\ CompatibilityMode \in BOOLEAN
  /\ Sources \subseteq {"kick", "chat", "party"}
  /\ MaxRunning \in Nat

VARIABLES
  actions,       \* m_Actions
  sinceTrigger,  \* the age of m_LastTriggerTime of each limited type
  sinceUpdate,   \* the age of m_LastUpdateTime
  running,       \* m_RunningCommands, each with the state of its future
  discarding,    \* m_IsDiscardingServerCommands
  client,        \* m_RCONClient exists
  sinceSent      \* auxiliary: the age of the last command of each limited kind

vars == <<actions, sinceTrigger, sinceUpdate, running, discarding, client, sinceSent>>

\* Actions.h: kinds of action with the same ActionType share limits and clock.
Kinds == {"kick", "chat", "party", "client", "server"}
TypeOf(kind) == CASE kind = "kick" -> "Kick"
                  [] kind \in {"chat", "party"} -> "ChatMessage"
                  [] OTHER -> "GenericCommand"
LimitedTypes == {"Kick", "ChatMessage"}
LimitedKinds == {"kick", "chat"}

MinInterval(kind) == CASE kind = "kick" -> KickInterval
                       [] kind = "chat" -> ChatInterval
                       [] OTHER -> 0
MaxAge == IF KickInterval > ChatInterval THEN KickInterval ELSE ChatInterval

Unlimited(kind) == kind \notin {"kick", "chat", "party"}
MaxQueuedCount(kind) == CASE kind = "kick" -> 1
                          [] kind = "chat" -> 2
                          [] OTHER -> MaxParty

Action == [kind : Kinds, id : Id \union Polled]
Older(age) == IF age < MaxAge THEN age + 1 ELSE MaxAge

QueuedOfType(queue, type) == {i \in DOMAIN queue : TypeOf(queue[i].kind) = type}
InQueue(queue) == {queue[i] : i \in DOMAIN queue}

-----------------------------------------------------------------------------

Init ==
  /\ actions = <<>>
  /\ sinceTrigger = [type \in LimitedTypes |-> MaxAge]
  /\ sinceUpdate = 1
  /\ running = <<>>
  /\ discarding = CompatibilityMode
  /\ client = TRUE
  /\ sinceSent = [kind \in LimitedKinds |-> MaxAge]

\* Mutant of MayQueue: > for >= in the comparison with the limit.
MayQueueOneMore(queue, kind) ==
  Unlimited(kind) \/ Cardinality(QueuedOfType(queue, TypeOf(kind))) <= MaxQueuedCount(kind)

\* QueueAction turns an action away when its type already fills its own limit.
MayQueue(queue, kind) ==
  Unlimited(kind) \/ Cardinality(QueuedOfType(queue, TypeOf(kind))) < MaxQueuedCount(kind)

\* QueueAction called by the moderator: `action` names no action under way.
QueueAction(action) ==
  /\ action \notin InQueue(actions)
  /\ \A i \in DOMAIN running : running[i].action # action
  /\ actions' = IF MayQueue(actions, action.kind) THEN Append(actions, action) ELSE actions
  /\ UNCHANGED <<sinceTrigger, sinceUpdate, running, discarding, client, sinceSent>>

\* Mutant of ShouldDiscardCommand: m_IsDiscardingServerCommands is not asked.
DiscardsInGame(kind) == CompatibilityMode /\ kind # "client"

\* ShouldDiscardCommand: in compatibility mode only known client commands go out
\* before the local player is in the game.
ShouldDiscardCommand(kind) == discarding /\ CompatibilityMode /\ kind # "client"

\* Mutant of Processed: an interval that lacks one tick counts as over.
ProcessedEarly(queue, i) ==
  LET kind == queue[i].kind
      type == TypeOf(kind)
  IN  MinInterval(kind) > 0 =>
        /\ sinceTrigger[type] + 1 >= MinInterval(kind)
        /\ \A j \in 1 .. i - 1 : TypeOf(queue[j].kind) # type

\* Mutant of Processed: the pass walks the queue from its newest action.
ProcessedNewestFirst(queue, i) ==
  LET kind == queue[i].kind
      type == TypeOf(kind)
  IN  MinInterval(kind) > 0 =>
        /\ sinceTrigger[type] >= MinInterval(kind)
        /\ \A j \in i + 1 .. Len(queue) : TypeOf(queue[j].kind) # type

\* ProcessAction, for the action at place i of the queue at the start of a pass.
\* It waits if it has an interval and its type was triggered less than that ago,
\* or earlier in this pass.  An earlier action of its type was: the first action
\* of a type with an interval that has run out is processed, and so is one
\* without an interval.
Processed(queue, i) ==
  LET kind == queue[i].kind
      type == TypeOf(kind)
  IN  MinInterval(kind) > 0 =>
        /\ sinceTrigger[type] >= MinInterval(kind)
        /\ \A j \in 1 .. i - 1 : TypeOf(queue[j].kind) # type

\* The n-th of `places`, in the order of numbers.
Place(places, n) == CHOOSE i \in places : Cardinality({j \in places : j <= i}) = n

\* The actions of the queue at the places in `places`, in order.
Taken(queue, places) == [n \in 1 .. Cardinality(places) |-> queue[Place(places, n)]]

\* Mutant of Triggered: an action that is kept back restarts its clock too.
TriggeredByWaiting(queue, processed) == {TypeOf(queue[i].kind) : i \in DOMAIN queue}

\* The types whose m_LastTriggerTime a pass sets.
Triggered(queue, processed) == {TypeOf(queue[i].kind) : i \in processed}

\* ProcessQueuedCommands: polling and the periodic generators queue commands of
\* their own, then every action is sent, kept back or discarded.
ProcessQueuedCommands(polls) ==
  LET queue     == actions \o polls
      processed == {i \in DOMAIN queue : Processed(queue, i)}
      written   == {i \in processed : ~ShouldDiscardCommand(queue[i].kind)}
      triggered == Triggered(queue, processed)
      sentKinds == {queue[i].kind : i \in written}
      commands  == Taken(queue, written)
  IN  /\ client
      /\ sinceUpdate > 0
      /\ running = <<>> \/ Len(running) + Len(commands) <= MaxRunning
      /\ actions' = Taken(queue, DOMAIN queue \ processed)
      /\ running' = running \o [i \in DOMAIN commands |->
                                  [action |-> commands[i], future |-> "waiting"]]
      /\ sinceTrigger' = [type \in LimitedTypes |->
                            IF type \in triggered THEN 0 ELSE sinceTrigger[type]]
      /\ sinceSent' = [kind \in LimitedKinds |->
                         IF kind \in sentKinds THEN 0 ELSE sinceSent[kind]]
      /\ sinceUpdate' = 0
      /\ UNCHANGED <<discarding, client>>

\* The game answers the command at place i of m_RunningCommands, or srcon gives up
\* on it and its future fails: it is done either way.  Answers need not come in
\* the order of the commands.
CommandDone(i) ==
  /\ running[i].future = "waiting"
  /\ running' = [running EXCEPT ![i].future = "done"]
  /\ UNCHANGED <<actions, sinceTrigger, sinceUpdate, discarding, client, sinceSent>>

\* Mutant of DoneInFront: the loop stops before the last command, done or not.
DoneButLast ==
  CHOOSE n \in 0 .. Len(running) :
    /\ \A i \in 1 .. n : running[i].future # "waiting"
    /\ n + 1 < Len(running) => running[n + 1].future = "waiting"
    /\ n < Len(running) \/ n = 0

\* How many commands at the front of m_RunningCommands are done.
DoneInFront ==
  CHOOSE n \in 0 .. Len(running) :
    /\ \A i \in 1 .. n : running[i].future # "waiting"
    /\ n < Len(running) => running[n + 1].future = "waiting"

\* ProcessRunningCommands pops, in order, until one is still waiting.
ProcessRunningCommands ==
  /\ DoneInFront > 0
  /\ running' = SubSeq(running, DoneInFront + 1, Len(running))
  /\ UNCHANGED <<actions, sinceTrigger, sinceUpdate, discarding, client, sinceSent>>

\* The world reports that the local player entered a game or left it.
OnLocalPlayerInitialized(initialized) ==
  /\ discarding' = ~initialized
  /\ UNCHANGED <<actions, sinceTrigger, sinceUpdate, running, client, sinceSent>>

\* Mutant of GameQuit: the promises are moved away with the client, not broken.
GameQuitNoState ==
  /\ client
  /\ client' = FALSE
  /\ actions' = <<>>
  /\ running' = [i \in DOMAIN running |-> [running[i] EXCEPT !.future = "no_state"]]
  /\ UNCHANGED <<sinceTrigger, sinceUpdate, discarding, sinceSent>>

\* TF2CommandLinePage::ValidateSettings finds TF2 gone: the queue is cleared and
\* the client deleted, which breaks the promise of every command under way.
GameQuit ==
  /\ client
  /\ client' = FALSE
  /\ actions' = <<>>
  /\ running' = [i \in DOMAIN running |-> [running[i] EXCEPT !.future = "done"]]
  /\ UNCHANGED <<sinceTrigger, sinceUpdate, discarding, sinceSent>>

\* TF2CommandLinePage::Commit installs the client of a new connection.
GameConnected ==
  /\ ~client
  /\ client' = TRUE
  /\ UNCHANGED <<actions, sinceTrigger, sinceUpdate, running, discarding, sinceSent>>

Tick ==
  /\ sinceTrigger' = [type \in LimitedTypes |-> Older(sinceTrigger[type])]
  /\ sinceSent' = [kind \in LimitedKinds |-> Older(sinceSent[kind])]
  /\ sinceUpdate' = 1
  /\ UNCHANGED <<actions, running, discarding, client>>

\* What polling and the generators queue in one pass: nothing or one command each.
Polls == {<<>>} \union {<<[kind |-> kind, id |-> p]>> : kind \in {"client", "server"}, p \in Polled}

Update == \E polls \in Polls : ProcessQueuedCommands(polls)

Next ==
  \/ \E kind \in Sources, id \in Id : QueueAction([kind |-> kind, id |-> id])
  \/ Update
  \/ \E i \in DOMAIN running : CommandDone(i)
  \/ ProcessRunningCommands
  \/ \E initialized \in BOOLEAN : OnLocalPlayerInitialized(initialized)
  \/ GameQuit
  \/ GameConnected
  \/ Tick

\* Time passes, the main loop keeps calling Update, srcon settles every future (it
\* fails them when the connection does), and a lost game is connected to again.
Fairness ==
  /\ WF_vars(Tick) /\ WF_vars(ProcessRunningCommands) /\ WF_vars(GameConnected)
  /\ WF_vars(Update)
  /\ \A i \in 1 .. MaxRunning + MaxParty + 2 : WF_vars(i \in DOMAIN running /\ CommandDone(i))

Spec == Init /\ [][Next]_vars

FairSpec == Spec /\ Fairness

-----------------------------------------------------------------------------
(* Properties *)

TypeOK ==
  /\ actions \in Seq(Action)
  /\ sinceTrigger \in [LimitedTypes -> 0 .. MaxAge]
  /\ sinceUpdate \in {0, 1}
  /\ running \in Seq([action : Action, future : {"waiting", "done"}])
  /\ discarding \in BOOLEAN
  /\ client \in BOOLEAN
  /\ sinceSent \in [LimitedKinds -> 0 .. MaxAge]

\* The queue never holds two votekicks, nor more than two warnings or MaxParty
\* messages: a type's limit counts the kinds that share it, so no order of
\* queueing chat and party messages gets around the limits.
QueueLimits ==
  /\ Cardinality(QueuedOfType(actions, "Kick")) <= 1
  /\ Cardinality({i \in DOMAIN actions : actions[i].kind = "chat"}) <= 2
  /\ Cardinality(QueuedOfType(actions, "ChatMessage")) <= IF MaxParty > 2 THEN MaxParty ELSE 2

\* The number of commands of a kind that a step adds to m_RunningCommands.
NewlySent(kind) ==
  IF Len(running') > Len(running)
  THEN {i \in Len(running) + 1 .. Len(running') : running'[i].action.kind = kind}
  ELSE {}

\* The game gets at most one votekick in KickInterval and one warning in
\* ChatInterval, whatever party messages, discards, map changes and game restarts
\* come between them: sending faster trips the game's own cooldown.
SendSpacing ==
  [][\A kind \in LimitedKinds :
       NewlySent(kind) # {} =>
         /\ Cardinality(NewlySent(kind)) = 1
         /\ sinceSent[kind] >= MinInterval(kind)]_vars

\* Two queued actions of one kind never overtake each other.
KindOrder ==
  [][client' => \A i, j \in DOMAIN actions :
       (i < j /\ actions[i].kind = actions[j].kind /\ actions[j] \notin InQueue(actions'))
         => actions[i] \notin InQueue(actions')]_vars

\* An action leaves the queue without becoming a command only when the game has
\* gone, or in compatibility mode before the local player is in the game.
LostOnlyOutOfGame ==
  [][\A action \in InQueue(actions) \ InQueue(actions') :
       \/ \E i \in DOMAIN running' : running'[i].action = action
       \/ ~client'
       \/ CompatibilityMode /\ discarding]_vars

\* Every votekick and every warning that gets into the queue leaves it: sent,
\* discarded or cleared; a warning unless party messages keep coming, for such a
\* message does not wait for the clock of its type but restarts it, and enough of
\* them hold a warning back for ever.
QueuedEventuallyLeaves ==
  \A kind \in LimitedKinds, id \in Id :
    LET action == [kind |-> kind, id |-> id]
        Quiet  == kind = "chat" => <>[](\A i \in DOMAIN actions : actions[i].kind # "party")
    IN  Quiet => (action \in InQueue(actions) ~> action \notin InQueue(actions))

\* Every command sent for the moderator is taken off m_RunningCommands again, though
\* answers behind an unanswered command have to wait for it.
SentEventuallyTaken ==
  \A kind \in LimitedKinds, id \in Id :
    LET action == [kind |-> kind, id |-> id]
        Running == \E i \in DOMAIN running : running[i].action = action
    IN  Running ~> ~Running
=============================================================================
