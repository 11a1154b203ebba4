------------------------- MODULE PlayerPollingProofs -------------------------
(***************************************************************************)
(* For any number of players, any intervals and bounds: the polling keeps  *)
(* no more commands under way than it may, sends only player lists that    *)
(* name somebody to the parser, and knows no user id that the servers have *)
(* not given out.  While the environment rests, right knowledge of who is  *)
(* on the server and a working G15 command are not lost again.             *)
(***************************************************************************)
EXTENDS PlayerPolling, TLAPS

Command == [command : {"dump", "status", "ping"},
            future : {"waiting", "players", "unknown", "failed"},
            players : Snapshots]

\* The type invariant, with the clocks as their caps bound them; and no server gives
\* out more user ids than there are joins.
IInv == TypeOK /\ joins <= changes

\* What the assumption says of each bound.
LEMMA Bounds ==
  /\ G15Interval \in Nat \ {0} /\ StatusMin \in Nat \ {0} /\ StatusRefresh \in Nat \ {0}
  /\ StatusWindow \in Nat \ {0} /\ Retry \in Nat \ {0} /\ Legacy \in Nat \ {0}
  /\ MaxRunning \in Nat /\ MaxRunning >= 2 /\ MaxLines \in Nat \ {0}
  /\ MaxChanges \in Nat /\ MaxLost \in Nat
  /\ StatusCap \in Nat \ {0}
<1>1. {G15Interval, StatusMin, StatusRefresh, StatusWindow, Retry, Legacy} \subseteq Nat \ {0}
  BY PollingAssumption DEF PollingAssumption
<1>2. StatusRefresh \in Nat \ {0} /\ Legacy \in Nat \ {0}
  BY <1>1
<1>3. StatusCap \in Nat \ {0}
  BY <1>2 DEF StatusCap
<1> QED
  BY <1>1, <1>3, PollingAssumption DEF PollingAssumption

\* A clock stays within its cap.
LEMMA OlderBounded ==
  ASSUME NEW cap \in Nat, NEW age \in 0 .. cap
  PROVE  Older(age, cap) \in 0 .. cap
  BY DEF Older

\* The commands under way are commands, and no more than fit.
LEMMA RunningType ==
  ASSUME IInv
  PROVE  running \in Seq(Command) /\ Len(running) \in Nat /\ Len(running) <= MaxRunning
<1>1. running \in Seq(Command) /\ Len(running) <= MaxRunning
  BY Zenon DEF IInv, TypeOK, Command
<1> QED
  BY <1>1

LEMMA NobodyType == Nobody \in Snapshots
  BY Bounds DEF Nobody, Snapshots

\* Sending adds at most one command.
LEMMA SentType ==
  ASSUME NEW command \in {"dump", "status", "ping"}
  PROVE  Sent(command) \in Seq(Command) /\ Len(Sent(command)) \in {0, 1}
<1> DEFINE new == [command |-> command, future |-> "waiting", players |-> Nobody]
<1>1. new \in Command
  BY NobodyType DEF Command
<1> HIDE DEF new
<1>2. <<new>> \in Seq(Command) /\ Len(<<new>>) = 1
  BY <1>1
<1>3. Sent(command) = IF discarding THEN <<>> ELSE <<new>>
  BY DEF Sent, new
<1> QED
  BY <1>2, <1>3

LEMMA Appended ==
  ASSUME NEW a \in Seq(Command), NEW b \in Seq(Command)
  PROVE  a \o b \in Seq(Command) /\ Len(a \o b) = Len(a) + Len(b)
  OBVIOUS

LEMMA InitIInv == Init => IInv
<1> SUFFICES ASSUME Init PROVE IInv
  OBVIOUS
<1>1. /\ 0 \in 0 .. MaxChanges /\ 0 \in 0 .. MaxLost /\ 0 \in 0 .. Retry /\ 0 \in 0 .. MaxLines
      /\ G15Interval \in 0 .. G15Interval /\ StatusCap \in 0 .. StatusCap
      /\ StatusWindow \in 0 .. StatusWindow /\ 0 <= MaxRunning
  BY Bounds
<1>2. /\ running \in Seq(Command) /\ Len(running) = 0
      /\ lines \in Seq(Snapshots \ {Nobody}) /\ Len(lines) = 0
  BY DEF Init
<1> QED
  <2>1. /\ game \in Snapshots /\ user \in Snapshots /\ real \in Snapshots
        /\ g15 \in G15Modes /\ useG15 \in BOOLEAN /\ discarding \in BOOLEAN
    BY NobodyType DEF Init
  <2>2. /\ joins \in 0 .. MaxChanges /\ changes \in 0 .. MaxChanges /\ lost \in 0 .. MaxLost
        /\ joins <= changes
    BY <1>1 DEF Init
  <2>3. /\ sinceG15 \in 0 .. G15Interval /\ sinceStatus \in 0 .. StatusCap
        /\ sinceUnavailable \in 0 .. Retry /\ sinceSeen \in 0 .. StatusWindow
        /\ empties \in 0 .. EmptyLimit
    BY <1>1 DEF Init, EmptyLimit
  <2>4. <<unavailable, requested, nextPing>> \in BOOLEAN \X BOOLEAN \X BOOLEAN
    BY DEF Init
  <2>5. Len(running) <= MaxRunning /\ Len(lines) <= MaxLines
    BY <1>1, <1>2, Bounds
  <2>6. running \in Seq(Command) /\ lines \in Seq(Snapshots \ {Nobody})
    BY <1>2
  <2> QED
    BY <2>1, <2>2, <2>3, <2>4, <2>5, <2>6, Zenon DEF IInv, TypeOK, Command

-----------------------------------------------------------------------------

\* A pass adds at most two commands and restarts clocks.
LEMMA PollingTypes == IInv /\ UpdatePlayerDataPolling => IInv'
<1> SUFFICES ASSUME IInv, UpdatePlayerDataPolling PROVE IInv'
  OBVIOUS
<1>0. /\ running \in Seq(Command) /\ Len(running) \in Nat /\ Len(running) + 2 <= MaxRunning
  BY RunningType DEF UpdatePlayerDataPolling
<1>1. /\ running \in Seq(Command) /\ Len(running) + 2 <= MaxRunning /\ Len(running) \in Nat
      /\ sinceG15 \in 0 .. G15Interval /\ sinceStatus \in 0 .. StatusCap
      /\ requested \in BOOLEAN /\ nextPing \in BOOLEAN /\ unavailable \in BOOLEAN
      /\ sinceUnavailable \in 0 .. Retry /\ empties \in 0 .. EmptyLimit
  BY <1>0 DEF IInv, TypeOK
<1>2. 0 \in 0 .. G15Interval /\ 0 \in 0 .. StatusCap /\ 0 \in 0 .. Retry /\ 0 \in 0 .. EmptyLimit
  BY Bounds DEF EmptyLimit
<1>3. /\ running' \in Seq(Command) /\ Len(running') <= Len(running) + 2
      /\ sinceG15' \in 0 .. G15Interval /\ sinceStatus' \in 0 .. StatusCap
      /\ requested' \in BOOLEAN /\ nextPing' \in BOOLEAN
  <2>1. CASE PollG15
    <3>1. PICK a, b \in Seq(Command) :
            running' = running \o a \o b /\ Len(a) \in {0, 1} /\ Len(b) \in {0, 1}
      <4> DEFINE dumpDue == sinceG15 >= G15Interval
                 statusDue == (requested /\ sinceStatus >= StatusMin)
                              \/ sinceStatus >= StatusRefresh
                 a == IF dumpDue THEN Sent("dump") ELSE <<>>
                 b == IF statusDue THEN Sent("status") ELSE <<>>
      <4>1. running' = running \o a \o b
        BY <2>1 DEF PollG15
      <4>2. a \in Seq(Command) /\ Len(a) \in {0, 1}
        BY SentType
      <4>3. b \in Seq(Command) /\ Len(b) \in {0, 1}
        BY SentType
      <4> HIDE DEF a, b
      <4> QED
        BY <4>1, <4>2, <4>3
    <3>2. running \o a \in Seq(Command) /\ Len(running \o a) = Len(running) + Len(a)
      BY <1>1, Appended
    <3>3. running' \in Seq(Command) /\ Len(running') = Len(running) + Len(a) + Len(b)
      BY <3>1, <3>2, Appended
    <3>4. Len(running') <= Len(running) + 2
      <4>1. \A x \in Nat, y, z \in {0, 1} : x + y + z <= x + 2
        OBVIOUS
      <4> QED
        BY <1>1, <3>1, <3>3, <4>1
    <3>5. /\ sinceG15' \in 0 .. G15Interval /\ sinceStatus' \in 0 .. StatusCap
          /\ requested' \in BOOLEAN /\ nextPing' \in BOOLEAN
      BY <1>1, <1>2, <2>1 DEF PollG15
    <3> QED
      BY <3>3, <3>4, <3>5
  <2>2. CASE PollLegacy
    <3>1. PICK a \in Seq(Command) : running' = running \o a /\ Len(a) \in {0, 1}
      <4>1. CASE sinceStatus >= Legacy
        <5>1. running' = running \o Sent(IF nextPing THEN "ping" ELSE "status")
          BY <2>2, <4>1 DEF PollLegacy
        <5>2. PICK command \in {"dump", "status", "ping"} :
                running' = running \o Sent(command)
          BY <5>1
        <5>3. Sent(command) \in Seq(Command) /\ Len(Sent(command)) \in {0, 1}
          BY SentType
        <5> QED
          BY <5>2, <5>3
      <4>2. CASE ~(sinceStatus >= Legacy)
        <5>1. running' = running \o <<>>
          BY <2>2, <4>2 DEF PollLegacy
        <5>2. <<>> \in Seq(Command) /\ Len(<<>>) \in {0, 1}
          OBVIOUS
        <5> QED
          BY <5>1, <5>2
      <4> QED
        BY <4>1, <4>2
    <3>2. running' \in Seq(Command) /\ Len(running') = Len(running) + Len(a)
      BY <1>1, <3>1, Appended
    <3>3. Len(running') <= Len(running) + 2
      <4>1. \A x \in Nat, y \in {0, 1} : x + y <= x + 2
        OBVIOUS
      <4> QED
        BY <1>1, <3>1, <3>2, <4>1
    <3>4. /\ sinceG15' \in 0 .. G15Interval /\ sinceStatus' \in 0 .. StatusCap
          /\ requested' \in BOOLEAN /\ nextPing' \in BOOLEAN
      BY <1>1, <1>2, <2>2 DEF PollLegacy
    <3> QED
      BY <3>2, <3>3, <3>4
  <2> QED
    BY <2>1, <2>2 DEF UpdatePlayerDataPolling
<1>4. Len(running') <= MaxRunning
  BY <1>1, <1>3, Bounds
<1>5. /\ unavailable' \in BOOLEAN /\ sinceUnavailable' \in 0 .. Retry
      /\ empties' \in 0 .. EmptyLimit
  BY <1>1, <1>2 DEF UpdatePlayerDataPolling
<1>6. UNCHANGED <<environment, lines, world, lost>>
  BY DEF UpdatePlayerDataPolling
<1> QED
  BY <1>3, <1>4, <1>5, <1>6 DEF IInv, TypeOK, Command, environment, world

\* An answer or a failure settles one command.
LEMMA AnswerTypes ==
  ASSUME IInv, NEW i \in DOMAIN running, GameAnswers(i) \/ CommandFails(i)
  PROVE  IInv'
<1>1. running \in Seq(Command) /\ game \in Snapshots /\ running[i] \in Command
  <2>1. running \in Seq(Command) /\ game \in Snapshots
    BY RunningType DEF IInv, TypeOK
  <2> QED
    BY <2>1
<1>2. PICK f \in {"players", "unknown", "failed"}, s \in Snapshots :
        running' = [running EXCEPT ![i].future = f, ![i].players = s]
  <2>1. CASE GameAnswers(i)
    BY <1>1, <2>1, NobodyType DEF GameAnswers
  <2>2. CASE CommandFails(i)
    <3>1. running' = [running EXCEPT ![i].future = "failed", ![i].players = running[i].players]
      BY <1>1, <2>2 DEF CommandFails, Command
    <3>2. running[i].players \in Snapshots
      BY <1>1 DEF Command
    <3> QED
      BY <3>1, <3>2
  <2> QED
    BY <2>1, <2>2
<1>3. running' \in Seq(Command) /\ Len(running') = Len(running)
  <2>1. PICK c \in Command : running' = [running EXCEPT ![i] = c]
    <3>1. [running[i] EXCEPT !.future = f, !.players = s] \in Command
      BY <1>1 DEF Command
    <3> QED
      BY <1>2, <3>1
  <2> QED
    BY <1>1, <2>1
<1>4. UNCHANGED <<environment, lines, clocks, polling, world>>
  BY DEF GameAnswers, CommandFails
<1>5. lost' \in 0 .. MaxLost
  <2>1. lost \in 0 .. MaxLost /\ MaxLost \in Nat
    BY Bounds DEF IInv, TypeOK
  <2>2. lost' = lost \/ (lost < MaxLost /\ lost' = lost + 1)
    BY DEF GameAnswers, CommandFails
  <2> QED
    BY <2>1, <2>2
<1> QED
  BY <1>3, <1>4, <1>5 DEF IInv, TypeOK, Command, environment, clocks, polling, world

\* The reply in front is taken; its text goes to the parser if it names somebody.
LEMMA TakeReplyTypes == IInv /\ TakeReply => IInv'
<1> SUFFICES ASSUME IInv, TakeReply PROVE IInv'
  OBVIOUS
<1>1. /\ running \in Seq(Command) /\ running # <<>> /\ Len(running) \in Nat
      /\ lines \in Seq(Snapshots \ {Nobody}) /\ Len(lines) \in Nat /\ Len(lines) < MaxLines
      /\ Head(running) \in Command /\ Len(running) <= MaxRunning
  <2>1. running \in Seq(Command) /\ Len(running) \in Nat /\ Len(running) <= MaxRunning
    BY RunningType
  <2>2. running # <<>> /\ Len(lines) < MaxLines
    BY DEF TakeReply
  <2>3. lines \in Seq(Snapshots \ {Nobody})
    BY DEF IInv, TypeOK
  <2>4. Head(running) \in Command /\ Len(lines) \in Nat
    BY <2>1, <2>2, <2>3
  <2> QED
    BY <2>1, <2>2, <2>3, <2>4
<1>2. PICK command, players :
        /\ command = Head(running).command /\ players = Head(running).players
        /\ players \in Snapshots
  <2>1. Head(running).players \in Snapshots
    BY <1>1 DEF Command
  <2> QED
    BY <2>1
<1>3. running' \in Seq(Command) /\ Len(running') <= MaxRunning
  <2>1. running' = Tail(running)
    BY DEF TakeReply
  <2>2. Len(running') = Len(running) - 1
    BY <1>1, <2>1
  <2> QED
    BY <1>1, <2>1, <2>2, Bounds
<1>4. lines' \in Seq(Snapshots \ {Nobody}) /\ Len(lines') <= MaxLines
  <2>1. lines' = IF ToParser(command, players) THEN Append(lines, players) ELSE lines
    BY <1>2 DEF TakeReply
  <2>2. CASE ToParser(command, players)
    <3>1. players \in Snapshots \ {Nobody} /\ lines' = Append(lines, players)
      BY <1>2, <2>1, <2>2 DEF ToParser
    <3> QED
      BY <1>1, <3>1, Bounds
  <2>3. CASE ~ToParser(command, players)
    BY <1>1, <2>1, <2>3, Bounds
  <2> QED
    BY <2>2, <2>3
<1>5. /\ unavailable \in BOOLEAN /\ requested \in BOOLEAN
      /\ sinceUnavailable \in 0 .. Retry /\ empties \in 0 .. EmptyLimit
      /\ user \in Snapshots /\ real \in Snapshots /\ sinceSeen \in 0 .. StatusWindow
  BY DEF IInv, TypeOK
<1>6. 0 \in 0 .. Retry /\ 0 \in 0 .. EmptyLimit /\ 0 \in 0 .. StatusWindow /\ EmptyLimit \in Nat
  BY Bounds DEF EmptyLimit
<1>7. /\ unavailable' \in BOOLEAN /\ requested' \in BOOLEAN
      /\ sinceUnavailable' \in 0 .. Retry /\ empties' \in 0 .. EmptyLimit
      /\ user' \in Snapshots /\ real' \in Snapshots /\ sinceSeen' \in 0 .. StatusWindow
  <2>1. CASE G15Unknown
    BY <1>5, <1>6, <2>1 DEF G15Unknown, GiveUpG15, world
  <2>2. CASE G15Empty
    <3>1. Older(empties, EmptyLimit) \in 0 .. EmptyLimit
      BY <1>5, <1>6, OlderBounded
    <3> QED
      BY <1>5, <1>6, <2>2, <3>1 DEF G15Empty, GiveUpG15, world
  <2>3. CASE G15Players(players)
    <3>1. user' \in Snapshots
      BY <1>2, <1>5, <2>3 DEF G15Players, Snapshots
    <3> QED
      BY <1>5, <1>6, <2>3, <3>1 DEF G15Players
  <2>4. CASE UNCHANGED <<unavailable, sinceUnavailable, empties, requested, world>>
    BY <1>5, <2>4 DEF world
  <2> QED
    BY <1>2, <2>1, <2>2, <2>3, <2>4 DEF TakeReply
<1>8. UNCHANGED <<environment, sinceG15, sinceStatus, nextPing, lost>>
  BY DEF TakeReply
<1> QED
  BY <1>3, <1>4, <1>7, <1>8 DEF IInv, TypeOK, Command, environment

\* The lines of a status reach the world.
LEMMA StatusTypes == IInv /\ StatusLines => IInv'
<1> SUFFICES ASSUME IInv, StatusLines PROVE IInv'
  OBVIOUS
<1>1. /\ lines \in Seq(Snapshots \ {Nobody}) /\ lines # <<>> /\ Len(lines) \in Nat
      /\ Len(lines) <= MaxLines /\ Head(lines) \in Snapshots
      /\ user \in Snapshots /\ real \in Snapshots
  BY DEF IInv, TypeOK, StatusLines
<1>2. lines' \in Seq(Snapshots \ {Nobody}) /\ Len(lines') <= MaxLines
  <2>1. lines' = Tail(lines) /\ Len(Tail(lines)) = Len(lines) - 1
    BY <1>1 DEF StatusLines
  <2> QED
    BY <1>1, <2>1, Bounds
<1>3. user' \in Snapshots /\ real' \in Snapshots
  BY <1>1 DEF StatusLines, Snapshots
<1>4. sinceSeen' \in 0 .. StatusWindow
  BY Bounds DEF StatusLines
<1>5. UNCHANGED <<environment, running, clocks, polling, lost>>
  BY DEF StatusLines
<1> QED
  BY <1>2, <1>3, <1>4, <1>5 DEF IInv, TypeOK, environment, clocks, polling

LEMMA TickTypes == IInv /\ Tick => IInv'
<1> SUFFICES ASSUME IInv, Tick PROVE IInv'
  OBVIOUS
<1>1. /\ sinceG15' \in 0 .. G15Interval /\ sinceStatus' \in 0 .. StatusCap
      /\ sinceSeen' \in 0 .. StatusWindow
  BY OlderBounded, Bounds DEF Tick, IInv, TypeOK
<1>2. sinceUnavailable' \in 0 .. Retry
  <2>1. Older(sinceUnavailable, Retry) \in 0 .. Retry /\ 0 \in 0 .. Retry
    <3>1. sinceUnavailable \in 0 .. Retry /\ Retry \in Nat
      BY Bounds DEF IInv, TypeOK
    <3> QED
      BY <3>1, OlderBounded
  <2> QED
    BY <2>1 DEF Tick
<1>3. UNCHANGED <<environment, running, lines, polling, user, real, lost>>
  BY DEF Tick
<1> QED
  BY <1>1, <1>2, <1>3 DEF IInv, TypeOK, environment, polling

\* Each join takes a user id that no server gave out before.
LEMMA EnvironmentTypes == IInv /\ Environment => IInv'
<1> SUFFICES ASSUME IInv, Environment PROVE IInv'
  OBVIOUS
<1>1. /\ changes \in Nat /\ changes < MaxChanges /\ changes' = changes + 1
      /\ joins \in Nat /\ joins <= changes /\ game \in Snapshots
      /\ g15 \in G15Modes /\ useG15 \in BOOLEAN /\ discarding \in BOOLEAN
      /\ user \in Snapshots /\ real \in Snapshots /\ sinceSeen \in 0 .. StatusWindow
  BY Bounds DEF IInv, TypeOK, Environment
<1>2. changes' \in 0 .. MaxChanges /\ joins <= changes' /\ joins \in 0 .. MaxChanges
  BY <1>1, Bounds
<1> DEFINE Typed == /\ joins \in 0 .. MaxChanges /\ joins <= changes /\ game \in Snapshots
                    /\ g15 \in G15Modes /\ useG15 \in BOOLEAN /\ discarding \in BOOLEAN
                    /\ user \in Snapshots /\ real \in Snapshots
                    /\ sinceSeen \in 0 .. StatusWindow
<1>3. Typed'
  <2>1. ASSUME NEW p \in Player, Joins(p) PROVE Typed'
    <3>1. joins' = joins + 1 /\ joins' \in 0 .. MaxChanges /\ joins' <= changes'
      BY <1>1, <2>1, Bounds DEF Joins
    <3>2. game' \in Snapshots
      BY <1>1, <2>1, <3>1 DEF Joins, Snapshots
    <3> QED
      BY <1>1, <2>1, <3>1, <3>2 DEF Joins, world
  <2>2. ASSUME NEW p \in Player, Leaves(p) PROVE Typed'
    <3>1. game' \in Snapshots
      BY <1>1, <2>2, Bounds DEF Leaves, Snapshots
    <3> QED
      BY <1>1, <1>2, <2>2, <3>1 DEF Leaves, world
  <2>3. CASE Relaunch
    BY <1>1, <1>2, <2>3, NobodyType DEF Relaunch, world
  <2>4. CASE ChangeSetting \/ OnLocalPlayerInitialized
    BY <1>1, <1>2, <2>4 DEF ChangeSetting, OnLocalPlayerInitialized, world
  <2>5. CASE ClearLobbyState
    BY <1>1, <1>2, <2>5, NobodyType DEF ClearLobbyState
  <2> QED
    BY <2>1, <2>2, <2>3, <2>4, <2>5 DEF Environment
<1>4. UNCHANGED <<running, lines, clocks, polling, lost>>
  BY DEF Environment
<1> QED
  BY <1>2, <1>3, <1>4 DEF IInv, TypeOK, clocks, polling

LEMMA NextIInv == IInv /\ [Next]_vars => IInv'
<1> SUFFICES ASSUME IInv, [Next]_vars PROVE IInv'
  OBVIOUS
<1>1. CASE UNCHANGED vars
  BY <1>1 DEF IInv, TypeOK, vars, environment, clocks, polling, world
<1> QED
  BY <1>1, PollingTypes, AnswerTypes, TakeReplyTypes, StatusTypes, TickTypes, EnvironmentTypes
     DEF Next

\* UpdatePlayerDataPolling, HandleG15Reply and the parser, in any mode and order: the
\* commands under way stay within their bound, the parser gets only replies with
\* players in them, and the world has no user id but those the servers gave out.
THEOREM TypeCorrect == Spec => []TypeOK
<1>1. IInv => TypeOK
  BY DEF IInv
<1> QED
  BY <1>1, InitIInv, NextIInv, PTL DEF Spec

-----------------------------------------------------------------------------
(* What is known stays known *)

Members(queue) == {queue[i] : i \in DOMAIN queue}

LEMMA MembersOfTail ==
  ASSUME NEW S, NEW queue \in Seq(S), queue # <<>>
  PROVE  Head(queue) \in Members(queue) /\ Members(Tail(queue)) \subseteq Members(queue)
<1>1. \A i \in DOMAIN Tail(queue) : i + 1 \in DOMAIN queue /\ Tail(queue)[i] = queue[i + 1]
  OBVIOUS
<1>2. 1 \in DOMAIN queue /\ Head(queue) = queue[1]
  OBVIOUS
<1> QED
  BY <1>1, <1>2 DEF Members

LEMMA MembersOfConcat ==
  ASSUME NEW S, NEW a \in Seq(S), NEW b \in Seq(S)
  PROVE  Members(a \o b) \subseteq Members(a) \union Members(b)
<1>1. ASSUME NEW i \in DOMAIN (a \o b)
      PROVE  \/ i \in DOMAIN a /\ (a \o b)[i] = a[i]
             \/ i - Len(a) \in DOMAIN b /\ (a \o b)[i] = b[i - Len(a)]
  <2>1. /\ Len(a) \in Nat /\ Len(b) \in Nat /\ i \in 1 .. (Len(a) + Len(b))
        /\ DOMAIN a = 1 .. Len(a) /\ DOMAIN b = 1 .. Len(b)
        /\ (a \o b)[i] = IF i <= Len(a) THEN a[i] ELSE b[i - Len(a)]
    OBVIOUS
  <2>2. i \in 1 .. Len(a) \/ (i > Len(a) /\ i - Len(a) \in 1 .. Len(b))
    BY <2>1
  <2> QED
    BY <2>1, <2>2
<1> QED
  BY <1>1 DEF Members

\* A new line comes after the others.
LEMMA MembersOfAppend ==
  ASSUME NEW S, NEW queue \in Seq(S), NEW e \in S
  PROVE  Members(Append(queue, e)) \subseteq Members(queue) \union {e}
<1>1. ASSUME NEW i \in DOMAIN Append(queue, e)
      PROVE  Append(queue, e)[i] = e \/ (i \in DOMAIN queue /\ Append(queue, e)[i] = queue[i])
  OBVIOUS
<1> QED
  BY <1>1 DEF Members

\* What a pass sends has yet to be answered.
LEMMA PassSendsWaiting ==
  ASSUME IInv, UpdatePlayerDataPolling, NEW c \in Members(running')
  PROVE  c \in Members(running) \/ (c.future = "waiting" /\ c.players = Nobody)
<1>1. running \in Seq(Command)
  BY RunningType
<1>2. ASSUME NEW command \in {"dump", "status", "ping"}, NEW e \in Members(Sent(command))
      PROVE  e.future = "waiting" /\ e.players = Nobody
  BY <1>2 DEF Sent, Members
<1>3. Members(<<>>) = {}
  BY DEF Members
<1>4. PICK a, b \in Seq(Command) :
        /\ running' = running \o a \o b
        /\ \A e \in Members(a) \union Members(b) : e.future = "waiting" /\ e.players = Nobody
  <2>1. CASE PollG15
    <3> DEFINE dumpDue == sinceG15 >= G15Interval
               statusDue == (requested /\ sinceStatus >= StatusMin) \/ sinceStatus >= StatusRefresh
               a == IF dumpDue THEN Sent("dump") ELSE <<>>
               b == IF statusDue THEN Sent("status") ELSE <<>>
    <3>1. running' = running \o a \o b
      BY <2>1 DEF PollG15
    <3>2. a \in Seq(Command) /\ \A e \in Members(a) : e.future = "waiting" /\ e.players = Nobody
      BY <1>2, <1>3, SentType
    <3>3. b \in Seq(Command) /\ \A e \in Members(b) : e.future = "waiting" /\ e.players = Nobody
      BY <1>2, <1>3, SentType
    <3> HIDE DEF a, b
    <3> QED
      BY <3>1, <3>2, <3>3
  <2>2. CASE PollLegacy
    <3>1. PICK a \in Seq(Command) :
            running' = running \o a /\ \A e \in Members(a) : e.future = "waiting" /\ e.players = Nobody
      <4>1. CASE sinceStatus >= Legacy
        <5>1. PICK command \in {"dump", "status", "ping"} : running' = running \o Sent(command)
          BY <2>2, <4>1 DEF PollLegacy
        <5>2. Sent(command) \in Seq(Command)
          BY SentType
        <5> QED
          BY <1>2, <5>1, <5>2
      <4>2. CASE ~(sinceStatus >= Legacy)
        <5>1. running' = running \o <<>> /\ <<>> \in Seq(Command)
          BY <2>2, <4>2 DEF PollLegacy
        <5> QED
          BY <1>3, <5>1
      <4> QED
        BY <4>1, <4>2
    <3>2. running \o a = (running \o a) \o <<>> /\ <<>> \in Seq(Command)
      BY <1>1
    <3> QED
      BY <1>3, <3>1, <3>2
  <2> QED
    BY <2>1, <2>2 DEF UpdatePlayerDataPolling
<1>5. running \o a \in Seq(Command)
  BY <1>1
<1>6. Members(running') \subseteq Members(running) \union Members(a) \union Members(b)
  <2>1. Members((running \o a) \o b) \subseteq Members(running \o a) \union Members(b)
    BY <1>5, MembersOfConcat
  <2>2. Members(running \o a) \subseteq Members(running) \union Members(a)
    BY <1>1, MembersOfConcat
  <2> QED
    BY <1>4, <2>1, <2>2
<1> QED
  BY <1>4, <1>6

\* The game answers with its players or with nobody; a failed command has no answer.
LEMMA AnswerIsOfGame ==
  ASSUME IInv, NEW i \in DOMAIN running, GameAnswers(i) \/ CommandFails(i), NEW c \in Members(running')
  PROVE  \/ c \in Members(running)
         \/ c.future = "failed" /\ \E d \in Members(running) : c.players = d.players
         \/ /\ GameAnswers(i) /\ c.command = running[i].command
            /\ c.future = IF c.command = "dump" /\ g15 = "unknown" THEN "unknown" ELSE "players"
            /\ c.players = IF c.command = "dump" /\ g15 # "works" THEN Nobody ELSE game
<1>1. running \in Seq(Command) /\ running[i] \in Command
  <2>1. running \in Seq(Command)
    BY RunningType
  <2> QED
    BY <2>1
<1>2. PICK j \in DOMAIN running' : c = running'[j]
  BY DEF Members
<1>3. DOMAIN running' = DOMAIN running
  BY <1>1 DEF GameAnswers, CommandFails
<1>4. CASE j # i
  <2>1. running'[j] = running[j]
    BY <1>1, <1>2, <1>3, <1>4 DEF GameAnswers, CommandFails
  <2> QED
    BY <1>2, <1>3, <2>1 DEF Members
<1>5. CASE j = i /\ GameAnswers(i)
  <2> DEFINE f == IF running[i].command = "dump" /\ g15 = "unknown" THEN "unknown" ELSE "players"
             s == IF running[i].command = "dump" /\ g15 # "works" THEN Nobody ELSE game
  <2>1. running' = [running EXCEPT ![i].future = f, ![i].players = s]
    BY <1>5 DEF GameAnswers
  <2> HIDE DEF f, s
  <2>2. c = [running[i] EXCEPT !.future = f, !.players = s]
    BY <1>1, <1>2, <1>5, <2>1
  <2>3. c.command = running[i].command /\ c.future = f /\ c.players = s
    BY <1>1, <2>2 DEF Command
  <2> QED
    BY <1>5, <2>3 DEF f, s
<1>6. CASE j = i /\ CommandFails(i)
  <2>1. c = [running[i] EXCEPT !.future = "failed"]
    BY <1>1, <1>2, <1>6 DEF CommandFails
  <2>2. c.future = "failed" /\ c.players = running[i].players /\ running[i] \in Members(running)
    BY <1>1, <2>1 DEF Command, Members
  <2> QED
    BY <2>2
<1> QED
  BY <1>4, <1>5, <1>6

\* Every reply under way names the players of the game as they are now, or leaves them
\* out.
Current(players) == \A p \in Player : players[p] # 0 /\ game[p] # 0 => players[p] = game[p]

Settled ==
  /\ \A c \in Members(running) : Current(c.players)
  /\ \A players \in Members(lines) : Current(players)

\* The world knows each player of the game by his user id and has a `status` of it.
Knows == \A p \in Player : game[p] # 0 => user[p] = game[p] /\ real[p] = game[p]

\* Old replies run out, and once they have, what the world knows stays right: a
\* dump that overtakes a status, a status that arrives late, a failed command or a
\* change of the polling mode does not undo it.
KnowledgeStays ==
  [][UNCHANGED environment /\ Settled => Settled' /\ (Knows => Knows')]_vars

LEMMA EnvironmentCounts ==
  ASSUME IInv, Environment
  PROVE  ~UNCHANGED environment
<1>1. changes \in Nat /\ changes' = changes + 1
  BY DEF Environment, IInv, TypeOK
<1> QED
  BY <1>1 DEF environment

LEMMA CurrentGame ==
  ASSUME UNCHANGED environment
  PROVE  /\ \A players : Current(players) => Current(players)'
         /\ Current(Nobody) /\ Current(game)
<1>1. game' = game
  BY DEF environment
<1> QED
  BY <1>1 DEF Current, Nobody

LEMMA KnowledgeKept ==
  ASSUME IInv, [Next]_vars, UNCHANGED environment, Settled
  PROVE  Settled' /\ (Knows => Knows')
<1>1. running \in Seq(Command) /\ lines \in Seq(Snapshots \ {Nobody})
  BY RunningType DEF IInv, TypeOK
<1>2. /\ \A players : Current(players) => Current(players)'
      /\ Current(Nobody) /\ Current(game) /\ game' = game
  BY CurrentGame DEF environment
<1>3. ASSUME \A c \in Members(running') : Current(c.players), \A s \in Members(lines') : Current(s)
      PROVE  Settled'
  BY <1>2, <1>3 DEF Settled
<1>4. UNCHANGED world => (Knows => Knows')
  BY <1>2 DEF Knows, world
<1>5. CASE UpdatePlayerDataPolling
  <2>1. \A c \in Members(running') : Current(c.players)
    BY <1>2, <1>5, PassSendsWaiting DEF Settled
  <2>2. UNCHANGED <<lines, world>>
    BY <1>5 DEF UpdatePlayerDataPolling
  <2> QED
    BY <1>3, <1>4, <2>1, <2>2 DEF Settled
<1>6. ASSUME NEW i \in DOMAIN running, GameAnswers(i) \/ CommandFails(i)
      PROVE  Settled' /\ (Knows => Knows')
  <2>1. ASSUME NEW c \in Members(running')
        PROVE  Current(c.players)
    BY <1>2, <1>6, AnswerIsOfGame DEF Settled
  <2>2. UNCHANGED <<lines, world>>
    BY <1>6 DEF GameAnswers, CommandFails
  <2> QED
    BY <1>3, <1>4, <2>1, <2>2 DEF Settled
<1>7. CASE TakeReply
  <2>1. /\ Head(running) \in Members(running) /\ Members(running') \subseteq Members(running)
        /\ Head(running) \in Command
    BY <1>1, <1>7, MembersOfTail DEF TakeReply
  <2>2. Current(Head(running).players) /\ Head(running).players \in Snapshots
    BY <2>1 DEF Settled, Command
  <2>3. Members(lines') \subseteq Members(lines) \union {Head(running).players}
    <3>1. \/ lines' = lines
          \/ lines' = Append(lines, Head(running).players) /\ Head(running).players # Nobody
      BY <1>7 DEF TakeReply, ToParser
    <3>2. CASE Head(running).players # Nobody
      <4>1. Head(running).players \in Snapshots \ {Nobody}
        BY <2>2, <3>2
      <4>2. Members(Append(lines, Head(running).players)) \subseteq Members(lines) \union {Head(running).players}
        BY <1>1, <4>1, MembersOfAppend
      <4> QED
        BY <3>1, <4>2
    <3>3. CASE Head(running).players = Nobody
      BY <3>1, <3>3
    <3> QED
      BY <3>2, <3>3
  <2>4. Settled'
    BY <1>3, <2>1, <2>2, <2>3 DEF Settled
  <2>5. ASSUME Knows
        PROVE  Knows'
    <3>1. CASE UNCHANGED world
      BY <1>4, <2>5, <3>1
    <3>2. CASE G15Players(Head(running).players)
      <4>1. \A p \in Player : user'[p] = IF Head(running).players[p] # 0
                                         THEN Head(running).players[p] ELSE user[p]
        BY <3>2 DEF G15Players
      <4>2. real' = real
        BY <3>2 DEF G15Players
      <4> QED
        BY <1>2, <2>2, <2>5, <4>1, <4>2 DEF Knows, Current
    <3> QED
      BY <1>7, <3>1, <3>2 DEF TakeReply, G15Unknown, G15Empty
  <2> QED
    BY <2>4, <2>5
<1>8. CASE StatusLines
  <2>1. Head(lines) \in Members(lines) /\ Members(lines') \subseteq Members(lines)
    BY <1>1, <1>8, MembersOfTail DEF StatusLines
  <2>2. running' = running
    BY <1>8 DEF StatusLines
  <2>3. Current(Head(lines))
    BY <2>1 DEF Settled
  <2>4. \A p \in Player : /\ user'[p] = IF Head(lines)[p] # 0 THEN Head(lines)[p] ELSE user[p]
                          /\ real'[p] = IF Head(lines)[p] # 0 THEN Head(lines)[p] ELSE real[p]
    BY <1>8 DEF StatusLines
  <2>5. Knows => Knows'
    BY <1>2, <2>3, <2>4 DEF Knows, Current
  <2> QED
    BY <1>3, <2>1, <2>2, <2>5 DEF Settled
<1>9. CASE Tick
  <2>1. UNCHANGED <<running, lines, user, real>>
    BY <1>9 DEF Tick
  <2> QED
    BY <1>2, <1>3, <2>1 DEF Settled, Knows
<1>10. CASE UNCHANGED vars
  BY <1>3, <1>4, <1>10 DEF vars, Settled, world
<1> QED
  BY <1>5, <1>6, <1>7, <1>8, <1>9, <1>10, EnvironmentCounts DEF Next

\* With any number of players and any intervals: while players and settings stay as
\* they are, replies that are up to date are followed by such replies only, and right
\* knowledge of who is on the server is not lost again.
THEOREM KnowledgeAlwaysStays == Spec => KnowledgeStays
<1>1. IInv /\ [Next]_vars =>
        [UNCHANGED environment /\ Settled => Settled' /\ (Knows => Knows')]_vars
  BY KnowledgeKept
<1> QED
  BY <1>1, InitIInv, NextIInv, PTL DEF Spec, KnowledgeStays

\* The game lists its players, there are some, and the dumps under way list them.
DumpsList ==
  /\ g15 = "works" /\ game # Nobody /\ ~unavailable
  /\ \A c \in Members(running) :
       c.command = "dump" /\ c.future \in {"players", "unknown"}
         => c.future = "players" /\ c.players # Nobody

\* G15 is not given up in a game with players in it: what is left of the limit on
\* empty dumps from before does not count on.
WorkingDumpStays == [][UNCHANGED environment /\ DumpsList => DumpsList']_vars

LEMMA DumpsListKept ==
  ASSUME IInv, [Next]_vars, UNCHANGED environment, DumpsList
  PROVE  DumpsList'
<1> DEFINE Lists(c) == c.command = "dump" /\ c.future \in {"players", "unknown"}
                         => c.future = "players" /\ c.players # Nobody
<1>1. running \in Seq(Command)
  BY RunningType
<1>2. \A c \in Members(running) : Lists(c)
  BY DEF DumpsList
<1>3. g15 = "works" /\ game # Nobody /\ ~unavailable /\ g15' = g15 /\ game' = game
  BY DEF DumpsList, environment
<1>4. ASSUME \A c \in Members(running') : Lists(c), ~unavailable'
      PROVE  DumpsList'
  BY <1>3, <1>4 DEF DumpsList, Nobody
<1>5. CASE UpdatePlayerDataPolling
  <2>1. \A c \in Members(running') : Lists(c)
    BY <1>2, <1>5, PassSendsWaiting
  <2>2. ~unavailable'
    BY <1>3, <1>5 DEF UpdatePlayerDataPolling
  <2> QED
    BY <1>4, <2>1, <2>2
<1>6. ASSUME NEW i \in DOMAIN running, GameAnswers(i) \/ CommandFails(i)
      PROVE  DumpsList'
  <2>1. \A c \in Members(running') : Lists(c)
    BY <1>2, <1>3, <1>6, AnswerIsOfGame
  <2>2. ~unavailable'
    BY <1>3, <1>6 DEF GameAnswers, CommandFails, polling
  <2> QED
    BY <1>4, <2>1, <2>2
<1>7. CASE TakeReply
  <2>1. Head(running) \in Members(running) /\ Members(running') \subseteq Members(running)
    BY <1>1, <1>7, MembersOfTail DEF TakeReply
  <2>2. Lists(Head(running))
    BY <1>2, <2>1
  <2>3. UNCHANGED unavailable
    BY <1>7, <2>2 DEF TakeReply, G15Players
  <2> QED
    BY <1>2, <1>3, <1>4, <2>1, <2>3
<1>8. CASE UNCHANGED <<running, unavailable>>
  BY <1>2, <1>3, <1>4, <1>8
<1> QED
  BY <1>5, <1>6, <1>7, <1>8, EnvironmentCounts
     DEF Next, StatusLines, Tick, vars, polling

\* A TF2 whose command works is not given up while somebody is on its server, however
\* the polling, its retries and failures and the status replies fall.
THEOREM WorkingDumpAlwaysStays == Spec => WorkingDumpStays
<1>1. IInv /\ [Next]_vars => [UNCHANGED environment /\ DumpsList => DumpsList']_vars
  BY DumpsListKept
<1> QED
  BY <1>1, InitIInv, NextIInv, PTL DEF Spec, WorkingDumpStays
=============================================================================
