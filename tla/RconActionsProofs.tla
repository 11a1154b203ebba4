-------------------------- MODULE RconActionsProofs --------------------------
(***************************************************************************)
(* The action queue, for any number of actions, any intervals and limits,  *)
(* in either mode: its limits hold, what it sends is spaced, actions of a  *)
(* kind stay in order, and nothing is lost but out of a game.              *)
(***************************************************************************)
EXTENDS RconActions, FiniteSetTheorems, TLAPS

-----------------------------------------------------------------------------
(* Places of a queue *)

\* Place enumerates a finite set of numbers in their order.
LEMMA PlacesInOrder ==
  ASSUME NEW places \in SUBSET Nat, IsFiniteSet(places)
  PROVE  /\ Cardinality(places) \in Nat
         /\ \A n \in 1 .. Cardinality(places) : Place(places, n) \in places
         /\ \A i \in places : \E n \in 1 .. Cardinality(places) : Place(places, n) = i
         /\ \A m, n \in 1 .. Cardinality(places) : m < n => Place(places, m) < Place(places, n)
<1> DEFINE Upto(i) == {j \in places : j <= i}
           count == Cardinality(places)
           rank == [i \in places |-> Cardinality(Upto(i))]
<1>0. count \in Nat
  BY FS_CardinalityType
<1>1. ASSUME NEW i \in places
      PROVE  IsFiniteSet(Upto(i)) /\ Cardinality(Upto(i)) \in 1 .. count
  <2>1. IsFiniteSet(Upto(i)) /\ Cardinality(Upto(i)) <= count
    BY FS_Subset, Upto(i) \in SUBSET places
  <2>2. Cardinality(Upto(i)) \in Nat
    BY <2>1, FS_CardinalityType
  <2>3. i \in Upto(i)
    OBVIOUS
  <2>4. Cardinality(Upto(i)) # 0
    BY <2>1, <2>3, FS_EmptySet
  <2> QED
    BY <1>0, <2>1, <2>2, <2>4
<1>2. ASSUME NEW i \in places, NEW j \in places, i < j
      PROVE  rank[i] < rank[j]
  <2>1. i \in Nat /\ j \in Nat
    OBVIOUS
  <2>2. \A k \in Nat : k <= i => k <= j
    BY <1>2, <2>1
  <2>3. Upto(i) \in SUBSET Upto(j)
    BY <2>2
  <2>4. j \in Upto(j) /\ j \notin Upto(i)
    BY <1>2, <2>1
  <2>5. Upto(i) # Upto(j)
    BY <2>4
  <2>6. Cardinality(Upto(i)) <= Cardinality(Upto(j)) /\ Cardinality(Upto(i)) # Cardinality(Upto(j))
    BY <1>1, <2>5, <2>3, FS_Subset
  <2>7. Cardinality(Upto(i)) \in Nat /\ Cardinality(Upto(j)) \in Nat
    BY <1>0, <1>1
  <2> HIDE DEF Upto
  <2> QED
    BY <2>6, <2>7
<1>3. rank \in [places -> 1 .. count]
  BY <1>1
<1> HIDE DEF rank, count
<1>4. rank \in Injection(places, 1 .. count)
  <2>1. ASSUME NEW i \in places, NEW j \in places, rank[i] = rank[j]
        PROVE  i = j
    <3>1. i \in Nat /\ j \in Nat /\ rank[i] \in Nat
      BY <1>0, <1>3
    <3>2. ~(i < j) /\ ~(j < i)
      BY <1>2, <2>1, <3>1
    <3> QED
      BY <3>1, <3>2
  <2> QED
    BY <1>3, <2>1 DEF Injection, IsInjective
<1>5. rank \in Surjection(places, 1 .. count)
  <2>1. IsFiniteSet(1 .. count) /\ Cardinality(1 .. count) = count
    BY <1>0, FS_Interval
  <2> QED
    BY <1>4, <2>1, FS_Injection DEF count
<1>6. ASSUME NEW n \in 1 .. count
      PROVE  Place(places, n) \in places /\ rank[Place(places, n)] = n
  <2>1. PICK i \in places : rank[i] = n
    BY <1>5 DEF Surjection
  <2>2. \E j \in places : Cardinality(Upto(j)) = n
    BY <2>1 DEF rank
  <2>3. Place(places, n) \in places /\ Cardinality(Upto(Place(places, n))) = n
    BY <2>2 DEF Place
  <2> QED
    BY <2>3 DEF rank
<1>7. ASSUME NEW i \in places
      PROVE  \E n \in 1 .. count : Place(places, n) = i
  <2>1. rank[i] \in 1 .. count
    BY <1>3
  <2>2. Place(places, rank[i]) = i
    BY <1>4, <1>6, <2>1 DEF Injection, IsInjective
  <2> QED
    BY <2>1, <2>2
<1>8. ASSUME NEW m \in 1 .. count, NEW n \in 1 .. count, m < n
      PROVE  Place(places, m) < Place(places, n)
  <2> DEFINE p == Place(places, m)
             q == Place(places, n)
  <2>1. p \in places /\ q \in places /\ rank[p] = m /\ rank[q] = n
    BY <1>6
  <2> HIDE DEF p, q
  <2>2. m \in Nat /\ n \in Nat /\ p \in Nat /\ q \in Nat
    BY <1>0, <2>1
  <2>3. p # q
    BY <1>8, <2>1, <2>2
  <2>4. ~(q < p)
    BY <1>2, <1>8, <2>1, <2>2
  <2>5. p < q
    BY <2>2, <2>3, <2>4
  <2> QED
    BY <2>5 DEF p, q
<1> QED
  BY <1>0, <1>6, <1>7, <1>8 DEF count

\* What is taken from a queue is a sequence of the actions at those places.
LEMMA TakenInOrder ==
  ASSUME NEW S, NEW queue \in Seq(S), NEW places \in SUBSET DOMAIN queue
  PROVE  /\ Taken(queue, places) \in Seq(S)
         /\ Len(Taken(queue, places)) = Cardinality(places)
         /\ Cardinality(places) \in Nat
         /\ \A n \in 1 .. Cardinality(places) :
              /\ Place(places, n) \in places
              /\ Taken(queue, places)[n] = queue[Place(places, n)]
         /\ \A i \in places : \E n \in 1 .. Cardinality(places) :
              Place(places, n) = i /\ Taken(queue, places)[n] = queue[i]
         /\ \A m, n \in 1 .. Cardinality(places) : Place(places, m) = Place(places, n) => m = n
<1>1. IsFiniteSet(DOMAIN queue) /\ DOMAIN queue \subseteq Nat
  BY FS_Interval
<1>2. IsFiniteSet(places) /\ places \in SUBSET Nat
  BY <1>1, FS_Subset
<1>3. Cardinality(places) \in Nat
  BY <1>2, PlacesInOrder
<1>4. \A n \in 1 .. Cardinality(places) : Place(places, n) \in places
  BY <1>2, PlacesInOrder
<1>5. Taken(queue, places) \in [1 .. Cardinality(places) -> S]
  BY <1>4 DEF Taken
<1>6. Taken(queue, places) \in Seq(S) /\ Len(Taken(queue, places)) = Cardinality(places)
  BY <1>3, <1>5
<1>7. \A n \in 1 .. Cardinality(places) : Taken(queue, places)[n] = queue[Place(places, n)]
  BY DEF Taken
<1>8. \A i \in places : \E n \in 1 .. Cardinality(places) : Place(places, n) = i
  BY <1>2, PlacesInOrder
<1>9. ASSUME NEW m \in 1 .. Cardinality(places), NEW n \in 1 .. Cardinality(places),
             Place(places, m) = Place(places, n)
      PROVE  m = n
  <2>1. Place(places, m) \in Nat /\ m \in Nat /\ n \in Nat
    BY <1>2, <1>3, <1>4
  <2>2. ~(m < n) /\ ~(n < m)
    BY <1>2, <1>9, <2>1, PlacesInOrder
  <2> QED
    BY <2>1, <2>2
<1> QED
  BY <1>3, <1>4, <1>6, <1>7, <1>8, <1>9

\* The places of a queue that hold actions of some kinds.
OfKinds(queue, kinds) == {i \in DOMAIN queue : queue[i].kind \in kinds}

LEMMA KindsOfActions ==
  ASSUME NEW queue \in Seq(Action)
  PROVE  \A i \in DOMAIN queue : queue[i] \in Action /\ queue[i].kind \in Kinds
<1>1. \A i \in DOMAIN queue : queue[i] \in Action
  OBVIOUS
<1>2. \A action \in Action : action.kind \in Kinds
  BY DEF Action
<1> QED
  BY <1>1, <1>2

LEMMA TypesByKinds ==
  ASSUME NEW queue \in Seq(Action)
  PROVE  /\ QueuedOfType(queue, "Kick") = OfKinds(queue, {"kick"})
         /\ QueuedOfType(queue, "ChatMessage") = OfKinds(queue, {"chat", "party"})
         /\ {i \in DOMAIN queue : queue[i].kind = "chat"} = OfKinds(queue, {"chat"})
<1>1. \A i \in DOMAIN queue : queue[i].kind \in Kinds
  BY KindsOfActions
<1> QED
  BY <1>1 DEF QueuedOfType, OfKinds, TypeOf, Kinds

LEMMA OfKindsFinite ==
  ASSUME NEW S, NEW queue \in Seq(S), NEW kinds
  PROVE  IsFiniteSet(OfKinds(queue, kinds)) /\ Cardinality(OfKinds(queue, kinds)) \in Nat
<1>1. IsFiniteSet(DOMAIN queue)
  BY FS_Interval
<1>2. OfKinds(queue, kinds) \in SUBSET DOMAIN queue
  BY DEF OfKinds
<1> QED
  BY <1>1, <1>2, FS_Subset, FS_CardinalityType

\* Taking actions from a queue does not multiply them.
LEMMA TakenNoMore ==
  ASSUME NEW queue \in Seq(Action), NEW places \in SUBSET DOMAIN queue, NEW kinds
  PROVE  Cardinality(OfKinds(Taken(queue, places), kinds)) <= Cardinality(OfKinds(queue, kinds))
<1> DEFINE taken == Taken(queue, places)
           from == [n \in OfKinds(taken, kinds) |-> Place(places, n)]
<1>1. DOMAIN taken = 1 .. Cardinality(places)
  BY DEF Taken
<1>2. \A n \in DOMAIN taken : Place(places, n) \in DOMAIN queue /\ taken[n] = queue[Place(places, n)]
  BY <1>1, TakenInOrder
<1>3. \A m, n \in DOMAIN taken : Place(places, m) = Place(places, n) => m = n
  BY <1>1, TakenInOrder
<1> HIDE DEF taken
<1>4. from \in [OfKinds(taken, kinds) -> OfKinds(queue, kinds)]
  BY <1>2 DEF OfKinds
<1>5. from \in Injection(OfKinds(taken, kinds), OfKinds(queue, kinds))
  BY <1>3, <1>4 DEF Injection, IsInjective, OfKinds
<1>6. IsFiniteSet(OfKinds(queue, kinds))
  BY OfKindsFinite
<1> QED
  BY <1>5, <1>6, FS_Injection DEF taken

LEMMA AppendCounts ==
  ASSUME NEW queue \in Seq(Action), NEW action \in Action, NEW kinds
  PROVE  Cardinality(OfKinds(Append(queue, action), kinds)) =
           IF action.kind \in kinds THEN Cardinality(OfKinds(queue, kinds)) + 1
                                    ELSE Cardinality(OfKinds(queue, kinds))
<1> DEFINE longer == Append(queue, action)
           new == Len(queue) + 1
<1>1. DOMAIN longer = DOMAIN queue \union {new} /\ longer[new] = action /\ new \notin DOMAIN queue
  OBVIOUS
<1>2. \A i \in DOMAIN queue : longer[i] = queue[i]
  OBVIOUS
<1>3. IsFiniteSet(OfKinds(queue, kinds))
  BY OfKindsFinite
<1> HIDE DEF longer, new
<1>4. CASE action.kind \in kinds
  <2>1. OfKinds(longer, kinds) = OfKinds(queue, kinds) \union {new}
    BY <1>1, <1>2, <1>4 DEF OfKinds
  <2>2. new \notin OfKinds(queue, kinds)
    BY <1>1 DEF OfKinds
  <2> QED
    BY <1>3, <1>4, <2>1, <2>2, FS_AddElement DEF longer
<1>5. CASE action.kind \notin kinds
  <2>1. OfKinds(longer, kinds) = OfKinds(queue, kinds)
    BY <1>1, <1>2, <1>5 DEF OfKinds
  <2> QED
    BY <1>5, <2>1 DEF longer
<1> QED
  BY <1>4, <1>5

-----------------------------------------------------------------------------
(* A pass *)

\* What ProcessQueuedCommands does to a queue of which it processes some actions
\* and writes some of these.
PassOver(queue, processed, written) ==
  /\ Len(actions) <= Len(queue)
  /\ \A i \in DOMAIN actions : queue[i] = actions[i]
  /\ \A i \in DOMAIN queue \ DOMAIN actions : queue[i].kind \in {"client", "server"}
  /\ processed = {i \in DOMAIN queue : Processed(queue, i)}
  /\ written = {i \in processed : ~ShouldDiscardCommand(queue[i].kind)}
  /\ actions' = Taken(queue, DOMAIN queue \ processed)
  /\ running' = running \o [i \in DOMAIN Taken(queue, written) |->
                              [action |-> Taken(queue, written)[i], future |-> "waiting"]]
  /\ sinceTrigger' = [type \in LimitedTypes |->
                        IF type \in {TypeOf(queue[i].kind) : i \in processed} THEN 0 ELSE sinceTrigger[type]]
  /\ sinceSent' = [kind \in LimitedKinds |->
                     IF kind \in {queue[i].kind : i \in written} THEN 0 ELSE sinceSent[kind]]
  /\ sinceUpdate' = 0
  /\ UNCHANGED <<discarding, client>>

LEMMA UpdatePasses ==
  ASSUME actions \in Seq(Action), Update
  PROVE  \E queue \in Seq(Action), processed \in SUBSET Nat, written \in SUBSET Nat :
           PassOver(queue, processed, written)
<1>1. PICK polls \in Polls : ProcessQueuedCommands(polls)
  BY DEF Update
<1> DEFINE queue == actions \o polls
<1>2. polls \in Seq(Action) /\ \A i \in DOMAIN polls : polls[i].kind \in {"client", "server"}
  <2>1. CASE polls = <<>>
    BY <2>1
  <2>2. CASE polls \in {<<[kind |-> kind, id |-> p]>> : kind \in {"client", "server"}, p \in Polled}
    <3>1. PICK kind \in {"client", "server"}, p \in Polled : polls = <<[kind |-> kind, id |-> p]>>
      BY <2>2
    <3>2. [kind |-> kind, id |-> p] \in Action
      BY DEF Action, Kinds
    <3> QED
      BY <3>1, <3>2
  <2> QED
    BY <2>1, <2>2 DEF Polls
<1>3. queue \in Seq(Action) /\ Len(queue) = Len(actions) + Len(polls)
  BY <1>2
<1>4. \A i \in DOMAIN actions : queue[i] = actions[i]
  BY <1>2
<1>5. \A i \in DOMAIN queue \ DOMAIN actions : queue[i].kind \in {"client", "server"}
  BY <1>2
<1>6. Len(actions) <= Len(queue)
  BY <1>2, <1>3
<1> HIDE DEF queue
<1> DEFINE processed == {i \in DOMAIN queue : Processed(queue, i)}
           written == {i \in processed : ~ShouldDiscardCommand(queue[i].kind)}
<1>7. PassOver(queue, processed, written)
  BY <1>1, <1>4, <1>5, <1>6 DEF PassOver, ProcessQueuedCommands, Triggered, queue
<1>8. processed \in SUBSET Nat /\ written \in SUBSET Nat
  BY <1>3
<1> QED
  BY <1>3, <1>7, <1>8

-----------------------------------------------------------------------------
(* The invariant *)

\* A type is triggered whenever one of its limited kinds is sent.
ClocksAgree == \A kind \in LimitedKinds : sinceTrigger[TypeOf(kind)] <= sinceSent[kind]

IInv == TypeOK /\ QueueLimits /\ ClocksAgree

LEMMA Ages ==
  /\ MaxAge \in Nat
  /\ \A age \in 0 .. MaxAge : Older(age) \in 0 .. MaxAge /\ age <= Older(age)
  /\ \A old, older \in 0 .. MaxAge : old <= older => Older(old) <= Older(older)
<1>1. MaxAge \in Nat
  BY RconAssumption DEF MaxAge
<1> QED
  BY <1>1 DEF Older

Command == [action : Action, future : {"waiting", "done"}]

\* The front of m_RunningCommands that is done is well defined.
LEMMA FrontIsDone ==
  ASSUME running \in Seq(Command)
  PROVE  /\ DoneInFront \in 0 .. Len(running)
         /\ \A i \in 1 .. DoneInFront : running[i].future # "waiting"
<1> DEFINE waiting == {i \in DOMAIN running : running[i].future = "waiting"}
           Front(n) == /\ \A i \in 1 .. n : running[i].future # "waiting"
                       /\ n < Len(running) => running[n + 1].future = "waiting"
<1>1. \E n \in 0 .. Len(running) : Front(n)
  <2>1. CASE waiting = {}
    <3>1. Len(running) \in 0 .. Len(running) /\ Front(Len(running))
      BY <2>1
    <3> QED
      BY <3>1
  <2>2. CASE waiting # {}
    <3> DEFINE first == Place(waiting, 1)
               count == Cardinality(waiting)
    <3>1. IsFiniteSet(waiting) /\ waiting \in SUBSET Nat
      <4>1. DOMAIN running = 1 .. Len(running) /\ Len(running) \in Nat
        OBVIOUS
      <4>2. IsFiniteSet(DOMAIN running)
        BY <4>1, FS_Interval
      <4>3. DOMAIN running \subseteq Nat /\ waiting \in SUBSET DOMAIN running
        BY <4>1
      <4> QED
        BY <4>2, <4>3, FS_Subset
    <3>2. count \in Nat /\ count # 0
      BY <2>2, <3>1, FS_CardinalityType, FS_EmptySet
    <3>3. 1 \in 1 .. count
      BY <3>2
    <3>4. first \in waiting
      BY <3>1, <3>3, PlacesInOrder
    <3>5. ASSUME NEW i \in waiting
          PROVE  first <= i
      <4>1. PICK n \in 1 .. count : Place(waiting, n) = i
        BY <3>1, PlacesInOrder
      <4>2. CASE n = 1
        BY <3>1, <4>1, <4>2
      <4>3. CASE 1 < n
        BY <3>1, <3>3, <3>4, <4>1, <4>3, PlacesInOrder
      <4> QED
        BY <3>2, <4>2, <4>3
    <3> HIDE DEF first, count
    <3>6. first \in 1 .. Len(running) /\ running[first].future = "waiting"
      BY <3>4
    <3>7. \A i \in 1 .. first - 1 : i \in DOMAIN running /\ i \notin waiting
      <4> TAKE i \in 1 .. first - 1
      <4>1. i \in 1 .. Len(running) /\ ~(first <= i)
        BY <3>6
      <4> QED
        BY <3>5, <4>1
    <3>8. first - 1 \in 0 .. Len(running) /\ first - 1 + 1 = first
      BY <3>6
    <3>9. Front(first - 1)
      BY <3>6, <3>7, <3>8
    <3> QED
      BY <3>8, <3>9
  <2> QED
    BY <2>1, <2>2
<1>2. DoneInFront \in 0 .. Len(running) /\ Front(DoneInFront)
  BY <1>1 DEF DoneInFront
<1> QED
  BY <1>2

\* CommandDone, GameQuit and ProcessRunningCommands leave a sequence of commands.
LEMMA RunningStaysTyped ==
  ASSUME running \in Seq(Command)
  PROVE  /\ \A i \in DOMAIN running : [running EXCEPT ![i].future = "done"] \in Seq(Command)
         /\ [i \in DOMAIN running |-> [running[i] EXCEPT !.future = "done"]] \in Seq(Command)
         /\ \A n \in 0 .. Len(running) :
              /\ SubSeq(running, n + 1, Len(running)) \in Seq(Command)
              /\ Len(SubSeq(running, n + 1, Len(running))) = Len(running) - n
<1>1. \A command \in Command : [command EXCEPT !.future = "done"] \in Command
  BY DEF Command
<1>2. \A i \in DOMAIN running : running[i] \in Command
  OBVIOUS
<1>3. ASSUME NEW i \in DOMAIN running
      PROVE  [running EXCEPT ![i].future = "done"] \in Seq(Command)
  <2> DEFINE done == [running[i] EXCEPT !.future = "done"]
  <2>1. done \in Command
    BY <1>1, <1>2
  <2>2. [running EXCEPT ![i].future = "done"] = [running EXCEPT ![i] = done]
    OBVIOUS
  <2> HIDE DEF done
  <2> QED
    BY <2>1, <2>2
<1>4. [i \in DOMAIN running |-> [running[i] EXCEPT !.future = "done"]] \in Seq(Command)
  <2> DEFINE settled == [i \in DOMAIN running |-> [running[i] EXCEPT !.future = "done"]]
  <2>1. settled \in [1 .. Len(running) -> Command]
    BY <1>1, <1>2
  <2> QED
    BY <2>1
<1>5. ASSUME NEW n \in 0 .. Len(running)
      PROVE  /\ SubSeq(running, n + 1, Len(running)) \in Seq(Command)
             /\ Len(SubSeq(running, n + 1, Len(running))) = Len(running) - n
  OBVIOUS
<1> QED
  BY <1>3, <1>4, <1>5

LEMMA TypeStep ==
  ASSUME TypeOK, [Next]_vars
  PROVE  TypeOK'
<1> USE DEF TypeOK
<1>r. running \in Seq(Command)
  BY DEF Command
<1>1. ASSUME NEW kind \in Sources, NEW id \in Id, QueueAction([kind |-> kind, id |-> id])
      PROVE  TypeOK'
  <2>1. [kind |-> kind, id |-> id] \in Action
    BY RconAssumption DEF Action, Kinds
  <2>2. actions' \in Seq(Action)
    BY <1>1, <2>1 DEF QueueAction
  <2> QED
    BY <1>1, <2>2 DEF QueueAction
<1>2. CASE Update
  <2>1. PICK queue \in Seq(Action), processed \in SUBSET Nat, written \in SUBSET Nat :
               PassOver(queue, processed, written)
    BY <1>2, UpdatePasses
  <2> DEFINE commands == Taken(queue, written)
             kept == DOMAIN queue \ processed
             more == [i \in DOMAIN commands |-> [action |-> commands[i], future |-> "waiting"]]
  <2>2. written \in SUBSET DOMAIN queue /\ kept \in SUBSET DOMAIN queue
    BY <2>1 DEF PassOver
  <2>3. Taken(queue, kept) \in Seq(Action) /\ commands \in Seq(Action)
    BY <2>2, TakenInOrder
  <2>4. actions' \in Seq(Action)
    BY <2>1, <2>3 DEF PassOver
  <2> HIDE DEF commands
  <2>5. more \in Seq([action : Action, future : {"waiting", "done"}])
    <3>1. \A i \in 1 .. Len(commands) : commands[i] \in Action
      BY <2>3
    <3>2. DOMAIN commands = 1 .. Len(commands) /\ Len(commands) \in Nat
      BY <2>3
    <3> QED
      BY <3>1, <3>2
  <2>6. running' = running \o more
    BY <2>1 DEF PassOver, commands
  <2> HIDE DEF more
  <2>7. running' \in Seq([action : Action, future : {"waiting", "done"}])
    BY <2>5, <2>6
  <2>8. sinceTrigger' \in [LimitedTypes -> 0 .. MaxAge] /\ sinceSent' \in [LimitedKinds -> 0 .. MaxAge]
    BY <2>1, Ages DEF PassOver
  <2>9. sinceUpdate' = 0 /\ discarding' = discarding /\ client' = client
    BY <2>1 DEF PassOver
  <2> QED
    BY <2>4, <2>7, <2>8, <2>9
<1>3. ASSUME NEW i \in DOMAIN running, CommandDone(i)
      PROVE  TypeOK'
  <2>1. running' \in Seq(Command)
    BY <1>3, <1>r, RunningStaysTyped DEF CommandDone
  <2> QED
    BY <1>3, <2>1 DEF CommandDone, Command
<1>4. CASE ProcessRunningCommands
  <2>1. running' \in Seq(Command)
    BY <1>4, <1>r, RunningStaysTyped, FrontIsDone DEF ProcessRunningCommands
  <2> QED
    BY <1>4, <2>1 DEF ProcessRunningCommands, Command
<1>5. ASSUME NEW initialized \in BOOLEAN, OnLocalPlayerInitialized(initialized)
      PROVE  TypeOK'
  BY <1>5 DEF OnLocalPlayerInitialized
<1>6. CASE GameQuit
  <2>1. running' \in Seq(Command)
    BY <1>6, <1>r, RunningStaysTyped DEF GameQuit
  <2>2. actions' \in Seq(Action)
    BY <1>6 DEF GameQuit
  <2> QED
    BY <1>6, <2>1, <2>2 DEF GameQuit, Command
<1>7. CASE GameConnected
  BY <1>7 DEF GameConnected
<1>8. CASE Tick
  BY <1>8, Ages DEF Tick
<1>9. CASE UNCHANGED vars
  BY <1>9 DEF vars
<1> QED
  BY <1>1, <1>2, <1>3, <1>4, <1>5, <1>6, <1>7, <1>8, <1>9 DEF Next

\* A pass leaves no more actions of a limited kind than there were.
LEMMA PassKeepsLimits ==
  ASSUME TypeOK, NEW queue \in Seq(Action), NEW processed, NEW written,
         PassOver(queue, processed, written),
         NEW kinds \in SUBSET {"kick", "chat", "party"}
  PROVE  Cardinality(OfKinds(actions', kinds)) <= Cardinality(OfKinds(actions, kinds))
<1>1. DOMAIN actions = 1 .. Len(actions) /\ DOMAIN queue = 1 .. Len(queue) /\ Len(actions) <= Len(queue)
      /\ Len(actions) \in Nat /\ Len(queue) \in Nat
  BY DEF PassOver, TypeOK
<1>2. DOMAIN actions \subseteq DOMAIN queue
  BY <1>1
<1>3. OfKinds(queue, kinds) = OfKinds(actions, kinds)
  BY <1>2 DEF PassOver, OfKinds
<1>4. DOMAIN queue \ processed \in SUBSET DOMAIN queue
  OBVIOUS
<1>5. actions' = Taken(queue, DOMAIN queue \ processed)
  BY DEF PassOver
<1> QED
  BY <1>3, <1>4, <1>5, TakenNoMore

Limits(kicks, chats, messages) ==
  kicks <= 1 /\ chats <= 2 /\ messages <= IF MaxParty > 2 THEN MaxParty ELSE 2

LEMMA LimitsByKinds ==
  ASSUME TypeOK
  PROVE  QueueLimits = Limits(Cardinality(OfKinds(actions, {"kick"})),
                              Cardinality(OfKinds(actions, {"chat"})),
                              Cardinality(OfKinds(actions, {"chat", "party"})))
<1>1. actions \in Seq(Action)
  BY DEF TypeOK
<1> QED
  BY <1>1, TypesByKinds DEF QueueLimits, Limits

\* QueueAction adds an action only below the limit of its kind.
LEMMA QueueingKeepsLimits ==
  ASSUME TypeOK, TypeOK', QueueLimits, NEW kind \in Sources, NEW id \in Id,
         QueueAction([kind |-> kind, id |-> id])
  PROVE  QueueLimits'
<1> DEFINE action == [kind |-> kind, id |-> id]
           Count(kinds) == Cardinality(OfKinds(actions, kinds))
           CountAfter(kinds) == Cardinality(OfKinds(Append(actions, action), kinds))
<1>1. actions \in Seq(Action) /\ action \in Action /\ action.kind = kind
  BY RconAssumption DEF TypeOK, Action, Kinds
<1> HIDE DEF action
<1>2. kind \in {"kick", "chat", "party"} /\ MaxParty \in Nat
  BY RconAssumption
<1>3. \A kinds : CountAfter(kinds) = IF kind \in kinds THEN Count(kinds) + 1 ELSE Count(kinds)
  BY <1>1, AppendCounts
<1>4. \A kinds : Count(kinds) \in Nat
  BY <1>1, OfKindsFinite
<1>5. Limits(Count({"kick"}), Count({"chat"}), Count({"chat", "party"}))
  BY LimitsByKinds
<1>6. Count({"chat"}) <= Count({"chat", "party"})
  <2>1. OfKinds(actions, {"chat"}) \in SUBSET OfKinds(actions, {"chat", "party"})
    BY DEF OfKinds
  <2> QED
    BY <1>1, <2>1, OfKindsFinite, FS_Subset
<1>7. CASE actions' = actions
  BY <1>7 DEF QueueLimits, QueuedOfType
<1>8. CASE MayQueue(actions, kind) /\ actions' = Append(actions, action)
  <2>1. QueuedOfType(actions, "Kick") = OfKinds(actions, {"kick"})
        /\ QueuedOfType(actions, "ChatMessage") = OfKinds(actions, {"chat", "party"})
    BY <1>1, TypesByKinds
  <2>2. Limits(CountAfter({"kick"}), CountAfter({"chat"}), CountAfter({"chat", "party"}))
    <3>1. CASE kind = "kick"
      <4>1. Count({"kick"}) < 1
        BY <1>8, <2>1, <3>1 DEF MayQueue, Unlimited, TypeOf, MaxQueuedCount
      <4>2. CountAfter({"kick"}) = Count({"kick"}) + 1 /\ CountAfter({"chat"}) = Count({"chat"})
            /\ CountAfter({"chat", "party"}) = Count({"chat", "party"})
        BY <1>3, <3>1
      <4> HIDE DEF Count, CountAfter
      <4> QED
        BY <1>4, <1>5, <4>1, <4>2 DEF Limits
    <3>2. CASE kind = "chat"
      <4>1. Count({"chat", "party"}) < 2
        BY <1>8, <2>1, <3>2 DEF MayQueue, Unlimited, TypeOf, MaxQueuedCount
      <4>2. CountAfter({"kick"}) = Count({"kick"}) /\ CountAfter({"chat"}) = Count({"chat"}) + 1
            /\ CountAfter({"chat", "party"}) = Count({"chat", "party"}) + 1
        BY <1>3, <3>2
      <4> HIDE DEF Count, CountAfter
      <4> QED
        BY <1>2, <1>4, <1>5, <1>6, <4>1, <4>2 DEF Limits
    <3>3. CASE kind = "party"
      <4>1. Count({"chat", "party"}) < MaxParty
        BY <1>8, <2>1, <3>3 DEF MayQueue, Unlimited, TypeOf, MaxQueuedCount
      <4>2. CountAfter({"kick"}) = Count({"kick"}) /\ CountAfter({"chat"}) = Count({"chat"})
            /\ CountAfter({"chat", "party"}) = Count({"chat", "party"}) + 1
        BY <1>3, <3>3
      <4> HIDE DEF Count, CountAfter
      <4> QED
        BY <1>2, <1>4, <1>5, <4>1, <4>2 DEF Limits
    <3> QED
      BY <1>2, <3>1, <3>2, <3>3
  <2>3. actions' \in Seq(Action) /\ actions' = Append(actions, action)
    BY <1>1, <1>8
  <2>4. QueueLimits' = Limits(CountAfter({"kick"}), CountAfter({"chat"}), CountAfter({"chat", "party"}))
    BY <2>3, TypesByKinds DEF QueueLimits, Limits
  <2> QED
    BY <2>2, <2>4
<1> QED
  BY <1>1, <1>7, <1>8 DEF QueueAction, action

LEMMA LimitsStep ==
  ASSUME TypeOK, TypeOK', QueueLimits, [Next]_vars
  PROVE  QueueLimits'
<1>1. ASSUME NEW kind \in Sources, NEW id \in Id, QueueAction([kind |-> kind, id |-> id])
      PROVE  QueueLimits'
  BY <1>1, QueueingKeepsLimits
<1>2. CASE Update
  <2>1. actions \in Seq(Action) /\ actions' \in Seq(Action)
    BY DEF TypeOK
  <2>2. PICK queue \in Seq(Action), processed \in SUBSET Nat, written \in SUBSET Nat :
               PassOver(queue, processed, written)
    BY <1>2, <2>1, UpdatePasses
  <2>3. \A kinds \in SUBSET {"kick", "chat", "party"} :
           Cardinality(OfKinds(actions', kinds)) <= Cardinality(OfKinds(actions, kinds))
    BY <2>2, PassKeepsLimits
  <2>4. \A kinds : Cardinality(OfKinds(actions', kinds)) \in Nat /\ Cardinality(OfKinds(actions, kinds)) \in Nat
    BY <2>1, OfKindsFinite
  <2> DEFINE Before(kinds) == Cardinality(OfKinds(actions, kinds))
             After(kinds) == Cardinality(OfKinds(actions', kinds))
  <2>5. Limits(Before({"kick"}), Before({"chat"}), Before({"chat", "party"}))
    BY LimitsByKinds
  <2>6. After({"kick"}) <= Before({"kick"}) /\ After({"chat"}) <= Before({"chat"})
        /\ After({"chat", "party"}) <= Before({"chat", "party"})
    BY <2>3
  <2>7. \A kinds : Before(kinds) \in Nat /\ After(kinds) \in Nat
    BY <2>4
  <2> HIDE DEF Before, After
  <2>8. Limits(After({"kick"}), After({"chat"}), After({"chat", "party"}))
    BY <2>5, <2>6, <2>7, RconAssumption DEF Limits
  <2>9. QueueLimits' = Limits(After({"kick"}), After({"chat"}), After({"chat", "party"}))
    BY <2>1, TypesByKinds DEF QueueLimits, Limits, After
  <2> QED
    BY <2>8, <2>9
<1>3. CASE GameQuit
  <2>1. actions' = <<>>
    BY <1>3 DEF GameQuit
  <2>2. /\ QueuedOfType(actions', "Kick") = {}
        /\ QueuedOfType(actions', "ChatMessage") = {}
        /\ {i \in DOMAIN actions' : actions'[i].kind = "chat"} = {}
    BY <2>1 DEF QueuedOfType
  <2>3. /\ Cardinality(QueuedOfType(actions', "Kick")) = 0
        /\ Cardinality(QueuedOfType(actions', "ChatMessage")) = 0
        /\ Cardinality({i \in DOMAIN actions' : actions'[i].kind = "chat"}) = 0
    BY <2>2, FS_EmptySet
  <2>4. 0 <= IF MaxParty > 2 THEN MaxParty ELSE 2
    BY RconAssumption
  <2> QED
    BY <2>3, <2>4 DEF QueueLimits
<1>4. ASSUME UNCHANGED actions
      PROVE  QueueLimits'
  BY <1>4 DEF QueueLimits, QueuedOfType
<1> QED
  BY <1>1, <1>2, <1>3, <1>4
     DEF Next, CommandDone, ProcessRunningCommands, OnLocalPlayerInitialized, GameConnected, Tick, vars

LEMMA ClocksStep ==
  ASSUME TypeOK, ClocksAgree, [Next]_vars
  PROVE  ClocksAgree'
<1>1. CASE Update
  <2>1. PICK queue \in Seq(Action), processed \in SUBSET Nat, written \in SUBSET Nat :
               PassOver(queue, processed, written)
    BY <1>1, UpdatePasses DEF TypeOK
  <2>2. SUFFICES ASSUME NEW kind \in LimitedKinds
                 PROVE  sinceTrigger'[TypeOf(kind)] <= sinceSent'[kind]
    BY DEF ClocksAgree
  <2>3. TypeOf(kind) \in LimitedTypes
    BY DEF LimitedKinds, LimitedTypes, TypeOf
  <2>4. sinceTrigger[TypeOf(kind)] \in Nat /\ sinceSent[kind] \in Nat
    BY <2>3, Ages DEF TypeOK
  <2>5. CASE kind \in {queue[i].kind : i \in written}
    <3>1. TypeOf(kind) \in {TypeOf(queue[i].kind) : i \in processed}
      BY <2>1, <2>5 DEF PassOver
    <3> QED
      BY <2>1, <2>3, <2>5, <3>1 DEF PassOver
  <2>6. CASE kind \notin {queue[i].kind : i \in written}
    <3>1. sinceSent'[kind] = sinceSent[kind]
      BY <2>1, <2>6 DEF PassOver
    <3>2. sinceTrigger'[TypeOf(kind)] = 0 \/ sinceTrigger'[TypeOf(kind)] = sinceTrigger[TypeOf(kind)]
      BY <2>1, <2>3 DEF PassOver
    <3> QED
      BY <2>4, <3>1, <3>2 DEF ClocksAgree
  <2> QED
    BY <2>5, <2>6
<1>2. CASE Tick
  <2>1. SUFFICES ASSUME NEW kind \in LimitedKinds
                 PROVE  sinceTrigger'[TypeOf(kind)] <= sinceSent'[kind]
    BY DEF ClocksAgree
  <2>2. TypeOf(kind) \in LimitedTypes
    BY DEF LimitedKinds, LimitedTypes, TypeOf
  <2>3. sinceTrigger[TypeOf(kind)] \in 0 .. MaxAge /\ sinceSent[kind] \in 0 .. MaxAge
    BY <2>2 DEF TypeOK
  <2>4. Older(sinceTrigger[TypeOf(kind)]) <= Older(sinceSent[kind])
    BY <2>3, Ages DEF ClocksAgree
  <2> QED
    BY <1>2, <2>2, <2>4 DEF Tick
<1>3. ASSUME UNCHANGED <<sinceTrigger, sinceSent>>
      PROVE  ClocksAgree'
  BY <1>3 DEF ClocksAgree
<1> QED
  BY <1>1, <1>2, <1>3
     DEF Next, QueueAction, CommandDone, ProcessRunningCommands, OnLocalPlayerInitialized,
         GameQuit, GameConnected, vars

THEOREM InvariantHolds == Spec => []IInv
<1>1. Init => IInv
  <2> SUFFICES ASSUME Init PROVE IInv
    OBVIOUS
  <2>1. TypeOK
    BY Ages, RconAssumption DEF Init, TypeOK, Action
  <2>2. actions = <<>>
    BY DEF Init
  <2>3. /\ QueuedOfType(actions, "Kick") = {}
        /\ QueuedOfType(actions, "ChatMessage") = {}
        /\ {i \in DOMAIN actions : actions[i].kind = "chat"} = {}
    BY <2>2 DEF QueuedOfType
  <2>4. QueueLimits
    BY <2>3, FS_EmptySet, RconAssumption DEF QueueLimits
  <2>5. ClocksAgree
    BY Ages DEF Init, ClocksAgree, LimitedKinds, LimitedTypes, TypeOf
  <2> QED
    BY <2>1, <2>4, <2>5 DEF IInv
<1>2. IInv /\ [Next]_vars => IInv'
  BY TypeStep, LimitsStep, ClocksStep DEF IInv
<1> QED
  BY <1>1, <1>2, PTL DEF Spec

\* The types of RCONActionManager's queue, clocks and running commands.
THEOREM TypeCorrect == Spec => []TypeOK
BY InvariantHolds, PTL DEF IInv

\* However chat and party messages are mixed, one votekick, two warnings and the
\* larger limit of messages is all the queue ever holds (QueueAction).
THEOREM QueueAlwaysLimited == Spec => []QueueLimits
BY InvariantHolds, PTL DEF IInv

-----------------------------------------------------------------------------
(* The steps *)

\* ProcessAction lets one action of a limited kind through in a pass, and none
\* while the interval of its type has not run out.
LEMMA OnePerPass ==
  ASSUME TypeOK, NEW queue \in Seq(Action), NEW processed, NEW written,
         PassOver(queue, processed, written),
         NEW i \in processed, NEW j \in processed,
         queue[i].kind = queue[j].kind, MinInterval(queue[i].kind) > 0
  PROVE  i = j /\ sinceTrigger[TypeOf(queue[i].kind)] >= MinInterval(queue[i].kind)
<1>1. i \in DOMAIN queue /\ j \in DOMAIN queue /\ Processed(queue, i) /\ Processed(queue, j)
  BY DEF PassOver
<1>2. i \in Nat /\ j \in Nat /\ i > 0 /\ j > 0
  BY <1>1
<1>3. /\ \A k \in 1 .. i - 1 : TypeOf(queue[k].kind) # TypeOf(queue[i].kind)
      /\ \A k \in 1 .. j - 1 : TypeOf(queue[k].kind) # TypeOf(queue[j].kind)
      /\ sinceTrigger[TypeOf(queue[i].kind)] >= MinInterval(queue[i].kind)
  BY <1>1 DEF Processed
<1>4. ~(i < j) /\ ~(j < i)
  BY <1>2, <1>3
<1> QED
  BY <1>2, <1>3, <1>4

LEMMA Concatenated ==
  ASSUME NEW S, NEW s \in Seq(S), NEW t \in Seq(S)
  PROVE  Len(s \o t) = Len(s) + Len(t) /\ \A n \in 1 .. Len(t) : (s \o t)[Len(s) + n] = t[n]
OBVIOUS

\* What a pass adds to m_RunningCommands.
LEMMA PassRuns ==
  ASSUME TypeOK, NEW queue \in Seq(Action), NEW processed, NEW written,
         PassOver(queue, processed, written)
  PROVE  /\ written \in SUBSET processed /\ processed \in SUBSET DOMAIN queue
         /\ Len(running') = Len(running) + Cardinality(written) /\ Cardinality(written) \in Nat
         /\ \A n \in 1 .. Cardinality(written) :
              /\ Place(written, n) \in written
              /\ running'[Len(running) + n].action = queue[Place(written, n)]
         /\ \A i \in written : \E n \in 1 .. Cardinality(written) :
              running'[Len(running) + n].action = queue[i]
<1> DEFINE commands == Taken(queue, written)
           count == Cardinality(written)
           more == [i \in DOMAIN commands |-> [action |-> commands[i], future |-> "waiting"]]
<1>1. written \in SUBSET processed /\ processed \in SUBSET DOMAIN queue
  BY DEF PassOver
<1>2. written \in SUBSET DOMAIN queue
  BY <1>1
<1>3. count \in Nat /\ DOMAIN commands = 1 .. count
  BY <1>2, TakenInOrder DEF Taken
<1>4. \A n \in 1 .. count : Place(written, n) \in written /\ commands[n] = queue[Place(written, n)]
  BY <1>2, TakenInOrder
<1>5. ASSUME NEW i \in written
      PROVE  \E n \in 1 .. count : commands[n] = queue[i]
  <2>1. PICK n \in 1 .. Cardinality(written) : Place(written, n) = i /\ Taken(queue, written)[n] = queue[i]
    BY <1>2, TakenInOrder
  <2> QED
    BY <2>1
<1>6. running' = running \o more /\ running \in Seq(Command) /\ commands \in Seq(Action)
  BY <1>2, TakenInOrder DEF PassOver, TypeOK, Command
<1> HIDE DEF commands, count
<1>7. more \in Seq(Command) /\ Len(more) = count
  <2>1. \A n \in 1 .. count : [action |-> commands[n], future |-> "waiting"] \in Command
    BY <1>3, <1>6 DEF Command
  <2> QED
    BY <1>3, <2>1
<1>8. \A n \in 1 .. count : more[n].action = commands[n]
  BY <1>3
<1> HIDE DEF more
<1>9. Len(running') = Len(running) + count /\ \A n \in 1 .. count : running'[Len(running) + n] = more[n]
  BY <1>3, <1>6, <1>7, Concatenated
<1> QED
  BY <1>1, <1>3, <1>4, <1>5, <1>8, <1>9 DEF count

\* Only a pass adds to m_RunningCommands, only ProcessRunningCommands takes away.
LEMMA RunningLength ==
  ASSUME TypeOK, [Next]_vars
  PROVE  /\ Len(running') > Len(running) => Update
         /\ Len(running') < Len(running) => ProcessRunningCommands
<1>0. running \in Seq(Command)
  BY DEF TypeOK, Command
<1>1. ASSUME NEW i \in DOMAIN running, CommandDone(i)
      PROVE  Len(running') = Len(running)
  BY <1>0, <1>1 DEF CommandDone
<1>2. CASE ProcessRunningCommands
  <2>1. DoneInFront \in 0 .. Len(running) /\ DoneInFront > 0
    BY <1>0, <1>2, FrontIsDone DEF ProcessRunningCommands
  <2>2. Len(running') = Len(running) - DoneInFront
    BY <1>0, <1>2, <2>1, RunningStaysTyped DEF ProcessRunningCommands
  <2> QED
    BY <1>0, <1>2, <2>1, <2>2
<1>3. CASE GameQuit
  <2>1. Len(running') = Len(running)
    BY <1>0, <1>3 DEF GameQuit
  <2> QED
    BY <1>0, <2>1
<1>4. CASE Update
  <2>1. PICK queue \in Seq(Action), processed \in SUBSET Nat, written \in SUBSET Nat :
               PassOver(queue, processed, written)
    BY <1>4, UpdatePasses DEF TypeOK
  <2>2. Len(running') = Len(running) + Cardinality(written) /\ Cardinality(written) \in Nat
    BY <2>1, PassRuns
  <2> QED
    BY <1>0, <1>4, <2>2
<1>5. ASSUME UNCHANGED running
      PROVE  Len(running') = Len(running)
  BY <1>5
<1>6. Len(running') = Len(running) => ~(Len(running') > Len(running)) /\ ~(Len(running') < Len(running))
  BY <1>0
<1> QED
  BY <1>1, <1>2, <1>3, <1>4, <1>5, <1>6
     DEF Next, QueueAction, OnLocalPlayerInitialized, GameConnected, Tick, vars

\* Two votekicks, or two warnings, are sent at least their interval apart
\* (ProcessAction, m_LastTriggerTime), whatever is queued, discarded or lost between.
THEOREM SendsAlwaysSpaced == Spec => SendSpacing
<1> DEFINE Spaced == \A kind \in LimitedKinds :
                       NewlySent(kind) # {} =>
                         /\ Cardinality(NewlySent(kind)) = 1
                         /\ sinceSent[kind] >= MinInterval(kind)
<1>1. IInv /\ [Next]_vars => [Spaced]_vars
  <2> SUFFICES ASSUME IInv, [Next]_vars, NEW kind \in LimitedKinds, NewlySent(kind) # {}
               PROVE  Cardinality(NewlySent(kind)) = 1 /\ sinceSent[kind] >= MinInterval(kind)
    OBVIOUS
  <2>1. TypeOK /\ ClocksAgree /\ running \in Seq(Command)
    BY DEF IInv, TypeOK, Command
  <2>2. Update
    BY <2>1, RunningLength DEF NewlySent
  <2>3. PICK queue \in Seq(Action), processed \in SUBSET Nat, written \in SUBSET Nat :
               PassOver(queue, processed, written)
    BY <2>1, <2>2, UpdatePasses DEF TypeOK
  <2> DEFINE count == Cardinality(written)
             At(i) == Place(written, i - Len(running))
  <2>4. /\ written \in SUBSET processed
        /\ Len(running') = Len(running) + count /\ count \in Nat
        /\ \A n \in 1 .. count : /\ Place(written, n) \in written
                                 /\ running'[Len(running) + n].action = queue[Place(written, n)]
    BY <2>1, <2>3, PassRuns
  <2>5. \A m, n \in 1 .. count : Place(written, m) = Place(written, n) => m = n
    BY <2>1, <2>3, <2>4, PassRuns, TakenInOrder
  <2> HIDE DEF count
  <2>6. ASSUME NEW i \in NewlySent(kind)
        PROVE  i \in Nat /\ i - Len(running) \in 1 .. count /\ At(i) \in written /\ queue[At(i)].kind = kind
    <3>1. i \in Len(running) + 1 .. Len(running') /\ running'[i].action.kind = kind
      BY DEF NewlySent
    <3>2. i \in Nat /\ i - Len(running) \in 1 .. count /\ Len(running) + (i - Len(running)) = i
      BY <2>1, <2>4, <3>1
    <3> QED
      BY <2>4, <3>1, <3>2
  <2>7. MinInterval(kind) > 0 /\ MinInterval(kind) \in Nat
    BY RconAssumption DEF MinInterval, LimitedKinds
  <2>8. PICK i \in NewlySent(kind) : TRUE
    OBVIOUS
  <2>9. ASSUME NEW j \in NewlySent(kind)
        PROVE  j = i
    <3>1. At(i) = At(j)
      <4>1. At(i) \in processed /\ queue[At(i)].kind = kind
        BY <2>4, <2>6
      <4>2. At(j) \in processed /\ queue[At(j)].kind = kind
        BY <2>4, <2>6
      <4> HIDE DEF At
      <4> QED
        BY <2>1, <2>3, <2>7, <4>1, <4>2, OnePerPass
    <3>2. i - Len(running) = j - Len(running)
      BY <2>5, <2>6, <3>1
    <3> QED
      BY <2>1, <2>6, <3>2
  <2>10. Cardinality(NewlySent(kind)) = 1
    <3>1. NewlySent(kind) = {i}
      BY <2>9
    <3> QED
      BY <3>1, FS_Singleton
  <2>11. sinceTrigger[TypeOf(kind)] >= MinInterval(kind)
    BY <2>1, <2>3, <2>4, <2>6, <2>7, OnePerPass
  <2>12. sinceTrigger[TypeOf(kind)] <= sinceSent[kind] /\ sinceTrigger[TypeOf(kind)] \in Nat /\ sinceSent[kind] \in Nat
    <3>1. TypeOf(kind) \in LimitedTypes
      BY DEF LimitedKinds, LimitedTypes, TypeOf
    <3> QED
      BY <2>1, <3>1, Ages DEF ClocksAgree, TypeOK
  <2>13. sinceSent[kind] >= MinInterval(kind)
    BY <2>7, <2>11, <2>12
  <2> QED
    BY <2>10, <2>13
<1> QED
  BY <1>1, InvariantHolds, PTL DEF Spec, SendSpacing

\* What stays in the queue after a pass was not processed.
LEMMA KeptAreNotProcessed ==
  ASSUME NEW queue \in Seq(Action), NEW processed, NEW written, PassOver(queue, processed, written)
  PROVE  InQueue(actions') = {queue[i] : i \in DOMAIN queue \ processed}
<1> DEFINE kept == DOMAIN queue \ processed
<1>1. kept \in SUBSET DOMAIN queue /\ actions' = Taken(queue, kept)
  BY DEF PassOver
<1> HIDE DEF kept
<1>2. DOMAIN Taken(queue, kept) = 1 .. Cardinality(kept)
  BY DEF Taken
<1>3. \A n \in 1 .. Cardinality(kept) : Taken(queue, kept)[n] \in {queue[i] : i \in kept}
  BY <1>1, TakenInOrder
<1>4. \A i \in kept : \E n \in 1 .. Cardinality(kept) : Taken(queue, kept)[n] = queue[i]
  <2> TAKE i \in kept
  <2>1. PICK n \in 1 .. Cardinality(kept) : Place(kept, n) = i /\ Taken(queue, kept)[n] = queue[i]
    BY <1>1, TakenInOrder
  <2> QED
    BY <2>1
<1> QED
  BY <1>1, <1>2, <1>3, <1>4 DEF InQueue, kept

\* A younger action never leaves the queue before an older one of its kind
\* (ProcessQueuedCommands walks m_Actions in order).
THEOREM KindAlwaysInOrder == Spec => KindOrder
<1> DEFINE Ordered == client' => \A i, j \in DOMAIN actions :
       (i < j /\ actions[i].kind = actions[j].kind /\ actions[j] \notin InQueue(actions'))
         => actions[i] \notin InQueue(actions')
<1>1. IInv /\ [Next]_vars => [Ordered]_vars
  <2> SUFFICES ASSUME IInv, [Next]_vars, client', NEW i \in DOMAIN actions, NEW j \in DOMAIN actions,
                      i < j, actions[i].kind = actions[j].kind, actions[j] \notin InQueue(actions')
               PROVE  actions[i] \notin InQueue(actions')
    OBVIOUS
  <2>0. actions \in Seq(Action)
    BY DEF IInv, TypeOK
  <2>1. CASE Update
    <3>1. PICK queue \in Seq(Action), processed \in SUBSET Nat, written \in SUBSET Nat :
                 PassOver(queue, processed, written)
      BY <2>0, <2>1, UpdatePasses
    <3>2. DOMAIN actions \subseteq DOMAIN queue
      BY <2>0, <3>1 DEF PassOver
    <3>3. i \in DOMAIN queue /\ j \in DOMAIN queue /\ queue[i] = actions[i] /\ queue[j] = actions[j]
      BY <3>1, <3>2 DEF PassOver
    <3>4. Processed(queue, j)
      <4>1. InQueue(actions') = {queue[k] : k \in DOMAIN queue \ processed}
        BY <3>1, KeptAreNotProcessed
      <4>2. j \in processed
        BY <3>3, <4>1
      <4> QED
        BY <3>1, <4>2 DEF PassOver
    <3>5. i \in 1 .. j - 1
      BY <2>0
    <3>6. ~(MinInterval(queue[j].kind) > 0)
      BY <3>3, <3>4, <3>5 DEF Processed
    <3>7. ASSUME NEW k \in DOMAIN queue \ processed
          PROVE  queue[k] # actions[i]
      <4>1. MinInterval(queue[k].kind) > 0
        BY <3>1 DEF PassOver, Processed
      <4> QED
        BY <3>3, <3>6, <4>1
    <3> QED
      BY <3>1, <3>7, KeptAreNotProcessed
  <2>2. ASSUME NEW kind \in Sources, NEW id \in Id, QueueAction([kind |-> kind, id |-> id])
        PROVE  actions[j] \in InQueue(actions')
    <3>1. actions' = actions \/ actions' = Append(actions, [kind |-> kind, id |-> id])
      BY <2>2 DEF QueueAction
    <3>2. j \in DOMAIN actions' /\ actions'[j] = actions[j]
      BY <2>0, <3>1
    <3> QED
      BY <3>2 DEF InQueue
  <2>3. CASE GameQuit
    BY <2>3 DEF GameQuit
  <2>4. ASSUME UNCHANGED actions
        PROVE  actions[j] \in InQueue(actions')
    BY <2>4 DEF InQueue
  <2> QED
    BY <2>1, <2>2, <2>3, <2>4
       DEF Next, CommandDone, ProcessRunningCommands, OnLocalPlayerInitialized, GameConnected, Tick, vars
<1> QED
  BY <1>1, InvariantHolds, PTL DEF Spec, KindOrder

\* An action leaves m_Actions as a command, or because the game has gone, or
\* because ShouldDiscardCommand holds outside of the game.
THEOREM NothingElseIsLost == Spec => LostOnlyOutOfGame
<1> DEFINE Kept == \A action \in InQueue(actions) \ InQueue(actions') :
       \/ \E i \in DOMAIN running' : running'[i].action = action
       \/ ~client'
       \/ CompatibilityMode /\ discarding
<1>1. IInv /\ [Next]_vars => [Kept]_vars
  <2> SUFFICES ASSUME IInv, [Next]_vars, NEW j \in DOMAIN actions, actions[j] \notin InQueue(actions')
               PROVE  \/ \E i \in DOMAIN running' : running'[i].action = actions[j]
                      \/ ~client'
                      \/ CompatibilityMode /\ discarding
    BY DEF InQueue
  <2>0. TypeOK /\ actions \in Seq(Action) /\ running \in Seq(Command)
    BY DEF IInv, TypeOK, Command
  <2>1. CASE Update
    <3>1. PICK queue \in Seq(Action), processed \in SUBSET Nat, written \in SUBSET Nat :
                 PassOver(queue, processed, written)
      BY <2>0, <2>1, UpdatePasses
    <3>2. DOMAIN actions \subseteq DOMAIN queue
      BY <2>0, <3>1 DEF PassOver
    <3>3. j \in DOMAIN queue /\ queue[j] = actions[j]
      BY <3>1, <3>2 DEF PassOver
    <3>4. j \in processed
      BY <3>1, <3>3, KeptAreNotProcessed
    <3>5. CASE j \notin written
      BY <3>1, <3>4, <3>5 DEF PassOver, ShouldDiscardCommand
    <3>6. CASE j \in written
      <4>0. \A i \in written : \E n \in 1 .. Cardinality(written) : running'[Len(running) + n].action = queue[i]
        BY <2>0, <3>1, PassRuns
      <4>1. PICK n \in 1 .. Cardinality(written) : running'[Len(running) + n].action = actions[j]
        BY <3>3, <3>6, <4>0
      <4>2. Len(running') = Len(running) + Cardinality(written) /\ Cardinality(written) \in Nat
        BY <2>0, <3>1, PassRuns
      <4>3. running' \in Seq(Command)
        BY <2>0, TypeStep DEF TypeOK, Command
      <4>4. Len(running) + n \in DOMAIN running'
        BY <2>0, <4>2, <4>3
      <4> QED
        BY <4>1, <4>4
    <3> QED
      BY <3>5, <3>6
  <2>2. ASSUME NEW kind \in Sources, NEW id \in Id, QueueAction([kind |-> kind, id |-> id])
        PROVE  actions[j] \in InQueue(actions')
    <3>1. actions' = actions \/ actions' = Append(actions, [kind |-> kind, id |-> id])
      BY <2>2 DEF QueueAction
    <3>2. j \in DOMAIN actions' /\ actions'[j] = actions[j]
      BY <2>0, <3>1
    <3> QED
      BY <3>2 DEF InQueue
  <2>3. CASE GameQuit
    BY <2>3 DEF GameQuit
  <2>4. ASSUME UNCHANGED actions
        PROVE  actions[j] \in InQueue(actions')
    BY <2>4 DEF InQueue
  <2> QED
    BY <2>1, <2>2, <2>3, <2>4
       DEF Next, CommandDone, ProcessRunningCommands, OnLocalPlayerInitialized, GameConnected, Tick, vars
<1> QED
  BY <1>1, InvariantHolds, PTL DEF Spec, LostOnlyOutOfGame
=============================================================================
