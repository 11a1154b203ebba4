--------------------------- MODULE ModeratorProofs ---------------------------
(***************************************************************************)
(* The moderator, for any tools, marked players, teams, user ids, settings *)
(* and intervals: who is silent stays silent, warnings and votes keep      *)
(* their distance, and in a lobby that does not change a tool votes on one *)
(* player only.                                                            *)
(***************************************************************************)
EXTENDS Moderator, FiniteSetTheorems, SequenceTheorems, WellFoundedInduction, TLAPS

-----------------------------------------------------------------------------
(* Places in the lobby *)

\* A set of numbers has a least one: the order of Nat is well-founded.
Less == {pair \in Nat \X Nat : pair[1] < pair[2]}

LEMMA LeastNumber ==
  ASSUME NEW S \in SUBSET Nat, S # {}
  PROVE  \E i \in S : \A j \in S : i <= j
<1>1. OpToRel(<, Nat) = Less
  BY DEF OpToRel, Less
<1>2. IsWellFoundedOn(Less, Nat)
  BY <1>1, NatLessThanWellFounded
<1>3. PICK i \in S : \A j \in S : ~(<<j, i>> \in Less)
  BY <1>2, WFMin
<1>4. ASSUME NEW j \in S
      PROVE  i <= j
  <2>1. <<j, i>> \in Nat \X Nat /\ <<j, i>>[1] = j /\ <<j, i>>[2] = i
    OBVIOUS
  <2>2. ~(j < i)
    BY <1>3, <2>1 DEF Less
  <2> QED
    BY <2>2
<1> QED
  BY <1>4

\* Every marked player has a place of his own.
LEMMA PlaceOfPlayer ==
  ASSUME NEW m \in Marked
  PROVE  Place(m) \in DOMAIN Order /\ Order[Place(m)] = m /\ Place(m) \in Nat
<1>1. Place(m) \in DOMAIN Order /\ Order[Place(m)] = m
  BY ModeratorAssumption DEF ModeratorAssumption, Place
<1>2. DOMAIN Order \subseteq Nat
  BY ModeratorAssumption DEF ModeratorAssumption
<1> QED
  BY <1>1, <1>2

\* So there are no more of them than places, and the loops of the moderator walk
\* through finite lists.
LEMMA CountOfPlayers ==
  ASSUME NEW S \in SUBSET Marked
  PROVE  IsFiniteSet(S) /\ Cardinality(S) \in 0 .. Len(Order)
<1> DEFINE f == [m \in S |-> Place(m)]
           n == Len(Order)
<1>1. n \in Nat /\ DOMAIN Order = 1 .. n
  BY ModeratorAssumption DEF ModeratorAssumption
<1> HIDE DEF n
<1>2. IsFiniteSet(1 .. n) /\ Cardinality(1 .. n) = n
  <2>1. 1 \in Int /\ n \in Int /\ (1 > n => n = 0)
    BY <1>1
  <2> QED
    BY <1>1, <2>1, FS_Interval
<1>3. f \in [S -> 1 .. n]
  BY <1>1, PlaceOfPlayer
<1>4. \A k, m \in S : f[k] = f[m] => k = m
  BY PlaceOfPlayer
<1>5. f \in Injection(S, 1 .. n)
  BY <1>3, <1>4 DEF Injection, IsInjective
<1>6. IsFiniteSet(S) /\ Cardinality(S) <= n
  BY <1>2, <1>5, FS_Injection
<1>7. Cardinality(S) \in Nat
  BY <1>6, FS_CardinalityType
<1> QED
  BY <1>1, <1>6, <1>7 DEF n

\* The loop that takes the first candidate finds one if there is any.
LEMMA FirstIsFirst ==
  ASSUME NEW S \in SUBSET Marked, S # {}
  PROVE  First(S) \in S /\ \A n \in S : Place(First(S)) <= Place(n)
<1> DEFINE T == {Place(m) : m \in S}
<1>1. T \in SUBSET Nat /\ T # {}
  BY PlaceOfPlayer
<1>2. PICK i \in T : \A j \in T : i <= j
  BY <1>1, LeastNumber
<1>3. \E m \in S : \A n \in S : Place(m) <= Place(n)
  BY <1>2
<1> QED
  BY <1>3 DEF First

\* There is only one such candidate.
LEMMA FirstIsUnique ==
  ASSUME NEW S \in SUBSET Marked, NEW m \in S, \A n \in S : Place(m) <= Place(n)
  PROVE  First(S) = m
<1>1. First(S) \in S /\ Place(First(S)) <= Place(m)
  BY FirstIsFirst
<1>2. Place(First(S)) = Place(m)
  BY <1>1, PlaceOfPlayer
<1> QED
  BY <1>1, <1>2, PlaceOfPlayer

\* The first of a list has at least the first place in it, so a loop that starts at
\* the beginning leaves nobody out.
LEMMA RankOfMember ==
  ASSUME NEW S \in SUBSET Marked, NEW m \in S
  PROVE  Rank(m, S) \in 1 .. Cardinality(S)
<1> DEFINE R == {n \in S : Place(n) <= Place(m)}
<1>1. R \in SUBSET S /\ m \in R
  BY PlaceOfPlayer
<1>2. IsFiniteSet(S) /\ Cardinality(S) \in Nat
  BY CountOfPlayers
<1>3. IsFiniteSet(R) /\ Cardinality(R) <= Cardinality(S) /\ Cardinality(R) \in Nat
  BY <1>1, <1>2, FS_Subset, FS_CardinalityType
<1>4. Cardinality(R) # 0
  BY <1>1, <1>3, FS_EmptySet
<1> QED
  BY <1>2, <1>3, <1>4 DEF Rank

\* The players a tool may vote on and those it warns about are marked.
LEMMA ListsAreOfMarked ==
  ASSUME NEW t
  PROVE  /\ Here \in SUBSET Marked /\ Active \in SUBSET Here
         /\ Kickable(t) \in SUBSET Here
         /\ \A list : Candidates(t, list) \in SUBSET (list \intersect Active)
  BY DEF Here, Active, Kickable, Candidates

-----------------------------------------------------------------------------
(* Types *)

\* What a pass remembers of a player keeps its type: a delay begins at WarningDelay
\* and is never set twice.
LEMMA ExtraDataKept ==
  ASSUME TypeOK, NEW t \in Tools, NEW m \in Marked
  PROVE  /\ extra[t][m] \in ExtraData
         /\ AfterActive(t, extra[t][m]) \in ExtraData
         /\ \A joining : AfterConnecting(t, joining, m) \in ExtraData
<1>1. extra[t][m] \in ExtraData
  BY DEF TypeOK
<1>2. WarningDelay \in NoDelay .. WarningDelay
  BY ModeratorAssumption DEF ModeratorAssumption, NoDelay
<1>3. /\ extra[t][m].preWarned \in BOOLEAN /\ extra[t][m].warnedOnce \in BOOLEAN
      /\ extra[t][m].partyWarned \in BOOLEAN
      /\ extra[t][m].connDelay \in NoDelay .. WarningDelay
      /\ extra[t][m].warnDelay \in NoDelay .. WarningDelay
      /\ extra[t][m] = [preWarned |-> extra[t][m].preWarned, warnedOnce |-> extra[t][m].warnedOnce,
                        partyWarned |-> extra[t][m].partyWarned,
                        connDelay |-> extra[t][m].connDelay, warnDelay |-> extra[t][m].warnDelay]
  BY <1>1 DEF ExtraData
<1>4. AfterActive(t, extra[t][m]) \in ExtraData
  BY <1>1, <1>2, <1>3 DEF AfterActive, ExtraData
<1>5. ASSUME NEW joining
      PROVE  AfterConnecting(t, joining, m) \in ExtraData
  <2> DEFINE reached == \A n \in joining : Triggers(t, n) => Place(m) < Place(n)
             starts  == reached /\ ~extra[t][m].preWarned /\ extra[t][m].connDelay = NoDelay
             pre == extra[t][m].preWarned \/ nextConn[t] > 0 \/ AnnouncesNow(t, joining)
             delay == IF nextConn[t] = 0 /\ starts THEN WarningDelay ELSE extra[t][m].connDelay
  <2>1. pre \in BOOLEAN
    OBVIOUS
  <2>2. delay \in NoDelay .. WarningDelay
    BY <1>2, <1>3
  <2>3. AfterConnecting(t, joining, m) = [extra[t][m] EXCEPT !.preWarned = pre, !.connDelay = delay]
    BY DEF AfterConnecting
  <2> HIDE DEF pre, delay
  <2> QED
    BY <1>1, <2>1, <2>2, <2>3 DEF ExtraData
<1> QED
  BY <1>1, <1>4, <1>5

\* HandleEnemyCheaters as a pass calls it.
Foes(t) == Enemies(t) \intersect Active
Joining(t) == Enemies(t) \intersect (Here \ Active)
Done(t) == HandleEnemyCheaters(t, Foes(t), Joining(t))

Warns(t) == Passable(t) /\ WarnsNow(t, Foes(t))
Announces(t) == Passable(t) /\ Foes(t) = {} /\ AnnouncesNow(t, Joining(t))

\* The chat queue and the time to the next warning after it: one warning, one
\* announcement, or nothing.
Says(t, queue, next) ==
  \/ Warns(t) /\ queue = Append(chat[t], Warning(Names(t, Foes(t)))) /\ next = ChatInterval
  \/ Announces(t) /\ queue = Append(chat[t], Connecting) /\ next = nextWarn[t]
  \/ ~Warns(t) /\ ~Announces(t) /\ queue = chat[t] /\ next = nextWarn[t]

\* What HandleEnemyCheaters remembers of a player.
Remembers(t, m) ==
  CASE Passable(t) /\ m \in Foes(t) -> AfterActive(t, extra[t][m])
    [] Passable(t) /\ Foes(t) = {} /\ m \in Joining(t) -> AfterConnecting(t, Joining(t), m)
    [] OTHER -> extra[t][m]

LEMMA RemembersType ==
  ASSUME TypeOK, NEW t \in Tools, NEW m \in Marked
  PROVE  Remembers(t, m) \in ExtraData
<1>1. CASE Passable(t) /\ m \in Foes(t)
  BY <1>1, ExtraDataKept DEF Remembers
<1>2. CASE ~(Passable(t) /\ m \in Foes(t)) /\ Passable(t) /\ Foes(t) = {} /\ m \in Joining(t)
  BY <1>2, ExtraDataKept DEF Remembers
<1>3. CASE ~(Passable(t) /\ m \in Foes(t)) /\ ~(Passable(t) /\ Foes(t) = {} /\ m \in Joining(t))
  BY <1>3, ExtraDataKept DEF Remembers
<1> QED
  BY <1>1, <1>2, <1>3

LEMMA EnemyPass ==
  ASSUME TypeOK, NEW t \in Tools
  PROVE  /\ Done(t).extra = [m \in Marked |-> Remembers(t, m)]
         /\ Done(t).extra \in [Marked -> ExtraData]
         /\ Says(t, Done(t).chat, Done(t).next)
<1>1. chat[t] \in Seq(ChatAction)
  BY DEF TypeOK
<1>2. ~(Warns(t) /\ Announces(t))
  BY DEF Warns, Announces, WarnsNow
<1>3. /\ Done(t).chat = chat[t] \o (IF Warns(t) THEN <<Warning(Names(t, Foes(t)))>> ELSE <<>>)
                                \o (IF Announces(t) THEN <<Connecting>> ELSE <<>>)
      /\ Done(t).next = IF Warns(t) THEN ChatInterval ELSE nextWarn[t]
      /\ Done(t).extra = [m \in Marked |-> Remembers(t, m)]
  <2>1. Foes(t) \union Joining(t) = Enemies(t) \intersect Here
    BY DEF Active, Here, Foes, Joining
  <2>2. Passable(t) = CanPassVote(Size(EnemyTeam(t)), Cardinality(Foes(t) \union Joining(t)))
    BY <2>1 DEF Passable
  <2> QED
    BY <2>2 DEF HandleEnemyCheaters, Done, Warns, Announces, Remembers
<1>4. Done(t).extra \in [Marked -> ExtraData]
  BY <1>3, RemembersType
<1>5. \A e : (chat[t] \o <<e>>) \o <<>> = Append(chat[t], e)
  BY <1>1
<1>6. \A e : (chat[t] \o <<>>) \o <<e>> = Append(chat[t], e)
  BY <1>1
<1>7. (chat[t] \o <<>>) \o <<>> = chat[t]
  BY <1>1
<1>8. Says(t, Done(t).chat, Done(t).next)
  <2>1. CASE Warns(t)
    BY <1>2, <1>3, <1>5, <2>1 DEF Says
  <2>2. CASE ~Warns(t) /\ Announces(t)
    BY <1>3, <1>6, <2>2 DEF Says
  <2>3. CASE ~Warns(t) /\ ~Announces(t)
    BY <1>3, <1>7, <2>3 DEF Says
  <2> QED
    BY <2>1, <2>2, <2>3
<1> QED
  BY <1>3, <1>4, <1>8

\* What a whole pass does to the queue and to the other members.
NewsOf(t) == IF PartyNews(t, Done(t).extra, Done(t).chat) = {} THEN <<>> ELSE <<Party>>
DataAfter(t) ==
  [m \in Marked |-> [Done(t).extra[m] EXCEPT
     !.partyWarned = @ \/ m \in PartyNews(t, Done(t).extra, Done(t).chat)]]

LEMMA Pass ==
  ASSUME TypeOK, NEW t \in Tools, ProcessPlayerActions(t)
  PROVE  /\ Says(t, Done(t).chat, Done(t).next)
         /\ NewsOf(t) = <<>> \/ (NewsOf(t) = <<Party>> /\ Len(Done(t).chat) < MaxParty)
         /\ chat' = [chat EXCEPT ![t] = Done(t).chat \o NewsOf(t)]
         /\ nextWarn' = [nextWarn EXCEPT ![t] = Done(t).next]
         /\ DataAfter(t) \in [Marked -> ExtraData]
         /\ extra' = [extra EXCEPT ![t] = DataAfter(t)]
<1>1. /\ nextWarn' = [nextWarn EXCEPT ![t] = Done(t).next]
      /\ chat' = [chat EXCEPT ![t] = Done(t).chat \o NewsOf(t)]
      /\ extra' = [extra EXCEPT ![t] = DataAfter(t)]
  BY DEF ProcessPlayerActions, NewsOf, DataAfter, Done, Foes, Joining
<1>2. NewsOf(t) # <<>> => Len(Done(t).chat) < MaxParty
  BY DEF PartyNews, MayQueue, NewsOf
<1>3. DataAfter(t) \in [Marked -> ExtraData]
  <2>1. ASSUME NEW m \in Marked
        PROVE  [Done(t).extra[m] EXCEPT
                  !.partyWarned = @ \/ m \in PartyNews(t, Done(t).extra, Done(t).chat)] \in ExtraData
    <3>1. Done(t).extra[m] \in ExtraData
      BY EnemyPass
    <3> QED
      BY <3>1 DEF ExtraData
  <2> QED
    BY <2>1 DEF DataAfter
<1> QED
  BY <1>1, <1>2, <1>3, EnemyPass DEF NewsOf

\* What a queue may hold, said of a pass.
LEMMA SaysType ==
  ASSUME TypeOK, NEW t \in Tools, NEW queue, NEW next, Says(t, queue, next)
  PROVE  queue \in Seq(ChatAction) /\ next \in 0 .. MaxWait
<1>1. chat[t] \in Seq(ChatAction) /\ nextWarn[t] \in 0 .. MaxWait
  BY DEF TypeOK
<1>2. ChatInterval \in 0 .. MaxWait
  BY ModeratorAssumption DEF ModeratorAssumption, MaxWait
<1>3. Warning(Names(t, Foes(t))) \in ChatAction /\ Connecting \in ChatAction
  BY DEF Warning, Names, Foes, Enemies, ChatAction, Connecting
<1> QED
  BY <1>1, <1>2, <1>3 DEF Says

\* HandleFriendlyCheaters goes through at most one list and stays within it.
LEMMA VotePass ==
  ASSUME TypeOK, NEW t \in Tools, HandleFriendlyCheaters(t)
  PROVE  \/ /\ ~VotePossible(t, Kickable(t))
            /\ UNCHANGED <<tried, lastSize, kick, sinceVote>>
         \/ /\ VotePossible(t, Kickable(t))
            /\ \E n \in 0 .. Cardinality(Kickable(t)) :
                 /\ tried' = [tried EXCEPT ![t] = n]
                 /\ Found(t) = {} => n = 0
            /\ lastSize' = [lastSize EXCEPT ![t] = Cardinality(Kickable(t))]
            /\ \/ UNCHANGED <<kick, sinceVote>> /\ (Found(t) = {} \/ kick[t] # NoKick)
               \/ /\ Found(t) # {} /\ kick[t] = NoKick
                  /\ kick' = [kick EXCEPT ![t] = First(Found(t))]
                  /\ sinceVote' = [sinceVote EXCEPT ![t] = 0]
<1> DEFINE list == Kickable(t)
           first == First(Found(t))
           n == CASE Found(t) = {} -> 0
                  [] Found(t) # {} /\ Rank(first, list) = Cardinality(list) -> 1
                  [] OTHER -> StartAfter(t, list) + 1
           votes == Found(t) # {} /\ kick[t] = NoKick
<1>1. CASE ~VotePossible(t, list)
  BY <1>1 DEF HandleFriendlyCheaters
<1>2. CASE VotePossible(t, list)
  <2>1. /\ tried' = [tried EXCEPT ![t] = n]
        /\ lastSize' = [lastSize EXCEPT ![t] = Cardinality(list)]
        /\ kick' = [kick EXCEPT ![t] = IF votes THEN first ELSE @]
        /\ sinceVote' = [sinceVote EXCEPT ![t] = IF votes THEN 0 ELSE @]
    BY <1>2 DEF HandleFriendlyCheaters, Found
  <2>2. list \in SUBSET Marked /\ Cardinality(list) \in Nat
    BY ListsAreOfMarked, CountOfPlayers
  <2>3. n \in 0 .. Cardinality(list)
    <3>1. CASE Found(t) = {}
      BY <2>2, <3>1
    <3>2. CASE Found(t) # {}
      <4>1. Found(t) \in SUBSET list
        BY ListsAreOfMarked DEF Found
      <4>2. first \in Found(t)
        BY <2>2, <3>2, <4>1, FirstIsFirst
      <4>3. Rank(first, list) \in 1 .. Cardinality(list)
        BY <2>2, <4>1, <4>2, RankOfMember
      <4>4. Rank(first, list) > StartAfter(t, list)
        BY <4>2 DEF Found, Candidates
      <4>5. StartAfter(t, list) \in Nat
        BY DEF StartAfter, TypeOK
      <4> HIDE DEF list, first
      <4>6. CASE Rank(first, list) = Cardinality(list)
        BY <2>2, <3>2, <4>3, <4>6
      <4>7. CASE Rank(first, list) # Cardinality(list)
        <5>1. n = StartAfter(t, list) + 1
          BY <3>2, <4>7
        <5> HIDE DEF n
        <5> QED
          BY <2>2, <4>3, <4>4, <4>5, <4>7, <5>1
      <4> QED
        BY <4>6, <4>7
    <3> QED
      BY <3>1, <3>2
  <2>4. Found(t) = {} => n = 0
    OBVIOUS
  <2>5. [kick EXCEPT ![t] = @] = kick /\ [sinceVote EXCEPT ![t] = @] = sinceVote
    BY DEF TypeOK
  <2> HIDE DEF n, list, first
  <2>6. \/ UNCHANGED <<kick, sinceVote>> /\ (Found(t) = {} \/ kick[t] # NoKick)
        \/ /\ Found(t) # {} /\ kick[t] = NoKick
           /\ kick' = [kick EXCEPT ![t] = first]
           /\ sinceVote' = [sinceVote EXCEPT ![t] = 0]
    <3>1. CASE votes
      BY <2>1, <3>1
    <3>2. CASE ~votes
      BY <2>1, <2>5, <3>2
    <3> QED
      BY <3>1, <3>2
  <2> QED
    BY <1>2, <2>1, <2>3, <2>4, <2>6 DEF list, first
<1> QED
  BY <1>1, <1>2

LEMMA EarlierType ==
  ASSUME NEW n \in Nat
  PROVE  \A time \in -1 .. n : Earlier(time) \in -1 .. n
                               /\ (time \in 0 .. n => Earlier(time) \in 0 .. n)
  BY DEF Earlier

LEMMA InitType == Init => TypeOK
<1> SUFFICES ASSUME Init
             PROVE  TypeOK
  OBVIOUS
<1>1. FreshData \in ExtraData
  <2>1. NoDelay \in NoDelay .. WarningDelay
    BY ModeratorAssumption DEF ModeratorAssumption, NoDelay
  <2> QED
    BY <2>1 DEF FreshData, ExtraData
<1>2. 0 \in 0 .. MaxWait /\ 0 \in 0 .. NonlocalInterval /\ 0 \in 0 .. Len(Order)
      /\ VoteInterval + 1 \in 0 .. VoteInterval + 1 /\ 0 \in 0 .. MaxSetbacks
  BY ModeratorAssumption DEF ModeratorAssumption, MaxWait
<1>3. extra \in [Tools -> [Marked -> ExtraData]]
  BY <1>1 DEF Init
<1>4. chat \in [Tools -> Seq(ChatAction)]
  BY DEF Init
<1> QED
  BY <1>2, <1>3, <1>4 DEF Init, TypeOK, Places

\* A pass.
LEMMA ActionsType ==
  ASSUME TypeOK, NEW t \in Tools, ProcessPlayerActions(t)
  PROVE  TypeOK'
<1>1. /\ acted' = acted \union {t}
      /\ UNCHANGED <<worldVars, runningTool, nextConn, unread>>
      /\ HandleFriendlyCheaters(t)
  BY DEF ProcessPlayerActions
<1>2. Done(t).chat \in Seq(ChatAction) /\ Done(t).next \in 0 .. MaxWait
  BY Pass, SaysType
<1>3. NewsOf(t) \in Seq(ChatAction)
  <2>1. Party \in ChatAction
    BY DEF Party, ChatAction
  <2>2. NewsOf(t) = <<>> \/ NewsOf(t) = <<Party>>
    BY DEF NewsOf
  <2>3. \A e \in ChatAction : <<>> \in Seq(ChatAction) /\ <<e>> \in Seq(ChatAction)
    OBVIOUS
  <2> QED
    BY <2>1, <2>2, <2>3, Zenon
<1>4. chat' \in [Tools -> Seq(ChatAction)]
  <2>1. Done(t).chat \o NewsOf(t) \in Seq(ChatAction)
    BY <1>2, <1>3
  <2>2. chat' = [chat EXCEPT ![t] = Done(t).chat \o NewsOf(t)]
    BY Pass
  <2> QED
    BY <2>1, <2>2 DEF TypeOK
<1>5. nextWarn' \in [Tools -> 0 .. MaxWait]
  <2>1. nextWarn' = [nextWarn EXCEPT ![t] = Done(t).next]
    BY Pass
  <2> QED
    BY <1>2, <2>1 DEF TypeOK
<1>6. extra' \in [Tools -> [Marked -> ExtraData]]
  <2>1. extra' = [extra EXCEPT ![t] = DataAfter(t)] /\ DataAfter(t) \in [Marked -> ExtraData]
    BY Pass
  <2> QED
    BY <2>1 DEF TypeOK
<1>7. /\ tried' \in [Tools -> 0 .. Len(Order)] /\ lastSize' \in [Tools -> 0 .. Len(Order)]
      /\ kick' \in [Tools -> Marked \union {NoKick}]
      /\ sinceVote' \in [Tools -> 0 .. VoteInterval + 1]
  <2>1. /\ tried \in [Tools -> 0 .. Len(Order)] /\ lastSize \in [Tools -> 0 .. Len(Order)]
        /\ kick \in [Tools -> Marked \union {NoKick}]
        /\ sinceVote \in [Tools -> 0 .. VoteInterval + 1]
    BY DEF TypeOK
  <2>2. Kickable(t) \in SUBSET Marked
    BY ListsAreOfMarked
  <2>3. Cardinality(Kickable(t)) \in 0 .. Len(Order) /\ Len(Order) \in Nat
    BY <2>2, CountOfPlayers, ModeratorAssumption DEF ModeratorAssumption
  <2>4. Found(t) # {} => First(Found(t)) \in Marked
    <3>1. Found(t) \in SUBSET Marked
      BY <2>2, ListsAreOfMarked DEF Found
    <3> QED
      BY <3>1, FirstIsFirst
  <2>5. 0 \in 0 .. VoteInterval + 1
    BY ModeratorAssumption DEF ModeratorAssumption
  <2>6. CASE UNCHANGED <<tried, lastSize, kick, sinceVote>>
    BY <2>1, <2>6
  <2>7. CASE ~UNCHANGED <<tried, lastSize, kick, sinceVote>>
    <3>1. PICK n \in 0 .. Cardinality(Kickable(t)) : tried' = [tried EXCEPT ![t] = n]
      BY <1>1, <2>7, VotePass
    <3>2. n \in 0 .. Len(Order)
      BY <2>3
    <3>3. lastSize' = [lastSize EXCEPT ![t] = Cardinality(Kickable(t))]
      BY <1>1, <2>7, VotePass
    <3>4. \/ UNCHANGED <<kick, sinceVote>>
          \/ /\ kick' = [kick EXCEPT ![t] = First(Found(t))] /\ Found(t) # {}
             /\ sinceVote' = [sinceVote EXCEPT ![t] = 0]
      BY <1>1, <2>7, VotePass
    <3> QED
      BY <2>1, <2>3, <2>4, <2>5, <3>1, <3>2, <3>3, <3>4
  <2> QED
    BY <2>6, <2>7
<1> QED
  BY <1>1, <1>4, <1>5, <1>6, <1>7 DEF TypeOK, worldVars

LEMMA ChatLineType ==
  ASSUME TypeOK, NEW t \in Tools, NEW s \in Tools, OnChatMsg(t, s)
  PROVE  TypeOK'
<1>1. NonlocalInterval \in 0 .. MaxWait /\ NonlocalInterval \in 0 .. NonlocalInterval
  BY ModeratorAssumption DEF ModeratorAssumption, MaxWait
<1>2. nextWarn' \in [Tools -> 0 .. MaxWait]
  BY <1>1 DEF OnChatMsg, TypeOK, Deferred
<1>3. nextConn' \in [Tools -> 0 .. NonlocalInterval]
  BY <1>1 DEF OnChatMsg, TypeOK, Deferred
<1>4. runningTool' \in [Tools -> SUBSET Tools] /\ unread' \in [Tools -> SUBSET Tools]
  BY DEF OnChatMsg, TypeOK
<1> QED
  BY <1>2, <1>3, <1>4 DEF OnChatMsg, TypeOK, worldVars

LEMMA FlushType ==
  ASSUME TypeOK, NEW t \in Tools, FlushQueue(t)
  PROVE  TypeOK'
<1>1. chat' \in [Tools -> Seq(ChatAction)]
  <2>1. <<>> \in Seq(ChatAction)
    OBVIOUS
  <2> QED
    BY <2>1 DEF FlushQueue, TypeOK
<1>2. kick' \in [Tools -> Marked \union {NoKick}]
  BY DEF FlushQueue, TypeOK
<1>3. unread' \in [Tools -> SUBSET Tools]
  <2> DEFINE told(s) == s # t /\ s \in playing /\ \E i \in DOMAIN chat[t] : chat[t][i].kind # "party"
  <2>1. unread' = [s \in Tools |-> IF told(s) THEN unread[s] \union {t} ELSE unread[s]]
    BY DEF FlushQueue
  <2> HIDE DEF told
  <2> QED
    BY <2>1 DEF TypeOK
<1> QED
  BY <1>1, <1>2, <1>3 DEF FlushQueue, TypeOK, worldVars

LEMMA Repeated ==
  ASSUME NEW S, NEW e \in S, NEW k \in Int
  PROVE  [i \in 1 .. k |-> e] \in Seq(S)
<1>1. PICK n \in Nat : 1 .. k = 1 .. n
  <2>1. CASE k \in Nat
    BY <2>1
  <2>2. CASE k \notin Nat
    <3>1. 0 \in Nat /\ 1 .. k = 1 .. 0
      BY <2>2
    <3> QED
      BY <3>1
  <2> QED
    BY <2>1, <2>2
<1>2. [i \in 1 .. k |-> e] \in [1 .. n -> S]
  BY <1>1
<1> QED
  BY <1>2, SeqDef

\* The summary a tool sends when it enters or leaves a game goes to the party only.
LEMMA GameNews ==
  ASSUME TypeOK, NEW t \in Tools, OnLocalPlayerInitialized(t)
  PROVE  \E news \in Seq(ChatAction) :
           /\ \A i \in DOMAIN news : news[i] = Party
           /\ chat' = [chat EXCEPT ![t] = @ \o news]
<1> DEFINE k == IF MaxParty - Len(chat[t]) < 1 + Cardinality(Here)
                THEN MaxParty - Len(chat[t]) ELSE 1 + Cardinality(Here)
           news == [i \in 1 .. k |-> Party]
<1>1. chat[t] \in Seq(ChatAction) /\ Party \in ChatAction
  BY DEF TypeOK, Party, ChatAction
<1>2. k \in Int
  <2>1. Cardinality(Here) \in Nat
    BY ListsAreOfMarked, CountOfPlayers
  <2>2. MaxParty \in Int /\ Len(chat[t]) \in Int
    BY <1>1, ModeratorAssumption DEF ModeratorAssumption
  <2> QED
    BY <2>1, <2>2
<1>3. chat' = [chat EXCEPT ![t] = @ \o news]
  BY DEF OnLocalPlayerInitialized
<1> HIDE DEF k
<1>4. news \in Seq(ChatAction)
  BY <1>1, <1>2, Repeated
<1>5. \A i \in DOMAIN news : news[i] = Party
  OBVIOUS
<1> HIDE DEF news
<1> QED
  BY <1>3, <1>4, <1>5

\* Entering or leaving a game.
LEMMA GameType ==
  ASSUME TypeOK, NEW t \in Tools, OnLocalPlayerInitialized(t)
  PROVE  TypeOK'
<1>1. chat' \in [Tools -> Seq(ChatAction)]
  <2>1. PICK news \in Seq(ChatAction) : chat' = [chat EXCEPT ![t] = @ \o news]
    BY GameNews
  <2>2. chat[t] \o news \in Seq(ChatAction)
    BY DEF TypeOK
  <2> QED
    BY <2>1, <2>2 DEF TypeOK
<1>2. extra' \in [Tools -> [Marked -> ExtraData]]
  <2> DEFINE data == [m \in Marked |-> [extra[t][m] EXCEPT !.partyWarned = @ \/ m \in Here]]
  <2>1. extra' = [extra EXCEPT ![t] = data]
    BY DEF OnLocalPlayerInitialized, TypeOK
  <2>2. ASSUME NEW m \in Marked
        PROVE  [extra[t][m] EXCEPT !.partyWarned = @ \/ m \in Here] \in ExtraData
    <3>1. extra[t][m] \in ExtraData
      BY DEF TypeOK
    <3> QED
      BY <3>1 DEF ExtraData
  <2>3. data \in [Marked -> ExtraData]
    BY <2>2
  <2> HIDE DEF data
  <2> QED
    BY <2>1, <2>3 DEF TypeOK
<1>3. playing' \subseteq Tools
  BY DEF OnLocalPlayerInitialized, TypeOK
<1>4. setbacks' \in 0 .. MaxSetbacks
  BY ModeratorAssumption DEF OnLocalPlayerInitialized, TypeOK, ModeratorAssumption
<1> QED
  BY <1>1, <1>2, <1>3, <1>4 DEF OnLocalPlayerInitialized, TypeOK

LEMMA RestartType ==
  ASSUME TypeOK, NEW t \in Tools, GameRestarts(t)
  PROVE  TypeOK'
<1>1. /\ 0 \in 0 .. MaxWait /\ 0 \in 0 .. NonlocalInterval
      /\ VoteInterval + 1 \in 0 .. VoteInterval + 1
  BY ModeratorAssumption DEF ModeratorAssumption, MaxWait
<1>2. setbacks' \in 0 .. MaxSetbacks
  BY ModeratorAssumption DEF GameRestarts, TypeOK, ModeratorAssumption
<1>3. chat' \in [Tools -> Seq(ChatAction)]
  <2>1. <<>> \in Seq(ChatAction)
    OBVIOUS
  <2> QED
    BY <2>1 DEF GameRestarts, TypeOK
<1>4. nextWarn' \in [Tools -> 0 .. MaxWait] /\ nextConn' \in [Tools -> 0 .. NonlocalInterval]
  BY <1>1 DEF GameRestarts, TypeOK
<1>5. sinceVote' \in [Tools -> 0 .. VoteInterval + 1] /\ kick' \in [Tools -> Marked \union {NoKick}]
  BY <1>1 DEF GameRestarts, TypeOK
<1>6. runningTool' \in [Tools -> SUBSET Tools] /\ unread' \in [Tools -> SUBSET Tools]
  BY DEF GameRestarts, TypeOK
<1> QED
  BY <1>2, <1>3, <1>4, <1>5, <1>6 DEF GameRestarts, TypeOK

LEMMA TickType ==
  ASSUME TypeOK, Tick
  PROVE  TypeOK'
<1>1. nextWarn' \in [Tools -> 0 .. MaxWait] /\ nextConn' \in [Tools -> 0 .. NonlocalInterval]
  <2>1. MaxWait \in Nat /\ NonlocalInterval \in Nat
    BY ModeratorAssumption DEF ModeratorAssumption, MaxWait
  <2>2. ASSUME NEW t \in Tools
        PROVE  Earlier(nextWarn[t]) \in 0 .. MaxWait /\ Earlier(nextConn[t]) \in 0 .. NonlocalInterval
    <3>1. nextWarn[t] \in 0 .. MaxWait /\ nextConn[t] \in 0 .. NonlocalInterval
      BY DEF TypeOK
    <3> QED
      BY <2>1, <3>1 DEF Earlier
  <2>3. /\ nextWarn' = [t \in Tools |-> Earlier(nextWarn[t])]
        /\ nextConn' = [t \in Tools |-> Earlier(nextConn[t])]
    BY DEF Tick
  <2> QED
    BY <2>2, <2>3
<1>2. sinceVote' \in [Tools -> 0 .. VoteInterval + 1]
  <2>1. ASSUME NEW t \in Tools
        PROVE  (IF sinceVote[t] > VoteInterval THEN sinceVote[t] ELSE sinceVote[t] + 1)
                 \in 0 .. VoteInterval + 1
    <3>1. sinceVote[t] \in 0 .. VoteInterval + 1 /\ VoteInterval \in Nat
      BY ModeratorAssumption DEF TypeOK, ModeratorAssumption
    <3> QED
      BY <3>1
  <2> QED
    BY <2>1 DEF Tick
<1>3. extra' \in [Tools -> [Marked -> ExtraData]]
  <2>1. ASSUME NEW t \in Tools, NEW m \in Marked
        PROVE  [extra[t][m] EXCEPT !.connDelay = Earlier(@), !.warnDelay = Earlier(@)] \in ExtraData
    <3>1. extra[t][m] \in ExtraData
      BY DEF TypeOK
    <3>2. \A time \in NoDelay .. WarningDelay : Earlier(time) \in NoDelay .. WarningDelay
      BY EarlierType, ModeratorAssumption DEF ModeratorAssumption, NoDelay
    <3> QED
      BY <3>1, <3>2 DEF ExtraData
  <2> QED
    BY <2>1 DEF Tick
<1> QED
  BY <1>1, <1>2, <1>3 DEF Tick, TypeOK, worldVars

LEMMA NewLobbyType ==
  ASSUME TypeOK, NewLobby
  PROVE  TypeOK'
<1>1. extra' \in [Tools -> [Marked -> ExtraData]]
  <2>1. NoDelay \in NoDelay .. WarningDelay
    BY ModeratorAssumption DEF ModeratorAssumption, NoDelay
  <2>2. FreshData \in ExtraData
    BY <2>1 DEF FreshData, ExtraData
  <2> QED
    BY <2>2 DEF NewLobby
<1>2. setbacks' \in 0 .. MaxSetbacks
  BY ModeratorAssumption DEF NewLobby, TypeOK, ModeratorAssumption
<1> QED
  BY <1>1, <1>2 DEF NewLobby, TypeOK, Places

\* Every variable keeps its type: in particular no timer runs below zero or beyond
\* the interval it is set to, the vote counter stays within the longest list, and a
\* queue holds what the game can be sent.
THEOREM TypeCorrect == Spec => []TypeOK
<1>1. Init => TypeOK
  BY InitType
<1>2. TypeOK /\ [Next]_vars => TypeOK'
  <2> SUFFICES ASSUME TypeOK, [Next]_vars
               PROVE  TypeOK'
    OBVIOUS
  <2>1. ASSUME NEW t \in Tools, ProcessPlayerActions(t)
        PROVE  TypeOK'
    BY <2>1, ActionsType
  <2>2. ASSUME NEW t \in Tools, SkipPlayerActions(t)
        PROVE  TypeOK'
    <3>1. setbacks' \in 0 .. MaxSetbacks
      BY <2>2, ModeratorAssumption DEF SkipPlayerActions, TypeOK, ModeratorAssumption
    <3>2. acted' \subseteq Tools
      BY <2>2 DEF SkipPlayerActions, TypeOK
    <3> QED
      BY <2>2, <3>1, <3>2 DEF SkipPlayerActions, TypeOK, toolVars
  <2>3. ASSUME NEW t \in Tools, FlushQueue(t)
        PROVE  TypeOK'
    BY <2>3, FlushType
  <2>4. ASSUME NEW t \in Tools, NEW s \in Tools \ {t}, OnChatMsg(t, s)
        PROVE  TypeOK'
    BY <2>4, ChatLineType
  <2>5. ASSUME Tick
        PROVE  TypeOK'
    BY <2>5, TickType
  <2>6. ASSUME NEW m \in Marked, PlayerMoves(m)
        PROVE  TypeOK'
    <3>1. where' \in [Marked -> Places]
      BY <2>6 DEF PlayerMoves, TypeOK, Places
    <3>2. setbacks' \in 0 .. MaxSetbacks
      BY <2>6, ModeratorAssumption DEF PlayerMoves, TypeOK, ModeratorAssumption
    <3> QED
      BY <2>6, <3>1, <3>2 DEF PlayerMoves, TypeOK, toolVars
  <2>7. ASSUME NEW t \in Tools, NEW s \in Below(t), StatusChanges(t, s)
        PROVE  TypeOK'
    <3>1. s \in Tools
      BY DEF Below
    <3>2. /\ \/ fresh' = [fresh EXCEPT ![t] = @ \union {s}]
             \/ fresh' = [fresh EXCEPT ![t] = @ \ {s}]
          /\ setbacks' = setbacks \/ (setbacks < MaxSetbacks /\ setbacks' = setbacks + 1)
      BY <2>7 DEF StatusChanges
    <3>3. fresh' \in [Tools -> SUBSET Tools] /\ \A u \in Tools : fresh'[u] \subseteq Below(u)
      <4>1. fresh \in [Tools -> SUBSET Tools] /\ \A u \in Tools : fresh[u] \subseteq Below(u)
        BY DEF TypeOK
      <4>2. PICK F \in SUBSET Tools : F \subseteq Below(t) /\ fresh' = [fresh EXCEPT ![t] = F]
        <5>1. fresh[t] \union {s} \in SUBSET Tools /\ fresh[t] \ {s} \in SUBSET Tools
          BY <3>1, <4>1
        <5>2. fresh[t] \union {s} \subseteq Below(t) /\ fresh[t] \ {s} \subseteq Below(t)
          BY <4>1
        <5> QED
          BY <3>2, <5>1, <5>2
      <4>3. fresh' \in [Tools -> SUBSET Tools]
        BY <4>1, <4>2
      <4>4. ASSUME NEW u \in Tools
            PROVE  fresh'[u] \subseteq Below(u)
        BY <4>1, <4>2
      <4> QED
        BY <4>3, <4>4
    <3>4. setbacks' \in 0 .. MaxSetbacks
      BY <3>2, ModeratorAssumption DEF TypeOK, ModeratorAssumption
    <3> QED
      BY <2>7, <3>3, <3>4 DEF StatusChanges, TypeOK, toolVars, Below
  <2>8. ASSUME NEW t \in Tools, OnLocalPlayerInitialized(t)
        PROVE  TypeOK'
    BY <2>8, GameType
  <2>9. ASSUME NEW t \in Tools, GameRestarts(t)
        PROVE  TypeOK'
    BY <2>9, RestartType
  <2>10. ASSUME NewLobby
         PROVE  TypeOK'
    BY <2>10, NewLobbyType
  <2>11. ASSUME NEW m \in Marked, SummaryArrives(m)
         PROVE  TypeOK'
    BY <2>11 DEF SummaryArrives, TypeOK, toolVars
  <2>12. CASE UNCHANGED vars
    BY <2>12 DEF vars, worldVars, toolVars, TypeOK
  <2> QED
    BY <2>1, <2>2, <2>3, <2>4, <2>5, <2>6, <2>7, <2>8, <2>9, <2>10, <2>11, <2>12
       DEF Next, Loops, World, Update
<1> QED
  BY <1>1, <1>2, PTL DEF Spec

-----------------------------------------------------------------------------
(* Who speaks *)

LEMMA PublicAppend ==
  ASSUME NEW queue \in Seq(ChatAction), NEW e \in ChatAction
  PROVE  /\ Append(queue, e) \in Seq(ChatAction)
         /\ Public(Append(queue, e)) <=> Public(queue) \/ e.kind # "party"
         /\ Len(Append(queue, e)) = Len(queue) + 1
         /\ Append(queue, e)[Len(queue) + 1] = e
         /\ \A i \in 1 .. Len(queue) : Append(queue, e)[i] = queue[i]
<1>1. /\ Append(queue, e) \in Seq(ChatAction)
      /\ Len(Append(queue, e)) = Len(queue) + 1 /\ Len(queue) \in Nat
      /\ Append(queue, e)[Len(queue) + 1] = e
      /\ \A i \in 1 .. Len(queue) : Append(queue, e)[i] = queue[i]
      /\ DOMAIN queue = 1 .. Len(queue)
      /\ DOMAIN Append(queue, e) = 1 .. (Len(queue) + 1)
  OBVIOUS
<1>2. Public(Append(queue, e)) <=> Public(queue) \/ e.kind # "party"
  <2>1. ASSUME Public(Append(queue, e))
        PROVE  Public(queue) \/ e.kind # "party"
    <3>1. PICK i \in 1 .. (Len(queue) + 1) : Append(queue, e)[i].kind # "party"
      BY <1>1, <2>1 DEF Public
    <3>2. CASE i = Len(queue) + 1
      BY <1>1, <3>1, <3>2
    <3>3. CASE i # Len(queue) + 1
      <4>1. i \in 1 .. Len(queue)
        BY <1>1, <3>3
      <4> QED
        BY <1>1, <3>1, <4>1 DEF Public
    <3> QED
      BY <3>2, <3>3
  <2>2. ASSUME Public(queue)
        PROVE  Public(Append(queue, e))
    <3>1. PICK i \in 1 .. Len(queue) : queue[i].kind # "party"
      BY <1>1, <2>2 DEF Public
    <3>2. i \in 1 .. (Len(queue) + 1) /\ Append(queue, e)[i].kind # "party"
      BY <1>1, <3>1
    <3> QED
      BY <1>1, <3>2 DEF Public
  <2>3. ASSUME e.kind # "party"
        PROVE  Public(Append(queue, e))
    <3>1. Len(queue) + 1 \in 1 .. (Len(queue) + 1)
      BY <1>1
    <3> QED
      BY <1>1, <2>3, <3>1 DEF Public
  <2> QED
    BY <2>1, <2>2, <2>3
<1> QED
  BY <1>1, <1>2

LEMMA EmptyIsNotPublic == ~Public(<<>>)
  BY DEF Public

\* A pass writes to the public chat only if it warns or announces, which it does at
\* most once; a warning starts the time to the next.
LEMMA PassSpeaks ==
  ASSUME TypeOK, NEW t \in Tools, ProcessPlayerActions(t)
  PROVE  /\ Public(chat'[t]) <=> Public(chat[t]) \/ Warns(t) \/ Announces(t)
         /\ Speaks(t) => Warns(t) \/ Announces(t)
         /\ \A s \in Tools \ {t} : chat'[s] = chat[s] /\ nextWarn'[s] = nextWarn[s]
         /\ nextWarn'[t] = IF Warns(t) THEN ChatInterval ELSE nextWarn[t]
<1>1. /\ chat[t] \in Seq(ChatAction) /\ chat \in [Tools -> Seq(ChatAction)]
      /\ nextWarn \in [Tools -> 0 .. MaxWait]
  BY DEF TypeOK
<1>2. /\ chat' = [chat EXCEPT ![t] = Done(t).chat \o NewsOf(t)]
      /\ nextWarn' = [nextWarn EXCEPT ![t] = Done(t).next]
      /\ Says(t, Done(t).chat, Done(t).next)
      /\ NewsOf(t) = <<>> \/ NewsOf(t) = <<Party>>
  BY Pass
<1>3. /\ Warning(Names(t, Foes(t))) \in ChatAction /\ Warning(Names(t, Foes(t))).kind # "party"
      /\ Connecting \in ChatAction /\ Connecting.kind # "party"
      /\ Party \in ChatAction /\ Party.kind = "party"
  BY DEF Warning, Names, Foes, Enemies, ChatAction, Connecting, Party
<1>4. Done(t).chat \in Seq(ChatAction)
  BY <1>2, SaysType
<1>5. chat'[t] = Done(t).chat \/ chat'[t] = Append(Done(t).chat, Party)
  <2>1. chat'[t] = Done(t).chat \o NewsOf(t)
    BY <1>1, <1>2
  <2>2. /\ Done(t).chat \o <<>> = Done(t).chat
        /\ \A e : Done(t).chat \o <<e>> = Append(Done(t).chat, e)
    BY <1>4
  <2> QED
    BY <1>2, <2>1, <2>2
<1>6. Public(chat'[t]) <=> Public(Done(t).chat)
  BY <1>3, <1>4, <1>5, PublicAppend
<1>7. Public(Done(t).chat) <=> Public(chat[t]) \/ Warns(t) \/ Announces(t)
  <2>1. CASE Done(t).chat = Append(chat[t], Warning(Names(t, Foes(t)))) /\ Warns(t)
    BY <1>1, <1>3, <2>1, PublicAppend
  <2>2. CASE Done(t).chat = Append(chat[t], Connecting) /\ Announces(t)
    BY <1>1, <1>3, <2>2, PublicAppend
  <2>3. CASE Done(t).chat = chat[t] /\ ~Warns(t) /\ ~Announces(t)
    BY <2>3
  <2> QED
    BY <1>2, <2>1, <2>2, <2>3 DEF Says
<1>8. ASSUME ~Warns(t), ~Announces(t)
      PROVE  ~Speaks(t)
  <2>1. chat'[t] = chat[t] \/ chat'[t] = Append(chat[t], Party)
    BY <1>2, <1>5, <1>8 DEF Says
  <2>2. CASE chat'[t] = chat[t]
    BY <1>1, <2>2 DEF Speaks
  <2>3. CASE chat'[t] = Append(chat[t], Party)
    <3>1. chat'[t][Len(chat[t]) + 1] = Party
      BY <1>1, <1>3, <2>3, PublicAppend
    <3> QED
      BY <1>3, <3>1 DEF Speaks
  <2> QED
    BY <2>1, <2>2, <2>3
<1>9. \A s \in Tools \ {t} : chat'[s] = chat[s] /\ nextWarn'[s] = nextWarn[s]
  BY <1>1, <1>2
<1>10. nextWarn'[t] = IF Warns(t) THEN ChatInterval ELSE nextWarn[t]
  <2>1. nextWarn'[t] = Done(t).next
    BY <1>1, <1>2
  <2>2. ~(Warns(t) /\ Announces(t))
    BY DEF Warns, Announces, WarnsNow
  <2> QED
    BY <1>2, <2>1, <2>2 DEF Says
<1> QED
  BY <1>6, <1>7, <1>8, <1>9, <1>10

LEMMA GameChat ==
  ASSUME TypeOK, NEW t \in Tools, OnLocalPlayerInitialized(t), NEW l \in Tools
  PROVE  Public(chat'[l]) => Public(chat[l])
<1>1. chat \in [Tools -> Seq(ChatAction)]
  BY DEF TypeOK
<1>2. PICK news \in Seq(ChatAction) :
        /\ \A i \in DOMAIN news : news[i] = Party
        /\ chat' = [chat EXCEPT ![t] = @ \o news]
  BY GameNews
<1>3. \A i \in DOMAIN news : news[i].kind = "party"
  BY <1>2 DEF Party
<1>4. CASE l = t
  <2>1. chat'[l] = chat[t] \o news
    BY <1>1, <1>2, <1>4
  <2>2. ASSUME NEW i \in DOMAIN (chat[t] \o news), (chat[t] \o news)[i].kind # "party"
        PROVE  Public(chat[t])
    <3>1. chat[t] \in Seq(ChatAction) /\ i \in 1 .. (Len(chat[t]) + Len(news))
      BY <1>1, <2>2
    <3>2. CASE i \in 1 .. Len(chat[t])
      BY <2>2, <3>1, <3>2 DEF Public
    <3>3. CASE i \notin 1 .. Len(chat[t])
      <4>1. i - Len(chat[t]) \in DOMAIN news /\ (chat[t] \o news)[i] = news[i - Len(chat[t])]
        BY <3>1, <3>3
      <4> QED
        BY <1>3, <2>2, <4>1
    <3> QED
      BY <3>2, <3>3
  <2> QED
    BY <1>4, <2>1, <2>2 DEF Public
<1>5. CASE l # t
  BY <1>1, <1>2, <1>5
<1> QED
  BY <1>4, <1>5

\* What a tool says while it has yet to be read is of this tick, and so is the pause
\* that follows it.
Spoke(l) == Public(chat[l]) \/ \E s \in Tools : l \in unread[s]

TickInv ==
  \A l \in Tools :
    /\ Spoke(l) => l \in acted
    /\ Spoke(l) /\ Foes(l) # {} => nextWarn[l] > 0
    /\ Below(l) = {} => nextWarn[l] <= ChatInterval

LEMMA TickInvKept ==
  ASSUME TypeOK, TickInv, [Next]_vars
  PROVE  TickInv'
<1> USE DEF TickInv
<1>1. /\ nextWarn \in [Tools -> 0 .. MaxWait] /\ unread \in [Tools -> SUBSET Tools]
      /\ chat \in [Tools -> Seq(ChatAction)]
  BY DEF TypeOK
<1>2. ChatInterval \in Nat \ {0} /\ NonlocalInterval \in Nat \ {0}
  BY ModeratorAssumption DEF ModeratorAssumption
<1>3. ASSUME NEW t \in Tools, ProcessPlayerActions(t)
      PROVE  TickInv'
  <2>1. unread' = unread /\ acted' = acted \union {t} /\ where' = where
    BY <1>3 DEF ProcessPlayerActions, worldVars
  <2>2. ASSUME NEW l \in Tools
        PROVE  Foes(l)' = Foes(l)
    BY <2>1 DEF Foes, Enemies, Active
  <2>3. Spoke(t)' => Spoke(t) \/ Warns(t) \/ Announces(t)
    BY <1>3, <2>1, PassSpeaks DEF Spoke
  <2>4. Warns(t) \/ Announces(t) => (Foes(t) # {} => Warns(t))
    BY DEF Announces
  <2>5. nextWarn'[t] = IF Warns(t) THEN ChatInterval ELSE nextWarn[t]
    BY <1>3, PassSpeaks
  <2>6. ASSUME NEW l \in Tools \ {t}
        PROVE  (Spoke(l)' <=> Spoke(l)) /\ nextWarn'[l] = nextWarn[l]
    BY <1>3, <2>1, PassSpeaks DEF Spoke
  <2> QED
    BY <1>1, <1>2, <2>1, <2>2, <2>3, <2>4, <2>5, <2>6 DEF Below
<1>4. ASSUME NEW t \in Tools, SkipPlayerActions(t)
      PROVE  TickInv'
  BY <1>4 DEF SkipPlayerActions, worldVars, toolVars, Spoke, Foes, Enemies, Active, Below
<1>5. ASSUME NEW t \in Tools, FlushQueue(t)
      PROVE  TickInv'
  <2>1. chat' = [chat EXCEPT ![t] = <<>>] /\ acted' = acted /\ nextWarn' = nextWarn /\ where' = where
    BY <1>5 DEF FlushQueue, worldVars
  <2>2. ASSUME NEW l \in Tools, Spoke(l)'
        PROVE  Spoke(l)
    <3>1. Public(chat'[l]) => Public(chat[l])
      BY <1>1, <2>1, EmptyIsNotPublic
    <3>2. ASSUME NEW s \in Tools, l \in unread'[s]
          PROVE  Spoke(l)
      <4>1. l \in unread[s] \/ (l = t /\ \E i \in DOMAIN chat[t] : chat[t][i].kind # "party")
        BY <1>1, <1>5, <3>2 DEF FlushQueue
      <4> QED
        BY <4>1 DEF Spoke, Public
    <3> QED
      BY <2>2, <3>1, <3>2 DEF Spoke
  <2> QED
    BY <2>1, <2>2 DEF Foes, Enemies, Active, Below
<1>6. ASSUME NEW t \in Tools, NEW s \in Tools \ {t}, OnChatMsg(t, s)
      PROVE  TickInv'
  <2>1. /\ nextWarn' = [nextWarn EXCEPT ![t] = Deferred(t, s, @)]
        /\ unread' = [unread EXCEPT ![t] = @ \ {s}]
        /\ chat' = chat /\ acted' = acted /\ where' = where
    BY <1>6 DEF OnChatMsg, worldVars
  <2>2. ASSUME NEW l \in Tools, Spoke(l)'
        PROVE  Spoke(l)
    BY <1>1, <2>1, <2>2 DEF Spoke
  <2>3. ASSUME NEW l \in Tools
        PROVE  (nextWarn[l] > 0 => nextWarn'[l] > 0) /\ (Below(l) = {} => nextWarn'[l] = nextWarn[l])
    BY <1>1, <1>2, <2>1 DEF Deferred, Below
  <2> QED
    BY <2>1, <2>2, <2>3 DEF Foes, Enemies, Active, Below
<1>7. ASSUME Tick
      PROVE  TickInv'
  <2>1. ASSUME NEW l \in Tools
        PROVE  ~Spoke(l)' /\ nextWarn'[l] = Earlier(nextWarn[l])
    BY <1>7, EmptyIsNotPublic DEF Tick, Spoke
  <2>2. ASSUME NEW l \in Tools
        PROVE  Below(l)' = {} => nextWarn'[l] <= ChatInterval
    BY <1>1, <1>2, <2>1 DEF Earlier, Below
  <2> QED
    BY <2>1, <2>2
<1>8. ASSUME World
      PROVE  TickInv'
  <2>1. acted = {} /\ acted' = {}
    BY <1>8 DEF World, PlayerMoves, StatusChanges, OnLocalPlayerInitialized, GameRestarts, NewLobby
  <2>2. ASSUME NEW l \in Tools
        PROVE  ~Spoke(l)' /\ nextWarn'[l] \in {nextWarn[l], 0}
    <3>1. ~Public(chat[l]) /\ \A s \in Tools : l \notin unread[s]
      BY <2>1 DEF Spoke
    <3>2. CASE UNCHANGED <<chat, unread, nextWarn>>
      BY <3>1, <3>2 DEF Spoke
    <3>3. ASSUME NEW t \in Tools, GameRestarts(t)
          PROVE  ~Spoke(l)' /\ nextWarn'[l] \in {nextWarn[l], 0}
      BY <1>1, <3>1, <3>3, EmptyIsNotPublic DEF GameRestarts, Spoke
    <3>4. ASSUME NEW t \in Tools, OnLocalPlayerInitialized(t)
          PROVE  ~Spoke(l)' /\ nextWarn'[l] \in {nextWarn[l], 0}
      <4>1. nextWarn' = nextWarn /\ unread' = unread
        BY <3>4 DEF OnLocalPlayerInitialized
      <4>2. ~Public(chat'[l])
        BY <1>1, <3>1, <3>4, GameChat
      <4> QED
        BY <3>1, <4>1, <4>2 DEF Spoke
    <3> QED
      BY <1>8, <3>2, <3>3, <3>4 DEF World, PlayerMoves, StatusChanges, NewLobby, toolVars
  <2>3. ASSUME NEW l \in Tools, Below(l) = {}
        PROVE  nextWarn'[l] <= ChatInterval
    BY <1>1, <1>2, <2>2, <2>3
  <2> QED
    BY <2>2, <2>3 DEF Below
<1>9. ASSUME NEW m \in Marked, SummaryArrives(m)
      PROVE  TickInv'
  BY <1>9 DEF SummaryArrives, toolVars, Spoke, Foes, Enemies, Active, Below
<1>10. CASE UNCHANGED vars
  BY <1>10 DEF vars, worldVars, toolVars, Spoke, Foes, Enemies, Active, Below
<1> QED
  BY <1>3, <1>4, <1>5, <1>6, <1>7, <1>8, <1>9, <1>10 DEF Next, Loops, Update

\* A pass forgets no announcement.
LEMMA PreWarnedKept ==
  ASSUME TypeOK, NEW t \in Tools, ProcessPlayerActions(t), NEW u \in Tools, NEW m \in Marked,
         extra[u][m].preWarned
  PROVE  extra'[u][m].preWarned
<1>1. extra[u] \in [Marked -> ExtraData] /\ extra[u][m] \in ExtraData /\ extra \in [Tools -> [Marked -> ExtraData]]
  BY DEF TypeOK
<1>2. extra' = [extra EXCEPT ![t] = DataAfter(t)]
  BY Pass
<1>3. CASE u # t
  BY <1>1, <1>2, <1>3
<1>4. CASE u = t
  <2>1. extra'[u][m] = DataAfter(t)[m]
    BY <1>1, <1>2, <1>4
  <2>2. Remembers(t, m) \in ExtraData
    BY RemembersType
  <2>3. DataAfter(t)[m].preWarned = Remembers(t, m).preWarned
    <3>1. Done(t).extra[m] = Remembers(t, m)
      BY EnemyPass
    <3> QED
      BY <2>2, <3>1 DEF DataAfter, ExtraData
  <2>4. AfterActive(t, extra[t][m]).preWarned = extra[t][m].preWarned
    BY <1>1, <1>4 DEF AfterActive, ExtraData
  <2>5. \A joining : AfterConnecting(t, joining, m).preWarned
    BY <1>1, <1>4 DEF AfterConnecting, ExtraData
  <2>6. Remembers(t, m).preWarned
    <3>1. CASE Passable(t) /\ m \in Foes(t)
      BY <1>4, <2>4, <3>1 DEF Remembers
    <3>2. CASE ~(Passable(t) /\ m \in Foes(t)) /\ Passable(t) /\ Foes(t) = {} /\ m \in Joining(t)
      BY <2>5, <3>2 DEF Remembers
    <3>3. CASE ~(Passable(t) /\ m \in Foes(t)) /\ ~(Passable(t) /\ Foes(t) = {} /\ m \in Joining(t))
      BY <1>4, <3>3 DEF Remembers
    <3> QED
      BY <3>1, <3>2, <3>3
  <2> QED
    BY <2>1, <2>3, <2>6
<1> QED
  BY <1>3, <1>4

\* Two tools of one team look at the same enemies.
LEMMA SameTeam ==
  ASSUME NEW t \in Tools, NEW l \in Tools, Team[t] = Team[l]
  PROVE  Foes(t) = Foes(l) /\ (Passable(t) <=> Passable(l))
  BY DEF Foes, Enemies, Passable, EnemyTeam

\* While the players stay where they are a tool looks at the same enemies.
LEMMA SamePlaces ==
  ASSUME UNCHANGED where, NEW t
  PROVE  /\ Foes(t)' = Foes(t) /\ (Passable(t)' <=> Passable(t))
         /\ (Enemies(t) \intersect Here)' = Enemies(t) \intersect Here
  BY DEF Foes, Enemies, Active, Here, Passable, EnemyTeam, Size, CanPassVote

\* Who hears a tool of lower user id is not the leader, and who has none below is.
LEMMA HeardIsLower ==
  ASSUME TypeOK, NEW t \in Tools, NEW l \in Tools, Hears(t, l)
  PROVE  /\ UserID[l] < UserID[t] /\ t # l /\ IsBotLeader(l)
         /\ l \in runningTool[t] => ~IsBotLeader(t)
<1>1. UserID[l] < UserID[t] /\ UserID[l] \in Nat
  BY ModeratorAssumption DEF Hears, TypeOK, Below, ModeratorAssumption
<1>2. fresh[l] = {}
  BY DEF TypeOK, Hears
<1> QED
  BY <1>1, <1>2 DEF IsBotLeader, Hears

\* A hushed tool has nothing to say.
LEMMA HushedIsSilent ==
  ASSUME TypeOK, NEW t \in Tools, NEW l \in Tools, Hushed(t, l)
  PROVE  ~Warns(t) /\ ~Announces(t)
<1>1. CASE ~Passable(t)
  BY <1>1 DEF Warns, Announces
<1>2. CASE Foes(t) # {} /\ nextWarn[t] > 0
  BY <1>2 DEF Warns, Announces, WarnsNow, TypeOK
<1>3. CASE Foes(t) = {} /\ \A m \in Enemies(t) \intersect Here : extra[t][m].preWarned
  BY <1>3 DEF Warns, Announces, WarnsNow, AnnouncesNow, Triggers, Joining
<1> QED
  BY <1>1, <1>2, <1>3 DEF Hushed, LeavesItTo, Foes

\* The lowest tool's first pass of a tick names an enemy or has named one before.
LEMMA LowestSpeaks ==
  ASSUME TypeOK, ~SendOnce, NEW l \in Tools, IsBotLeader(l), ProcessPlayerActions(l),
         Passable(l), Foes(l) # {}, chat[l] = <<>>
  PROVE  nextWarn'[l] > 0
<1>1. Names(l, Foes(l)) # {} /\ MayQueue(chat[l], 2)
  BY DEF Names, MayQueue
<1>2. nextWarn[l] = 0 => Warns(l)
  BY <1>1 DEF Warns, WarnsNow
<1>3. nextWarn[l] \in Nat /\ ChatInterval > 0
  BY ModeratorAssumption DEF TypeOK, ModeratorAssumption
<1> QED
  BY <1>2, <1>3, PassSpeaks

\* Whatever happens around the tools is seen in the places, statuses and games.
LEMMA WorldDisturbs ==
  ASSUME TypeOK, World
  PROVE  ~UNCHANGED <<where, playing, fresh, setbacks>>
<1>1. setbacks \in Nat
  BY DEF TypeOK
<1>2. ASSUME NEW m \in Marked, PlayerMoves(m)
      PROVE  where' # where
  BY <1>2 DEF PlayerMoves, TypeOK
<1>3. ASSUME NEW t \in Tools, NEW s \in Below(t), StatusChanges(t, s)
      PROVE  fresh' # fresh
  BY <1>3 DEF StatusChanges, TypeOK
<1>4. ASSUME NEW t \in Tools, OnLocalPlayerInitialized(t)
      PROVE  playing' # playing
  BY <1>4 DEF OnLocalPlayerInitialized
<1>5. ASSUME NEW t \in Tools, GameRestarts(t)
      PROVE  setbacks' # setbacks
  BY <1>1, <1>5 DEF GameRestarts
<1>6. NewLobby => setbacks' # setbacks
  BY <1>1 DEF NewLobby
<1> QED
  BY <1>2, <1>3, <1>4, <1>5, <1>6 DEF World

\* Hushed, in the parts the steps disturb.
LEMMA HushedParts ==
  ASSUME NEW t \in Tools, NEW l \in Tools
  PROVE  Hushed(t, l) <=>
           /\ Hears(t, l) /\ l \in runningTool[t]
           /\ \/ ~Passable(t)
              \/ Foes(t) # {} /\ LeavesItTo(t, l)
              \/ Foes(t) = {} /\ \A m \in Enemies(t) \intersect Here : extra[t][m].preWarned
  BY DEF Hushed, Foes

\* As long as there is an enemy to name, every step leaves the chat to the lowest tool.
LEMMA LeavesItToKept ==
  ASSUME TypeOK, TickInv, ~SendOnce, ChatInterval < NonlocalInterval,
         NEW t \in Tools, NEW l \in Tools, Hears(t, l), l \in runningTool[t],
         Passable(t), Foes(t) # {}, LeavesItTo(t, l),
         [Next]_vars, UNCHANGED <<where, playing, fresh, setbacks>>
  PROVE  LeavesItTo(t, l)'
<1>1. /\ nextWarn \in [Tools -> 0 .. MaxWait] /\ unread \in [Tools -> SUBSET Tools]
      /\ chat \in [Tools -> Seq(ChatAction)]
      /\ nextWarn[t] \in Nat /\ nextWarn[l] \in Nat
  BY DEF TypeOK
<1>2. /\ ChatInterval \in Nat /\ NonlocalInterval \in Nat /\ ChatInterval > 0
      /\ nextWarn[l] <= ChatInterval /\ Below(l) = {} /\ l \in playing /\ t \in playing
  BY ModeratorAssumption DEF ModeratorAssumption, TickInv, Hears
<1>3. t # l /\ IsBotLeader(l) /\ ~IsBotLeader(t)
  BY HeardIsLower
<1>4. ~Warns(t) /\ ~Announces(t)
  BY HushedParts, HushedIsSilent
<1>5. Foes(l) = Foes(t) /\ Passable(l)
  BY SameTeam DEF Hears
<1>6. /\ nextWarn[t] > 0
      /\ nextWarn[t] > nextWarn[l] \/ Public(chat[l]) \/ l \in unread[t]
      /\ l \in acted => nextWarn[l] > 0
      /\ l \notin acted => chat[l] = <<>>
  BY DEF LeavesItTo
<1>7. ASSUME nextWarn'[t] > 0,
             nextWarn'[t] > nextWarn'[l] \/ Public(chat'[l]) \/ l \in unread'[t],
             l \in acted' => nextWarn'[l] > 0,
             l \notin acted' => chat'[l] = <<>>
      PROVE  LeavesItTo(t, l)'
  BY <1>7 DEF LeavesItTo
<1>8. ASSUME ProcessPlayerActions(l)
      PROVE  LeavesItTo(t, l)'
  <2>1. /\ nextWarn'[t] = nextWarn[t] /\ unread' = unread /\ acted' = acted \union {l}
        /\ Public(chat[l]) => Public(chat'[l])
    BY <1>3, <1>8, PassSpeaks DEF ProcessPlayerActions
  <2>2. nextWarn'[l] = IF Warns(l) THEN ChatInterval ELSE nextWarn[l]
    BY <1>8, PassSpeaks
  <2>3. Warns(l) => Public(chat'[l])
    BY <1>8, PassSpeaks
  <2>4. nextWarn'[l] > 0
    <3>1. CASE l \in acted
      BY <1>2, <1>6, <2>2, <3>1
    <3>2. CASE l \notin acted
      BY <1>3, <1>5, <1>6, <1>8, <3>2, LowestSpeaks
    <3> QED
      BY <3>1, <3>2
  <2> QED
    BY <1>6, <1>7, <2>1, <2>2, <2>3, <2>4
<1>9. ASSUME NEW u \in Tools \ {l}, ProcessPlayerActions(u)
      PROVE  LeavesItTo(t, l)'
  <2>1. /\ nextWarn'[l] = nextWarn[l] /\ chat'[l] = chat[l]
        /\ unread' = unread /\ acted' = acted \union {u}
    BY <1>9, PassSpeaks DEF ProcessPlayerActions
  <2>2. nextWarn'[t] = nextWarn[t]
    <3>1. CASE u = t
      BY <1>4, <1>9, <3>1, PassSpeaks
    <3>2. CASE u # t
      BY <1>9, <3>2, PassSpeaks
    <3> QED
      BY <3>1, <3>2
  <2> QED
    BY <1>6, <1>7, <2>1, <2>2
<1>10. ASSUME NEW u \in Tools, SkipPlayerActions(u)
       PROVE  LeavesItTo(t, l)'
  <2>1. /\ nextWarn' = nextWarn /\ chat' = chat /\ unread' = unread
        /\ acted' = acted \union {u} /\ u # l
    BY <1>2, <1>10 DEF SkipPlayerActions, toolVars, TypeOK
  <2> QED
    BY <1>6, <1>7, <2>1
<1>11. ASSUME NEW u \in Tools, FlushQueue(u)
       PROVE  LeavesItTo(t, l)'
  <2>1. /\ nextWarn' = nextWarn /\ acted' = acted
        /\ chat' = [chat EXCEPT ![u] = <<>>]
        /\ unread' = [s \in Tools |->
             IF s # u /\ s \in playing /\ \E i \in DOMAIN chat[u] : chat[u][i].kind # "party"
             THEN unread[s] \union {u} ELSE unread[s]]
    BY <1>11 DEF FlushQueue
  <2>2. chat'[l] = IF u = l THEN <<>> ELSE chat[l]
    BY <1>1, <2>1
  <2>3. l \in unread[t] => l \in unread'[t]
    BY <2>1
  <2>4. u = l /\ Public(chat[l]) => l \in unread'[t]
    BY <1>2, <1>3, <2>1 DEF Public
  <2> QED
    BY <1>6, <1>7, <2>1, <2>2, <2>3, <2>4
<1>12. ASSUME NEW u \in Tools, NEW s \in Tools \ {u}, OnChatMsg(u, s)
       PROVE  LeavesItTo(t, l)'
  <2>1. /\ nextWarn' = [nextWarn EXCEPT ![u] = Deferred(u, s, @)]
        /\ unread' = [unread EXCEPT ![u] = @ \ {s}]
        /\ chat' = chat /\ acted' = acted
    BY <1>12 DEF OnChatMsg
  <2>2. nextWarn'[l] = nextWarn[l]
    BY <1>1, <1>2, <2>1 DEF Deferred, Below
  <2>3. nextWarn'[t] = nextWarn[t] \/ nextWarn'[t] = NonlocalInterval
    BY <1>1, <2>1 DEF Deferred
  <2> DEFINE later == NonlocalInterval > nextWarn'[l] /\ NonlocalInterval > 0
  <2>6. later
    BY <1>1, <1>2, <2>2
  <2>4. CASE u = t /\ s = l
    <3>1. nextWarn'[t] = NonlocalInterval
      BY <1>1, <2>1, <2>4, HeardIsLower DEF Deferred
    <3> QED
      BY <1>6, <1>7, <2>1, <2>2, <2>6, <3>1
  <2>5. CASE ~(u = t /\ s = l)
    <3>1. l \in unread[t] => l \in unread'[t]
      BY <1>1, <2>1, <2>5
    <3> QED
      BY <1>6, <1>7, <2>1, <2>2, <2>3, <2>6, <3>1
  <2> QED
    BY <2>4, <2>5
<1>13. ASSUME Tick
       PROVE  LeavesItTo(t, l)'
  <2>1. /\ l \in acted /\ acted' = {} /\ chat[l] = <<>> /\ unread[t] = {} /\ chat'[l] = <<>>
        /\ nextWarn'[t] = Earlier(nextWarn[t]) /\ nextWarn'[l] = Earlier(nextWarn[l])
    BY <1>13 DEF Tick
  <2>2. nextWarn[l] > 0 /\ nextWarn[t] > nextWarn[l]
    BY <1>6, <2>1, EmptyIsNotPublic
  <2>3. nextWarn'[t] > 0 /\ nextWarn'[t] > nextWarn'[l]
    BY <1>1, <2>1, <2>2 DEF Earlier
  <2> QED
    BY <1>7, <2>1, <2>3
<1>14. ASSUME World
       PROVE  FALSE
  BY <1>14, WorldDisturbs
<1>15. ASSUME NEW m \in Marked, SummaryArrives(m)
       PROVE  LeavesItTo(t, l)'
  BY <1>6, <1>7, <1>15 DEF SummaryArrives, toolVars
<1>16. CASE UNCHANGED vars
  BY <1>6, <1>7, <1>16 DEF vars, toolVars
<1> QED
  BY <1>8, <1>9, <1>10, <1>11, <1>12, <1>13, <1>14, <1>15, <1>16 DEF Next, Loops, Update

\* An announced enemy stays announced.
LEMMA AnnouncedKept ==
  ASSUME TypeOK, [Next]_vars, UNCHANGED <<where, playing, fresh, setbacks>>,
         NEW t \in Tools, NEW m \in Marked, extra[t][m].preWarned
  PROVE  extra'[t][m].preWarned
<1>1. extra[t][m] \in ExtraData
  BY DEF TypeOK
<1>2. ASSUME NEW u \in Tools, ProcessPlayerActions(u)
      PROVE  extra'[t][m].preWarned
  BY <1>2, PreWarnedKept
<1>3. ASSUME Tick
      PROVE  extra'[t][m].preWarned
  BY <1>1, <1>3 DEF Tick, ExtraData
<1>4. ASSUME World
      PROVE  FALSE
  BY <1>4, WorldDisturbs
<1>5. CASE UNCHANGED extra
  BY <1>5
<1> QED
  BY <1>2, <1>3, <1>4, <1>5
     DEF Next, Loops, Update, SkipPlayerActions, FlushQueue, OnChatMsg, SummaryArrives, vars, toolVars

\* Only a pass makes a tool speak.
LEMMA OnlyPassesSpeak ==
  ASSUME TypeOK, [Next]_vars, UNCHANGED <<where, playing, fresh, setbacks>>,
         NEW t \in Tools, Speaks(t)
  PROVE  ProcessPlayerActions(t)
<1>1. chat \in [Tools -> Seq(ChatAction)] /\ Len(chat[t]) \in Nat
  BY DEF TypeOK
<1>2. ASSUME NEW u \in Tools, u # t, ProcessPlayerActions(u)
      PROVE  FALSE
  BY <1>1, <1>2, PassSpeaks DEF Speaks
<1>3. ASSUME NEW u \in Tools, FlushQueue(u)
      PROVE  FALSE
  <2>1. chat'[t] = <<>> \/ chat'[t] = chat[t]
    BY <1>1, <1>3 DEF FlushQueue
  <2> QED
    BY <1>1, <2>1 DEF Speaks
<1>4. ~World
  BY WorldDisturbs
<1>5. CASE UNCHANGED chat
  BY <1>1, <1>5 DEF Speaks
<1> QED
  BY <1>2, <1>3, <1>4, <1>5
     DEF Next, Loops, Update, SkipPlayerActions, OnChatMsg, Tick, SummaryArrives, vars, toolVars

LEMMA HushedKept ==
  ASSUME TypeOK, TickInv, ~SendOnce, ChatInterval < NonlocalInterval,
         NEW t \in Tools, NEW l \in Tools, Hushed(t, l),
         [Next]_vars, UNCHANGED <<where, playing, fresh, setbacks>>
  PROVE  Hushed(t, l)' /\ ~Speaks(t)
<1>1. Hears(t, l) /\ l \in runningTool[t]
  BY DEF Hushed
<1>2. ~Speaks(t)
  <2>1. ~Warns(t) /\ ~Announces(t)
    BY HushedIsSilent
  <2>2. ASSUME ProcessPlayerActions(t)
        PROVE  ~Speaks(t)
    BY <2>1, <2>2, PassSpeaks
  <2> QED
    BY <2>2, OnlyPassesSpeak
<1>3. Hears(t, l)' /\ l \in runningTool'[t]
  <2>1. Hears(t, l)'
    BY <1>1 DEF Hears, Below
  <2>2. ~World
    BY WorldDisturbs
  <2>3. l \in runningTool'[t]
    <3>1. runningTool \in [Tools -> SUBSET Tools]
      BY DEF TypeOK
    <3>2. CASE UNCHANGED runningTool
      BY <1>1, <3>2
    <3>3. ASSUME NEW u \in Tools, NEW s \in Tools \ {u}, OnChatMsg(u, s)
          PROVE  l \in runningTool'[t]
      BY <1>1, <3>1, <3>3 DEF OnChatMsg
    <3> QED
      BY <2>2, <3>2, <3>3 DEF Next, Loops, Update, ProcessPlayerActions, SkipPlayerActions,
                              FlushQueue, Tick, SummaryArrives, vars, toolVars
  <2> QED
    BY <2>1, <2>3
<1>4. /\ Foes(t)' = Foes(t) /\ (Passable(t)' <=> Passable(t))
      /\ (Enemies(t) \intersect Here)' = Enemies(t) \intersect Here
  BY SamePlaces
<1>5. CASE ~Passable(t)
  BY <1>2, <1>3, <1>4, <1>5 DEF Hushed
<1>6. CASE Passable(t) /\ Foes(t) # {} /\ LeavesItTo(t, l)
  <2>1. LeavesItTo(t, l)'
    BY <1>1, <1>6, LeavesItToKept
  <2>2. (Enemies(t) \intersect Active # {})'
    BY <1>4, <1>6 DEF Foes
  <2> QED
    BY <1>2, <1>3, <2>1, <2>2 DEF Hushed
<1>7. CASE Foes(t) = {} /\ \A m \in Enemies(t) \intersect Here : extra[t][m].preWarned
  <2>1. (Enemies(t) \intersect Active = {})'
    BY <1>4, <1>7 DEF Foes
  <2>2. ASSUME NEW m \in (Enemies(t) \intersect Here)'
        PROVE  extra'[t][m].preWarned
    <3>1. m \in Marked /\ extra[t][m].preWarned
      BY <1>4, <1>7, <2>2 DEF Here
    <3> QED
      BY <3>1, AnnouncedKept
  <2>3. (\A m \in Enemies(t) \intersect Here : extra[t][m].preWarned)'
    BY <2>2
  <2> QED
    BY <1>2, <1>3, <2>1, <2>3 DEF Hushed
<1> QED
  BY <1>1, <1>5, <1>6, <1>7, HushedParts

\* Hearing the lowest tool name an enemy hushes the others.
LEMMA HearingHushes ==
  ASSUME TypeOK, TickInv, ChatInterval < NonlocalInterval,
         NEW t \in Tools, NEW l \in Tools, OnChatMsg(t, l), Hears(t, l), Foes(t) # {}
  PROVE  Hushed(t, l)'
<1>1. /\ nextWarn \in [Tools -> 0 .. MaxWait] /\ runningTool \in [Tools -> SUBSET Tools]
      /\ nextWarn[l] \in Nat /\ ChatInterval \in Nat /\ NonlocalInterval \in Nat /\ ChatInterval > 0
  <2>1. ChatInterval \in Nat /\ NonlocalInterval \in Nat /\ ChatInterval > 0
    BY ModeratorAssumption DEF ModeratorAssumption
  <2> QED
    BY <2>1 DEF TypeOK
<1>2. /\ l \in unread[t] /\ runningTool' = [runningTool EXCEPT ![t] = @ \union {l}]
      /\ nextWarn' = [nextWarn EXCEPT ![t] = Deferred(t, l, @)]
      /\ chat' = chat /\ acted' = acted
      /\ UNCHANGED <<where, playing, fresh, setbacks>>
  BY DEF OnChatMsg, worldVars
<1>3. UserID[l] < UserID[t] /\ t # l
  BY HeardIsLower
<1>4. nextWarn'[t] = NonlocalInterval /\ nextWarn'[l] = nextWarn[l]
  BY <1>1, <1>2, <1>3 DEF Deferred
<1>5. l \in acted /\ nextWarn[l] > 0 /\ nextWarn[l] <= ChatInterval
  <2>1. Spoke(l)
    BY <1>2 DEF Spoke
  <2>2. Foes(l) = Foes(t) /\ Below(l) = {}
    BY SameTeam DEF Hears
  <2> QED
    BY <2>1, <2>2 DEF TickInv
<1>6. LeavesItTo(t, l)'
  <2>1. nextWarn'[t] > 0 /\ nextWarn'[t] > nextWarn'[l] /\ nextWarn'[l] > 0 /\ l \in acted'
    BY <1>1, <1>2, <1>4, <1>5
  <2> QED
    BY <2>1 DEF LeavesItTo
<1>7. Hears(t, l)' /\ l \in runningTool'[t]
  <2>1. Hears(t, l)'
    BY <1>2 DEF Hears, Below
  <2> QED
    BY <1>1, <1>2, <2>1
<1>8. (Enemies(t) \intersect Active # {})'
  BY <1>2, SamePlaces DEF Foes
<1> QED
  BY <1>6, <1>7, <1>8 DEF Hushed

\* Whoever hears the lowest tool of his team name enemies falls silent and stays so,
\* with any number of tools in both teams, any user ids and any intervals as long as
\* tools defer for longer than a tool pauses between two warnings.
THEOREM LowestAlwaysHeeded == Spec => LowestIsHeeded
<1>1. Init => TickInv
  BY EmptyIsNotPublic, ModeratorAssumption DEF Init, TickInv, Spoke, ModeratorAssumption
<1>2. TypeOK /\ TickInv /\ [Next]_vars => TickInv'
  BY TickInvKept
<1>3. TypeOK /\ TickInv /\ [Next]_vars =>
        [~SendOnce /\ ChatInterval < NonlocalInterval =>
           \A t, l \in Tools :
             /\ OnChatMsg(t, l) /\ Hears(t, l) /\ Enemies(t) \intersect Active # {} => Hushed(t, l)'
             /\ Hushed(t, l) /\ UNCHANGED <<where, playing, fresh, setbacks>>
                  => Hushed(t, l)' /\ ~Speaks(t)]_vars
  <2> SUFFICES ASSUME TypeOK, TickInv, [Next]_vars, ~SendOnce, ChatInterval < NonlocalInterval,
                      NEW t \in Tools, NEW l \in Tools
               PROVE  /\ OnChatMsg(t, l) /\ Hears(t, l) /\ Enemies(t) \intersect Active # {}
                            => Hushed(t, l)'
                      /\ Hushed(t, l) /\ UNCHANGED <<where, playing, fresh, setbacks>>
                            => Hushed(t, l)' /\ ~Speaks(t)
    OBVIOUS
  <2>1. OnChatMsg(t, l) /\ Hears(t, l) /\ Enemies(t) \intersect Active # {} => Hushed(t, l)'
    BY HearingHushes DEF Foes
  <2>2. Hushed(t, l) /\ UNCHANGED <<where, playing, fresh, setbacks>> => Hushed(t, l)' /\ ~Speaks(t)
    BY HushedKept
  <2> QED
    BY <2>1, <2>2
<1> QED
  BY <1>1, <1>2, <1>3, TypeCorrect, PTL DEF Spec, LowestIsHeeded

-----------------------------------------------------------------------------
(* Warnings *)

\* The warnings in a queue.
Warned(queue) == {i \in DOMAIN queue : queue[i].kind = "warning"}

\* One warning waits at a time, while the time to the next runs, and it names players
\* of the other team only.
WarningsInOrder ==
  \A t \in Tools :
    /\ \A i, j \in Warned(chat[t]) : i = j
    /\ Warned(chat[t]) # {} => nextWarn[t] > 0
    /\ \A i \in DOMAIN chat[t] : chat[t][i].named \subseteq Enemies(t)

LEMMA WarnedAppend ==
  ASSUME NEW queue \in Seq(ChatAction), NEW e \in ChatAction, NEW S
  PROVE  /\ e.kind # "warning" => Warned(Append(queue, e)) = Warned(queue)
         /\ Warned(queue) = {} => \A i, j \in Warned(Append(queue, e)) : i = j
         /\ (\A i \in DOMAIN queue : queue[i].named \subseteq S) /\ e.named \subseteq S
              => \A i \in DOMAIN Append(queue, e) : Append(queue, e)[i].named \subseteq S
<1>1. /\ Len(queue) \in Nat /\ DOMAIN queue = 1 .. Len(queue)
      /\ DOMAIN Append(queue, e) = 1 .. (Len(queue) + 1)
      /\ Append(queue, e)[Len(queue) + 1] = e
      /\ \A i \in 1 .. Len(queue) : Append(queue, e)[i] = queue[i]
  OBVIOUS
<1>2. ASSUME NEW i \in 1 .. (Len(queue) + 1)
      PROVE  i \in 1 .. Len(queue) \/ i = Len(queue) + 1
  BY <1>1
<1>3. ASSUME NEW i \in 1 .. Len(queue)
      PROVE  i \in 1 .. (Len(queue) + 1)
  BY <1>1
<1>4. ASSUME e.kind # "warning"
      PROVE  Warned(Append(queue, e)) = Warned(queue)
  BY <1>1, <1>2, <1>3, <1>4 DEF Warned
<1>5. ASSUME Warned(queue) = {}, NEW i \in Warned(Append(queue, e))
      PROVE  i = Len(queue) + 1
  BY <1>1, <1>2, <1>5 DEF Warned
<1>6. ASSUME \A i \in DOMAIN queue : queue[i].named \subseteq S, e.named \subseteq S,
             NEW i \in DOMAIN Append(queue, e)
      PROVE  Append(queue, e)[i].named \subseteq S
  <2>1. Append(queue, e)[i] = e \/ (i \in DOMAIN queue /\ Append(queue, e)[i] = queue[i])
    BY <1>1, <1>2
  <2> QED
    BY <1>6, <2>1
<1> QED
  BY <1>4, <1>5, <1>6

\* The party's summary names nobody and is no warning.
LEMMA WarnedConcat ==
  ASSUME NEW queue \in Seq(ChatAction), NEW news \in Seq(ChatAction),
         \A i \in DOMAIN news : news[i] = Party
  PROVE  /\ Warned(queue \o news) = Warned(queue)
         /\ \A S : (\A i \in DOMAIN queue : queue[i].named \subseteq S)
                      => \A i \in DOMAIN (queue \o news) : (queue \o news)[i].named \subseteq S
<1> DEFINE both == queue \o news
<1>1. /\ Len(queue) \in Nat /\ Len(news) \in Nat
      /\ DOMAIN queue = 1 .. Len(queue) /\ DOMAIN news = 1 .. Len(news)
      /\ DOMAIN both = 1 .. (Len(queue) + Len(news))
      /\ \A i \in 1 .. Len(queue) : both[i] = queue[i]
      /\ \A i \in 1 .. (Len(queue) + Len(news)) : i > Len(queue) => both[i] = news[i - Len(queue)]
  OBVIOUS
<1> HIDE DEF both
<1>2. ASSUME NEW i \in DOMAIN both
      PROVE  (i \in DOMAIN queue /\ both[i] = queue[i]) \/ both[i] = Party
  <2>1. CASE i \in 1 .. Len(queue)
    BY <1>1, <2>1
  <2>2. CASE i \notin 1 .. Len(queue)
    <3>1. i > Len(queue) /\ i - Len(queue) \in 1 .. Len(news) /\ i \in 1 .. (Len(queue) + Len(news))
      BY <1>1, <2>2
    <3> QED
      BY <1>1, <3>1
  <2> QED
    BY <2>1, <2>2
<1>3. ASSUME NEW i \in DOMAIN queue
      PROVE  i \in DOMAIN both /\ both[i] = queue[i]
  BY <1>1
<1>4. Party.kind # "warning" /\ Party.named = {}
  BY DEF Party
<1>5. Warned(both) = Warned(queue)
  BY <1>2, <1>3, <1>4 DEF Warned
<1>6. ASSUME NEW S, \A i \in DOMAIN queue : queue[i].named \subseteq S, NEW i \in DOMAIN both
      PROVE  both[i].named \subseteq S
  BY <1>2, <1>4, <1>6
<1> QED
  BY <1>5, <1>6 DEF both

\* A pass adds a warning to a queue that has none.
LEMMA PassWarns ==
  ASSUME TypeOK, WarningsInOrder, NEW t \in Tools, ProcessPlayerActions(t)
  PROVE  WarningsInOrder'
<1>1. chat \in [Tools -> Seq(ChatAction)] /\ chat[t] \in Seq(ChatAction)
  BY DEF TypeOK
<1>2. /\ chat' = [chat EXCEPT ![t] = Done(t).chat \o NewsOf(t)]
      /\ Says(t, Done(t).chat, Done(t).next)
      /\ NewsOf(t) = <<>> \/ NewsOf(t) = <<Party>>
  BY Pass
<1>3. /\ nextWarn'[t] = IF Warns(t) THEN ChatInterval ELSE nextWarn[t]
      /\ \A s \in Tools \ {t} : chat'[s] = chat[s] /\ nextWarn'[s] = nextWarn[s]
  BY PassSpeaks
<1>4. Done(t).chat \in Seq(ChatAction) /\ Party \in ChatAction /\ NewsOf(t) \in Seq(ChatAction)
  <2>1. Party \in ChatAction
    BY DEF Party, ChatAction
  <2>2. <<>> \in Seq(ChatAction) /\ <<Party>> \in Seq(ChatAction)
    BY <2>1
  <2> QED
    BY <1>2, <2>1, <2>2, SaysType
<1>5. \A i \in DOMAIN NewsOf(t) : NewsOf(t)[i] = Party
  BY <1>2
<1>6. chat'[t] = Done(t).chat \o NewsOf(t)
  BY <1>1, <1>2
<1> DEFINE queue == Done(t).chat
           Fine(q, time) == /\ \A i, j \in Warned(q) : i = j
                            /\ Warned(q) # {} => time > 0
                            /\ \A i \in DOMAIN q : q[i].named \subseteq Enemies(t)
<1>7. Fine(chat[t], nextWarn[t])
  BY DEF WarningsInOrder
<1>8. Fine(queue, nextWarn'[t])
  <2>1. /\ Warning(Names(t, Foes(t))) \in ChatAction
        /\ Warning(Names(t, Foes(t))).named \subseteq Enemies(t)
        /\ Connecting \in ChatAction /\ Connecting.kind # "warning" /\ Connecting.named = {}
    BY DEF Warning, Names, Foes, Enemies, ChatAction, Connecting
  <2>2. CASE Warns(t) /\ queue = Append(chat[t], Warning(Names(t, Foes(t))))
    <3>1. Warned(chat[t]) = {}
      BY <2>2 DEF Warns, WarnsNow, WarningsInOrder
    <3>2. nextWarn'[t] > 0
      BY <1>3, <2>2, ModeratorAssumption DEF ModeratorAssumption
    <3>3. \A i, j \in Warned(queue) : i = j
      BY <1>1, <2>1, <2>2, <3>1, WarnedAppend
    <3>4. \A i \in DOMAIN chat[t] : chat[t][i].named \subseteq Enemies(t)
      BY <1>7
    <3>5. \A i \in DOMAIN queue : queue[i].named \subseteq Enemies(t)
      BY <1>1, <2>1, <2>2, <3>4, WarnedAppend
    <3> QED
      BY <3>2, <3>3, <3>5
  <2>3. CASE ~Warns(t) /\ queue = Append(chat[t], Connecting)
    <3>1. Warned(queue) = Warned(chat[t])
      BY <1>1, <2>1, <2>3, WarnedAppend
    <3>2. \A i \in DOMAIN queue : queue[i].named \subseteq Enemies(t)
      BY <1>1, <1>7, <2>1, <2>3, WarnedAppend
    <3> QED
      BY <1>3, <1>7, <2>3, <3>1, <3>2
  <2>4. CASE ~Warns(t) /\ queue = chat[t]
    BY <1>3, <1>7, <2>4
  <2>5. ~(Warns(t) /\ Announces(t))
    BY DEF Warns, Announces, WarnsNow
  <2> QED
    BY <1>2, <2>2, <2>3, <2>4, <2>5 DEF Says
<1>9. Fine(chat'[t], nextWarn'[t])
  <2>1. Warned(chat'[t]) = Warned(queue)
    BY <1>4, <1>5, <1>6, WarnedConcat
  <2>2. \A i \in DOMAIN chat'[t] : chat'[t][i].named \subseteq Enemies(t)
    BY <1>4, <1>5, <1>6, <1>8, WarnedConcat
  <2> QED
    BY <1>8, <2>1, <2>2
<1> QED
  BY <1>3, <1>9 DEF WarningsInOrder, Enemies

LEMMA WarningsKept ==
  ASSUME TypeOK, WarningsInOrder, [Next]_vars
  PROVE  WarningsInOrder'
<1>1. /\ chat \in [Tools -> Seq(ChatAction)] /\ nextWarn \in [Tools -> 0 .. MaxWait]
  BY DEF TypeOK
<1>2. Warned(<<>>) = {}
  BY DEF Warned
<1>3. ASSUME NEW t \in Tools, ProcessPlayerActions(t)
      PROVE  WarningsInOrder'
  BY <1>3, PassWarns
<1>4. ASSUME \A t \in Tools : \/ chat'[t] = <<>>
                              \/ chat'[t] = chat[t] /\ (nextWarn[t] > 0 => nextWarn'[t] > 0)
      PROVE  WarningsInOrder'
  <2> SUFFICES ASSUME NEW t \in Tools
               PROVE  /\ \A i, j \in Warned(chat'[t]) : i = j
                      /\ Warned(chat'[t]) # {} => nextWarn'[t] > 0
                      /\ \A i \in DOMAIN chat'[t] : chat'[t][i].named \subseteq Enemies(t)
    BY DEF WarningsInOrder, Enemies
  <2>1. CASE chat'[t] = <<>>
    BY <1>2, <2>1
  <2>2. CASE chat'[t] = chat[t] /\ (nextWarn[t] > 0 => nextWarn'[t] > 0)
    BY <2>2 DEF WarningsInOrder
  <2> QED
    BY <1>4, <2>1, <2>2
<1>5. ASSUME NEW t \in Tools, FlushQueue(t)
      PROVE  WarningsInOrder'
  <2>1. chat' = [chat EXCEPT ![t] = <<>>] /\ nextWarn' = nextWarn
    BY <1>5 DEF FlushQueue
  <2> QED
    BY <1>1, <1>4, <2>1
<1>6. ASSUME NEW t \in Tools, NEW s \in Tools \ {t}, OnChatMsg(t, s)
      PROVE  WarningsInOrder'
  <2>1. chat' = chat /\ nextWarn' = [nextWarn EXCEPT ![t] = Deferred(t, s, @)]
    BY <1>6 DEF OnChatMsg
  <2>2. NonlocalInterval > 0
    BY ModeratorAssumption DEF ModeratorAssumption
  <2>3. \A u \in Tools : nextWarn[u] > 0 => nextWarn'[u] > 0
    BY <1>1, <2>1, <2>2 DEF Deferred
  <2> QED
    BY <1>4, <2>1, <2>3
<1>7. ASSUME Tick
      PROVE  WarningsInOrder'
  BY <1>4, <1>7 DEF Tick
<1>8. ASSUME NEW t \in Tools, GameRestarts(t)
      PROVE  WarningsInOrder'
  <2>1. /\ chat' = [chat EXCEPT ![t] = <<>>]
        /\ nextWarn' = [nextWarn EXCEPT ![t] = 0]
    BY <1>8 DEF GameRestarts
  <2> QED
    BY <1>1, <1>4, <2>1
<1>9. ASSUME NEW t \in Tools, OnLocalPlayerInitialized(t)
      PROVE  WarningsInOrder'
  <2>1. nextWarn' = nextWarn
    BY <1>9 DEF OnLocalPlayerInitialized
  <2>2. PICK news \in Seq(ChatAction) :
          /\ \A i \in DOMAIN news : news[i] = Party
          /\ chat' = [chat EXCEPT ![t] = @ \o news]
    BY <1>9, GameNews
  <2>3. chat'[t] = chat[t] \o news /\ \A u \in Tools \ {t} : chat'[u] = chat[u]
    BY <1>1, <2>2
  <2>4. ASSUME NEW u \in Tools
        PROVE  /\ Warned(chat'[u]) = Warned(chat[u])
               /\ (\A i \in DOMAIN chat[u] : chat[u][i].named \subseteq Enemies(u))
                    => \A i \in DOMAIN chat'[u] : chat'[u][i].named \subseteq Enemies(u)
    <3>1. CASE u = t
      BY <1>1, <2>2, <2>3, <3>1, WarnedConcat
    <3>2. CASE u # t
      BY <2>3, <3>2
    <3> QED
      BY <3>1, <3>2
  <2> QED
    BY <2>1, <2>4 DEF WarningsInOrder, Enemies
<1>10. CASE UNCHANGED <<chat, nextWarn>>
  BY <1>4, <1>10
<1> QED
  BY <1>3, <1>5, <1>6, <1>7, <1>8, <1>9, <1>10
     DEF Next, Loops, World, Update, SkipPlayerActions, PlayerMoves, StatusChanges, NewLobby,
         SummaryArrives, vars, toolVars

\* A tool has at most one warning waiting to be sent, the time until it may queue the
\* next is running, and the warning names marked players of the other team only,
\* however passes, restarts and lobby changes fall between the queueing and the sending.
THEOREM WarningsAlwaysInOrder == Spec => []WarningsInOrder
<1>1. Init => WarningsInOrder
  BY DEF Init, WarningsInOrder, Warned
<1>2. TypeOK /\ WarningsInOrder /\ [Next]_vars => WarningsInOrder'
  BY WarningsKept
<1> QED
  BY <1>1, <1>2, TypeCorrect, PTL DEF Spec

-----------------------------------------------------------------------------
(* Votes *)

\* A vote that waits to be sent was called in this tick.
VotesAreRecent == \A t \in Tools : kick[t] # NoKick => sinceVote[t] = 0

LEMMA FoundIsDue ==
  ASSUME TypeOK, VotesAreRecent, NEW t \in Tools, Found(t) # {}
  PROVE  /\ sinceVote[t] > VoteInterval /\ VoteInterval \in Nat /\ VoteInterval > 0
         /\ kick[t] = NoKick
<1>1. sinceVote[t] > VoteInterval
  BY DEF Found, Candidates
<1>2. VoteInterval \in Nat /\ VoteInterval > 0
  BY ModeratorAssumption DEF ModeratorAssumption
<1> QED
  BY <1>1, <1>2 DEF VotesAreRecent

LEMMA VotesRecentKept ==
  ASSUME TypeOK, VotesAreRecent, [Next]_vars
  PROVE  VotesAreRecent'
<1>1. kick \in [Tools -> Marked \union {NoKick}] /\ sinceVote \in [Tools -> 0 .. VoteInterval + 1]
  BY DEF TypeOK
<1>2. ASSUME NEW t \in Tools, ProcessPlayerActions(t)
      PROVE  VotesAreRecent'
  <2>1. \/ UNCHANGED <<kick, sinceVote>>
        \/ /\ kick' = [kick EXCEPT ![t] = First(Found(t))]
           /\ sinceVote' = [sinceVote EXCEPT ![t] = 0]
    BY <1>2, VotePass DEF ProcessPlayerActions
  <2> QED
    BY <1>1, <2>1 DEF VotesAreRecent
<1>3. ASSUME NEW t \in Tools, FlushQueue(t)
      PROVE  VotesAreRecent'
  BY <1>1, <1>3 DEF FlushQueue, VotesAreRecent
<1>4. ASSUME NEW t \in Tools, GameRestarts(t)
      PROVE  VotesAreRecent'
  BY <1>1, <1>4 DEF GameRestarts, VotesAreRecent
<1>5. ASSUME Tick
      PROVE  VotesAreRecent'
  BY <1>5 DEF Tick, VotesAreRecent
<1>6. CASE UNCHANGED <<kick, sinceVote>>
  BY <1>6 DEF VotesAreRecent
<1> QED
  BY <1>2, <1>3, <1>4, <1>5, <1>6
     DEF Next, Loops, World, Update, SkipPlayerActions, OnChatMsg, PlayerMoves, StatusChanges,
         OnLocalPlayerInitialized, NewLobby, SummaryArrives, vars, toolVars

\* A vote that a pass counts as started is sent: no earlier one takes its place in the
\* queue, so the count of players tried never runs ahead of the votes.
THEOREM VotesAlwaysTaken == Spec => VotesAreTaken
<1>1. Init => VotesAreRecent
  BY DEF Init, VotesAreRecent
<1>2. TypeOK /\ VotesAreRecent /\ [Next]_vars => VotesAreRecent'
  BY VotesRecentKept
<1>3. TypeOK /\ VotesAreRecent =>
        [\A t \in Tools :
           ProcessPlayerActions(t) /\ VotePossible(t, Kickable(t)) /\ Found(t) # {} =>
             kick[t] = NoKick /\ kick'[t] = First(Found(t))]_vars
  <2> SUFFICES ASSUME TypeOK, VotesAreRecent, NEW t \in Tools, ProcessPlayerActions(t),
                      VotePossible(t, Kickable(t)), Found(t) # {}
               PROVE  kick[t] = NoKick /\ kick'[t] = First(Found(t))
    OBVIOUS
  <2>1. kick[t] = NoKick
    BY FoundIsDue
  <2>2. kick' = [kick EXCEPT ![t] = First(Found(t))]
    BY <2>1, VotePass DEF ProcessPlayerActions
  <2> QED
    BY <2>1, <2>2 DEF TypeOK
<1> QED
  BY <1>1, <1>2, <1>3, TypeCorrect, PTL DEF Spec, VotesAreTaken

\* Tool t can call a vote, and its count of players tried is 0, or a pass sets it to 0
\* before the next vote is due.
Stuck(t) ==
  /\ t \in playing /\ VotePossible(t, Kickable(t))
  /\ \/ tried[t] = 0
     \/ sinceVote[t] = 0
     \/ sinceVote[t] <= VoteInterval /\ t \notin acted

\* As long as the lobby and the game stay as they are such a tool votes on the first
\* active player of its list and on nobody else.
VotesStayWithTheFirst ==
  [][\A t \in Tools :
       Stuck(t) /\ UNCHANGED <<where, playing, setbacks>> =>
         /\ Stuck(t)'
         /\ kick'[t] \notin {kick[t], NoKick} => kick'[t] = First(Kickable(t) \intersect Active)]_vars

\* A loop that starts at the beginning finds every active player of the list.
LEMMA FoundFromTheStart ==
  ASSUME NEW t \in Tools, tried[t] = 0, sinceVote[t] > VoteInterval
  PROVE  Found(t) = Kickable(t) \intersect Active
<1>1. StartAfter(t, Kickable(t)) = 0
  BY DEF StartAfter
<1>2. ASSUME NEW m \in Kickable(t)
      PROVE  Rank(m, Kickable(t)) > 0
  <2>1. Kickable(t) \in SUBSET Marked
    BY ListsAreOfMarked
  <2>2. Rank(m, Kickable(t)) \in 1 .. Cardinality(Kickable(t))
    BY <2>1, RankOfMember
  <2> QED
    BY <2>2
<1> QED
  BY <1>1, <1>2 DEF Found, Candidates

\* Whether a vote is possible and on whom depends on where the players are.
LEMMA SameVotes ==
  ASSUME UNCHANGED where, NEW t
  PROVE  (VotePossible(t, Kickable(t)))' <=> VotePossible(t, Kickable(t))
  BY DEF VotePossible, Kickable, Here, Active, Settled, Size, Connected, CanPassVote, EnemyTeam

\* One pass of a tool that is stuck.
LEMMA PassOfStuck ==
  ASSUME TypeOK, VotesAreRecent, NEW t \in Tools, Stuck(t), ProcessPlayerActions(t)
  PROVE  /\ tried'[t] = 0 \/ sinceVote'[t] = 0
         /\ kick'[t] # kick[t] => kick'[t] = First(Kickable(t) \intersect Active)
<1>1. /\ tried \in [Tools -> 0 .. Len(Order)] /\ kick \in [Tools -> Marked \union {NoKick}]
      /\ sinceVote \in [Tools -> 0 .. VoteInterval + 1]
  BY DEF TypeOK
<1>2. PICK n \in 0 .. Cardinality(Kickable(t)) :
        tried' = [tried EXCEPT ![t] = n] /\ (Found(t) = {} => n = 0)
  BY VotePass DEF Stuck, ProcessPlayerActions
<1>3. \/ UNCHANGED <<kick, sinceVote>> /\ (Found(t) = {} \/ kick[t] # NoKick)
      \/ /\ Found(t) # {} /\ kick[t] = NoKick
         /\ kick' = [kick EXCEPT ![t] = First(Found(t))]
         /\ sinceVote' = [sinceVote EXCEPT ![t] = 0]
  BY VotePass DEF Stuck, ProcessPlayerActions
<1>4. CASE Found(t) = {}
  BY <1>1, <1>2, <1>3, <1>4
<1>5. CASE Found(t) # {}
  <2>1. kick' = [kick EXCEPT ![t] = First(Found(t))] /\ sinceVote' = [sinceVote EXCEPT ![t] = 0]
    BY <1>3, <1>5, FoundIsDue
  <2>2. tried[t] = 0 /\ sinceVote[t] > VoteInterval
    <3>1. sinceVote[t] > VoteInterval /\ VoteInterval \in Nat /\ sinceVote[t] \in Nat
      BY <1>1, <1>5, FoundIsDue
    <3> QED
      BY <3>1 DEF Stuck
  <2> QED
    BY <1>1, <2>1, <2>2, FoundFromTheStart
<1> QED
  BY <1>4, <1>5

LEMMA StuckKept ==
  ASSUME TypeOK, VotesAreRecent, [Next]_vars, NEW t \in Tools, Stuck(t),
         UNCHANGED <<where, playing, setbacks>>
  PROVE  /\ Stuck(t)'
         /\ kick'[t] \notin {kick[t], NoKick} => kick'[t] = First(Kickable(t) \intersect Active)
<1>1. /\ kick \in [Tools -> Marked \union {NoKick}] /\ sinceVote \in [Tools -> 0 .. VoteInterval + 1]
      /\ tried \in [Tools -> 0 .. Len(Order)]
  BY DEF TypeOK
<1>2. t \in playing' /\ VotePossible(t, Kickable(t))'
  BY SameVotes DEF Stuck
<1>3. ASSUME ProcessPlayerActions(t)
      PROVE  Stuck(t)' /\ (kick'[t] # kick[t] => kick'[t] = First(Kickable(t) \intersect Active))
  BY <1>2, <1>3, PassOfStuck DEF Stuck
<1>4. ASSUME kick'[t] \in {kick[t], NoKick}, tried'[t] = tried[t],
             \/ sinceVote'[t] = sinceVote[t] /\ (t \in acted' => t \in acted)
             \/ sinceVote[t] = 0 /\ sinceVote'[t] = 1 /\ t \notin acted'
             \/ sinceVote[t] # 0 /\ t \in acted
      PROVE  Stuck(t)' /\ kick'[t] \in {kick[t], NoKick}
  <2>1. VoteInterval \in Nat /\ VoteInterval >= 1
    BY ModeratorAssumption DEF ModeratorAssumption
  <2>2. tried'[t] = 0 \/ sinceVote'[t] = 0 \/ (sinceVote'[t] <= VoteInterval /\ t \notin acted')
    BY <1>4, <2>1 DEF Stuck
  <2> QED
    BY <1>2, <1>4, <2>2 DEF Stuck
<1>5. ASSUME NEW u \in Tools \ {t}, ProcessPlayerActions(u)
      PROVE  Stuck(t)' /\ kick'[t] = kick[t]
  <2>1. acted' = acted \union {u}
    BY <1>5 DEF ProcessPlayerActions
  <2>2. kick'[t] = kick[t] /\ tried'[t] = tried[t] /\ sinceVote'[t] = sinceVote[t]
    BY <1>1, <1>5 DEF ProcessPlayerActions, HandleFriendlyCheaters
  <2> QED
    BY <1>4, <2>1, <2>2
<1>6. ASSUME NEW u \in Tools, SkipPlayerActions(u)
      PROVE  Stuck(t)' /\ kick'[t] = kick[t]
  <2>1. u # t
    BY <1>6 DEF SkipPlayerActions, Stuck, TypeOK
  <2> QED
    BY <1>4, <1>6, <2>1 DEF SkipPlayerActions, toolVars
<1>7. ASSUME NEW u \in Tools, FlushQueue(u)
      PROVE  Stuck(t)' /\ kick'[t] \in {kick[t], NoKick}
  <2>1. /\ kick' = [kick EXCEPT ![u] = NoKick]
        /\ UNCHANGED <<tried, sinceVote, acted>>
    BY <1>7 DEF FlushQueue
  <2>2. kick'[t] \in {kick[t], NoKick}
    BY <1>1, <2>1
  <2> QED
    BY <1>4, <2>1, <2>2
<1>8. ASSUME Tick
      PROVE  Stuck(t)' /\ kick'[t] = kick[t]
  <2>1. /\ kick' = kick /\ tried' = tried /\ acted = Tools /\ acted' = {}
        /\ sinceVote'[t] = IF sinceVote[t] > VoteInterval THEN sinceVote[t] ELSE sinceVote[t] + 1
    BY <1>8 DEF Tick
  <2>2. sinceVote[t] \in Nat /\ VoteInterval \in Nat
    BY <1>1, ModeratorAssumption DEF ModeratorAssumption
  <2>3. sinceVote[t] = 0 => sinceVote'[t] = 1
    BY <2>1, <2>2
  <2> QED
    BY <1>4, <2>1, <2>3
<1>9. CASE UNCHANGED <<kick, tried, sinceVote, acted>>
  BY <1>4, <1>9
<1>10. ASSUME NEW u \in Tools, GameRestarts(u)
       PROVE  FALSE
  BY <1>10 DEF GameRestarts, TypeOK
<1> QED
  BY <1>3, <1>5, <1>6, <1>7, <1>8, <1>9, <1>10
     DEF Next, Loops, World, Update, OnChatMsg, PlayerMoves, StatusChanges,
         OnLocalPlayerInitialized, NewLobby, SummaryArrives, vars, toolVars

\* The votes of a tool stay with the first player of its list for as long as the lobby
\* does not change, for any players, teams and intervals: the count that is meant
\* to lead to the next player is always 0 again before the next vote.
THEOREM VotesAlwaysStayWithTheFirst == Spec => VotesStayWithTheFirst
<1>1. Init => VotesAreRecent
  BY DEF Init, VotesAreRecent
<1>2. TypeOK /\ VotesAreRecent /\ [Next]_vars => VotesAreRecent'
  BY VotesRecentKept
<1>3. TypeOK /\ VotesAreRecent /\ [Next]_vars =>
        [\A t \in Tools :
           Stuck(t) /\ UNCHANGED <<where, playing, setbacks>> =>
             /\ Stuck(t)'
             /\ kick'[t] \notin {kick[t], NoKick} => kick'[t] = First(Kickable(t) \intersect Active)]_vars
  BY StuckKept
<1> QED
  BY <1>1, <1>2, <1>3, TypeCorrect, PTL DEF Spec, VotesStayWithTheFirst
=============================================================================
