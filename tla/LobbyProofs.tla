----------------------------- MODULE LobbyProofs -----------------------------
(***************************************************************************)
(* The lobby, for every set of accounts, every bound and any number of     *)
(* replies and lines under way.  First LobbyState by itself: its vectors   *)
(* never name a player the table lacks, and the last status time is never  *)
(* behind one.  Then the feed: what it does to the lobby is what           *)
(* LobbyState allows, so what is proved of LobbyState holds of a lobby     *)
(* that is fed by the console.                                             *)
(***************************************************************************)
EXTENDS LobbyFeed, TLAPS

-----------------------------------------------------------------------------
(* LobbyState *)

\* Resizing a vector keeps its type and never invents a member: what
\* std::vector::resize does in the LobbyHeader case.
LEMMA ResizeKeepsMembers ==
  ASSUME NEW vec \in Seq(Slot), NEW n \in Nat
  PROVE  /\ Resize(vec, n) \in Seq(Slot)
         /\ Len(Resize(vec, n)) = n
         /\ MembersOf(Resize(vec, n)) \subseteq MembersOf(vec)
<1>1. \A i \in 1 .. n : Resize(vec, n)[i] \in Slot
  BY DEF Resize, Slot
<1>2. Resize(vec, n) \in Seq(Slot) /\ Len(Resize(vec, n)) = n
  BY <1>1 DEF Resize
<1>3. MembersOf(Resize(vec, n)) \subseteq MembersOf(vec)
  BY DEF Resize, MembersOf
<1> QED
  BY <1>2, <1>3

\* Writing one slot adds at most the account written.
LEMMA AssignSlotMembers ==
  ASSUME NEW vec \in Seq(Slot), NEW id \in SteamID, NEW i \in DOMAIN vec
  PROVE  /\ [vec EXCEPT ![i] = id] \in Seq(Slot)
         /\ Len([vec EXCEPT ![i] = id]) = Len(vec)
         /\ MembersOf([vec EXCEPT ![i] = id]) \subseteq MembersOf(vec) \union {id}
  BY DEF MembersOf, Slot

\* The conjunction the invariants are proved from; it is inductive.  The status
\* times of accounts outside the table matter too: a player found or created
\* again by a Steam answer brings the time its account is left with.
IInv ==
  /\ TypeOK
  /\ LobbyMembersKnown
  /\ \A id \in SteamID : updated[id] <= lastStatusUpdate

\* A WorldState that has just been created satisfies the invariant.
LEMMA InitIInv == Init => IInv
  BY LobbyAssumption DEF LobbyAssumption, Init, IInv, TypeOK, LobbyMembersKnown,
     LobbyMembers, MembersOf, Slot, Epoch

\* Every console line, G15 dump and Steam answer preserves it.
LEMMA NextIInv == IInv /\ [Next]_vars => IInv'
<1> SUFFICES ASSUME IInv, [Next]_vars PROVE IInv'
  OBVIOUS
<1> USE DEF IInv
<1>1. ASSUME NEW m \in 0 .. MaxSlots, NEW p \in 0 .. MaxSlots, LobbyHeader(m, p)
      PROVE IInv'
  <2>1. m \in Nat /\ p \in Nat /\ m <= MaxSlots /\ p <= MaxSlots
    BY LobbyAssumption DEF LobbyAssumption
  <2>2. /\ current' \in Seq(Slot) /\ Len(current') <= MaxSlots
        /\ MembersOf(current') \subseteq MembersOf(current)
    BY <1>1, <2>1, ResizeKeepsMembers DEF LobbyHeader, TypeOK
  <2>3. /\ pending' \in Seq(Slot) /\ Len(pending') <= MaxSlots
        /\ MembersOf(pending') \subseteq MembersOf(pending)
    BY <1>1, <2>1, ResizeKeepsMembers DEF LobbyHeader, TypeOK
  <2>4. TypeOK'
    BY <1>1, <2>2, <2>3 DEF LobbyHeader, TypeOK
  <2>5. LobbyMembersKnown'
    BY <1>1, <2>2, <2>3 DEF LobbyHeader, LobbyMembersKnown, LobbyMembers
  <2> QED
    BY <1>1, <2>4, <2>5 DEF LobbyHeader
<1>2. ASSUME NEW id \in SteamID, NEW index \in 1 .. MaxSlots, NEW isPending \in BOOLEAN,
             LobbyMember(id, index, isPending)
      PROVE IInv'
  <2>1. /\ current' \in Seq(Slot) /\ Len(current') <= MaxSlots
        /\ MembersOf(current') \subseteq MembersOf(current) \union {id}
    <3>1. CASE isPending \/ index \notin DOMAIN current
      <4>1. current' = current
        BY <1>2, <3>1 DEF LobbyMember
      <4> QED
        BY <4>1 DEF TypeOK
    <3>2. CASE ~isPending /\ index \in DOMAIN current
      <4>1. current' = [current EXCEPT ![index] = id]
        BY <1>2, <3>2 DEF LobbyMember
      <4> QED
        BY <4>1, <3>2, AssignSlotMembers DEF TypeOK
    <3> QED
      BY <3>1, <3>2
  <2>2. /\ pending' \in Seq(Slot) /\ Len(pending') <= MaxSlots
        /\ MembersOf(pending') \subseteq MembersOf(pending) \union {id}
    <3>1. CASE ~isPending \/ index \notin DOMAIN pending
      <4>1. pending' = pending
        BY <1>2, <3>1 DEF LobbyMember
      <4> QED
        BY <4>1 DEF TypeOK
    <3>2. CASE isPending /\ index \in DOMAIN pending
      <4>1. pending' = [pending EXCEPT ![index] = id]
        BY <1>2, <3>2 DEF LobbyMember
      <4> QED
        BY <4>1, <3>2, AssignSlotMembers DEF TypeOK
    <3> QED
      BY <3>1, <3>2
  <2>3. players' = players \union {id} /\ lookups' \in [Api -> SUBSET SteamID]
    BY <1>2 DEF LobbyMember, FindOrCreatePlayers, TypeOK
  <2>4. TypeOK'
    BY <1>2, <2>1, <2>2, <2>3 DEF LobbyMember, TypeOK
  <2>5. LobbyMembersKnown'
    BY <2>1, <2>2, <2>3 DEF LobbyMembersKnown, LobbyMembers
  <2> QED
    BY <1>2, <2>4, <2>5 DEF LobbyMember
<1>3. ASSUME ClearLobbyState, UNCHANGED <<lastStatusUpdate, lookups, now>>
      PROVE IInv'
  <2>1. TypeOK'
    BY <1>3, LobbyAssumption DEF ClearLobbyState, TypeOK, Epoch, LobbyAssumption
  <2>2. LobbyMembersKnown'
    BY <1>3 DEF ClearLobbyState, LobbyMembersKnown, LobbyMembers, MembersOf
  <2>3. (\A id \in SteamID : updated[id] <= lastStatusUpdate)'
    BY <1>3 DEF ClearLobbyState, TypeOK, Epoch
  <2> QED
    BY <2>1, <2>2, <2>3
<1>4. CASE UNCHANGED vars
  BY <1>4 DEF vars, TypeOK, LobbyMembersKnown, LobbyMembers, MembersOf
<1>5. CASE LobbyStatusFailed
  <2>1. CASE current # <<>> \/ pending # <<>>
    BY <1>3, <1>5, <2>1 DEF LobbyStatusFailed
  <2>2. CASE ~(current # <<>> \/ pending # <<>>)
    BY <1>4, <1>5, <2>2 DEF LobbyStatusFailed, vars
  <2> QED
    BY <2>1, <2>2
<1>6. CASE LobbyCreated
  BY <1>3, <1>6 DEF LobbyCreated
<1>7. ASSUME NEW id \in SteamID, NEW ts \in 1 .. now, PlayerStatusLine(id, ts)
      PROVE IInv'
  <2>1. now \in Nat /\ ts \in Nat
    BY DEF TypeOK
  <2>2. TypeOK'
    BY <1>7, <2>1 DEF PlayerStatusLine, FindOrCreatePlayers, TypeOK
  <2>3. LobbyMembersKnown'
    BY <1>7 DEF PlayerStatusLine, FindOrCreatePlayers, LobbyMembersKnown, LobbyMembers
  <2>4. (\A other \in SteamID : updated[other] <= lastStatusUpdate)'
    BY <1>7, <2>1 DEF PlayerStatusLine, TypeOK
  <2> QED
    BY <2>2, <2>3, <2>4
<1>8. ASSUME NEW ids \in SUBSET SteamID, ApplyG15Dump(ids)
      PROVE IInv'
  <2>1. TypeOK'
    BY <1>8 DEF ApplyG15Dump, FindOrCreatePlayers, TypeOK
  <2>2. LobbyMembersKnown'
    BY <1>8 DEF ApplyG15Dump, FindOrCreatePlayers, LobbyMembersKnown, LobbyMembers
  <2>3. (\A id \in SteamID : updated[id] <= lastStatusUpdate)'
    BY <1>8 DEF ApplyG15Dump, TypeOK
  <2> QED
    BY <2>1, <2>2, <2>3
<1>9. ASSUME NEW api \in Api, NEW id \in SteamID, QueueLookup(api, id)
      PROVE IInv'
  BY <1>9 DEF QueueLookup, TypeOK, LobbyMembersKnown, LobbyMembers
<1>10. ASSUME NEW api \in Api, NEW ids \in SUBSET SteamID, LookupAnswered(api, ids)
       PROVE IInv'
  <2>1. TypeOK'
    BY <1>10 DEF LookupAnswered, TypeOK
  <2>2. LobbyMembersKnown'
    BY <1>10 DEF LookupAnswered, LobbyMembersKnown, LobbyMembers
  <2> QED
    BY <1>10, <2>1, <2>2 DEF LookupAnswered
<1>11. CASE Tick
  BY <1>11 DEF Tick, TypeOK, LobbyMembersKnown, LobbyMembers
<1> QED
  BY <1>1, <1>2, <1>4, <1>5, <1>6, <1>7, <1>8, <1>9, <1>10, <1>11 DEF Next, LobbyLine

\* The lobby vectors, the player table and the queues keep their types.
THEOREM TypeCorrect == Spec => []TypeOK
<1>1. IInv => TypeOK
  BY DEF IInv
<1> QED
  BY <1>1, InitIInv, NextIInv, PTL DEF Spec

\* GetLobbyMembers never meets a lobby member without a player.
THEOREM LobbyMembersAlwaysKnown == Spec => []LobbyMembersKnown
<1>1. IInv => LobbyMembersKnown
  BY DEF IInv
<1> QED
  BY <1>1, InitIInv, NextIInv, PTL DEF Spec

\* The world's last status time is never behind a player's.
THEOREM LastStatusAlwaysLatest == Spec => []LastStatusIsLatest
<1>1. IInv => LastStatusIsLatest
  BY DEF IInv, LastStatusIsLatest, TypeOK
<1> QED
  BY <1>1, InitIInv, NextIInv, PTL DEF Spec

-----------------------------------------------------------------------------
(* LobbyFeed *)

\* A lobby's vectors are no longer than a header may announce.
LEMMA LobbySizes ==
  ASSUME NEW l \in Lobbies
  PROVE /\ l.joined \in Seq(SteamID) /\ Len(l.joined) \in 0 .. MaxSlots
        /\ l.invited \in Seq(SteamID) /\ Len(l.invited) \in 0 .. MaxSlots
<1>1. l.joined \in SeqOf(SteamID, MaxSlots) /\ l.invited \in SeqOf(SteamID, MaxSlots)
  BY DEF Lobbies
<1>2. ASSUME NEW s \in SeqOf(SteamID, MaxSlots)
      PROVE s \in Seq(SteamID) /\ Len(s) \in 0 .. MaxSlots
  <2>1. PICK m \in 0 .. MaxSlots : s \in [1 .. m -> SteamID]
    BY <1>2 DEF SeqOf
  <2> QED
    BY <2>1, LobbyAssumption DEF LobbyAssumption
<1> QED
  BY <1>1, <1>2

\* Where the elements of sequences are behind one another.
LEMMA TwoParts ==
  ASSUME NEW S, NEW a \in Seq(S), NEW b \in Seq(S)
  PROVE /\ a \o b \in Seq(S) /\ Len(a \o b) = Len(a) + Len(b)
        /\ Len(a) \in Nat /\ Len(b) \in Nat
        /\ \A i \in 1 .. Len(a) : (a \o b)[i] = a[i]
        /\ \A i \in 1 .. Len(b) : (a \o b)[Len(a) + i] = b[i]
  OBVIOUS

LEMMA ThreeParts ==
  ASSUME NEW S, NEW h \in Seq(S), NEW a \in Seq(S), NEW b \in Seq(S)
  PROVE /\ h \o a \o b \in Seq(S)
        /\ Len(h \o a \o b) = Len(h) + Len(a) + Len(b)
        /\ \A i \in 1 .. Len(h) : (h \o a \o b)[i] = h[i]
        /\ \A i \in 1 .. Len(a) : (h \o a \o b)[Len(h) + i] = a[i]
        /\ \A i \in 1 .. Len(b) : (h \o a \o b)[Len(h) + Len(a) + i] = b[i]
<1> DEFINE c == h \o a
<1>0. c \in Seq(S)
  OBVIOUS
<1>1. /\ c \in Seq(S) /\ Len(c) = Len(h) + Len(a)
      /\ Len(h) \in Nat /\ Len(a) \in Nat /\ Len(b) \in Nat
      /\ \A i \in 1 .. Len(h) : c[i] = h[i]
      /\ \A i \in 1 .. Len(a) : c[Len(h) + i] = a[i]
  OBVIOUS
<1> HIDE DEF c
<1>2. /\ c \o b \in Seq(S) /\ Len(c \o b) = Len(c) + Len(b)
      /\ \A i \in 1 .. Len(c) : (c \o b)[i] = c[i]
      /\ \A i \in 1 .. Len(b) : (c \o b)[Len(c) + i] = b[i]
  BY <1>0, TwoParts
<1>3. /\ \A i \in 1 .. Len(h) : i \in 1 .. Len(c)
      /\ \A i \in 1 .. Len(a) : Len(h) + i \in 1 .. Len(c)
  BY <1>1
<1>4. h \o a \o b = c \o b
  BY DEF c
<1> QED
  BY <1>1, <1>2, <1>3, <1>4

\* One line for each member.
LinesOf(s, isPending) == [i \in DOMAIN s |-> MemberLine(s, i, isPending)]

LEMMA MemberLinesOf ==
  ASSUME NEW s \in Seq(SteamID), Len(s) \in 0 .. MaxSlots, NEW b \in BOOLEAN
  PROVE /\ LinesOf(s, b) \in Seq(Line) /\ Len(LinesOf(s, b)) = Len(s)
        /\ \A i \in 1 .. Len(s) : LinesOf(s, b)[i] = MemberLine(s, i, b)
<1>1. \A i \in 1 .. Len(s) : MemberLine(s, i, b) \in Line
  BY LobbyAssumption DEF MemberLine, MemberLines, Line, LobbyAssumption
<1> QED
  BY <1>1 DEF LinesOf

\* A reply is cut into lines.
LEMMA RepliesAreLines ==
  ASSUME NEW l \in Lobbies \union {NoLobby} PROVE ReplyLines(l) \in Seq(Line)
<1>1. CASE l = NoLobby
  BY <1>1 DEF ReplyLines, Line
<1>2. CASE l # NoLobby
  <2>1. l \in Lobbies
    BY <1>2
  <2>3. LinesOf(l.joined, FALSE) \in Seq(Line) /\ LinesOf(l.invited, TRUE) \in Seq(Line)
    BY <2>1, MemberLinesOf, LobbySizes
  <2>4. ReplyLines(l) = <<HeaderLine(l)>> \o LinesOf(l.joined, FALSE) \o LinesOf(l.invited, TRUE)
    BY <1>2 DEF ReplyLines, LinesOf
  <2>5. <<HeaderLine(l)>> \in Seq(Line)
    BY <2>1 DEF Line, HeaderLines
  <2>6. <<HeaderLine(l)>> \o LinesOf(l.joined, FALSE) \o LinesOf(l.invited, TRUE) \in Seq(Line)
    BY <2>3, <2>5, ThreeParts
  <2> QED
    BY <2>4, <2>6
<1> QED
  BY <1>1, <1>2

LEMMA InitQueues == FeedInit => QueuesOK
  BY DEF FeedInit, QueuesOK

\* Lines are moved, never altered.
LEMMA NextQueues == QueuesOK /\ [FeedNext]_feedVars => QueuesOK'
<1> SUFFICES ASSUME QueuesOK, [FeedNext]_feedVars PROVE QueuesOK'
  OBVIOUS
<1> USE DEF QueuesOK
<1>1. CASE GameChanges
  <2>1. Append(logLines, CreatedLine) \in Seq({CreatedLine})
    OBVIOUS
  <2>2. logLines' \in Seq({CreatedLine})
    BY <1>1, <2>1 DEF GameChanges, CreatedLine
  <2> QED
    BY <1>1, <2>2 DEF GameChanges
<1>2. CASE PollAnswered
  BY <1>2 DEF PollAnswered
<1>3. CASE ProcessReply
  <2>1. Head(replies) \in Lobbies \union {NoLobby} /\ Tail(replies) \in Seq(Lobbies \union {NoLobby})
    BY <1>3 DEF ProcessReply
  <2>2. parseQueue \o ReplyLines(Head(replies)) \in Seq(Line)
    BY <2>1, RepliesAreLines
  <2> QED
    BY <1>3, <2>1, <2>2 DEF ProcessReply
<1>4. CASE ParseLine
  BY <1>4 DEF ParseLine
<1>5. CASE DispatchLine
  BY <1>5 DEF DispatchLine
<1>6. CASE ReadLogLine
  BY <1>6 DEF ReadLogLine
<1>7. CASE TogglePreview \/ UNCHANGED feedVars
  BY <1>7 DEF TogglePreview, feedVars
<1> QED
  BY <1>1, <1>2, <1>3, <1>4, <1>5, <1>6, <1>7 DEF FeedNext

\* OnConsoleLineParsed on a line the game wrote is a lobby step of WorldState.
LEMMA ApplyIsLobbyLine ==
  ASSUME NEW line \in Line \union {CreatedLine}, ApplyLine(line) PROVE LobbyLine
<1>1. CASE line.kind = "header"
  <2>1. line \in HeaderLines
    BY <1>1 DEF Line, MemberLines, FailedLine, CreatedLine
  <2>2. PICK l \in Lobbies : line = HeaderLine(l)
    BY <2>1 DEF HeaderLines
  <2>3. line.lobby = l
    BY <2>2 DEF HeaderLine
  <2>4. LobbyHeader(Len(l.joined), Len(l.invited))
    BY <1>1, <2>3 DEF ApplyLine
  <2> QED
    BY <2>4, LobbySizes DEF LobbyLine
<1>2. CASE line.kind = "member"
  <2>1. line \in MemberLines
    BY <1>2 DEF Line, HeaderLines, HeaderLine, FailedLine, CreatedLine
  <2>2. LobbyMember(line.id, line.index, line.isPending)
    BY <1>2 DEF ApplyLine
  <2> QED
    BY <2>1, <2>2 DEF MemberLines, LobbyLine
<1> QED
  BY <1>1, <1>2 DEF ApplyLine, LobbyLine

LEMMA NextIsLobbyStep == QueuesOK /\ [FeedNext]_feedVars => [Next]_vars
<1> SUFFICES ASSUME QueuesOK, [FeedNext]_feedVars PROVE [Next]_vars
  OBVIOUS
<1>1. CASE DispatchLine
  <2>1. Head(mainQueue) \in Line /\ ApplyLine(Head(mainQueue))
    BY <1>1 DEF DispatchLine, QueuesOK
  <2> QED
    BY <2>1, ApplyIsLobbyLine DEF Next
<1>2. CASE ReadLogLine
  <2>1. Head(logLines) = CreatedLine /\ ApplyLine(Head(logLines))
    BY <1>2 DEF ReadLogLine, QueuesOK
  <2> QED
    BY <2>1, ApplyIsLobbyLine DEF Next
<1>3. CASE GameChanges \/ PollAnswered \/ ProcessReply \/ ParseLine \/ TogglePreview
           \/ UNCHANGED feedVars
  BY <1>3 DEF GameChanges, PollAnswered, ProcessReply, ParseLine, TogglePreview, feedVars
<1> QED
  BY <1>1, <1>2, <1>3 DEF FeedNext

\* OnConsoleLineParsed behind the parsing pool, the dispatcher and the log parser:
\* the feed implements LobbyState, whatever falls between the lines of a reply.
THEOREM FeedImplementsLobby == FeedSpec => LobbySpec
<1>1. FeedInit => Init
  BY DEF FeedInit
<1> QED
  BY <1>1, InitQueues, NextQueues, NextIsLobbyStep, PTL DEF FeedSpec, LobbySpec, Spec

\* So GetLobbyMembers never throws while the lobby is fed by the console.
THEOREM FeedMembersAlwaysKnown == FeedSpec => []LobbyMembersKnown
  BY FeedImplementsLobby, LobbyMembersAlwaysKnown, PTL DEF LobbySpec

\* Every queue and vector of the feed has its type.
THEOREM FeedTypeCorrect == FeedSpec => []FeedTypeOK
<1> DEFINE TOK == /\ changes \in 0 .. MaxChanges /\ preview \in BOOLEAN
                  /\ shown \in Lobbies \union {NoLobby, Interrupted}
<1>1. FeedInit => TOK
  <2>1. 0 \in 0 .. MaxChanges
    BY FeedAssumption DEF FeedAssumption
  <2>2. NoLobby \in Lobbies \union {NoLobby, Interrupted}
    OBVIOUS
  <2> QED
    BY <2>1, <2>2 DEF FeedInit
<1>2. QueuesOK /\ TOK /\ [FeedNext]_feedVars => TOK'
  <2> SUFFICES ASSUME QueuesOK, TOK, [FeedNext]_feedVars PROVE TOK'
    OBVIOUS
  <2>1. CASE GameChanges
    BY <2>1, FeedAssumption DEF GameChanges, FeedAssumption
  <2>2. CASE PollAnswered \/ ProcessReply \/ ParseLine \/ ReadLogLine \/ UNCHANGED feedVars
    BY <2>2 DEF PollAnswered, ProcessReply, ParseLine, ReadLogLine, feedVars
  <2>3. CASE DispatchLine
    <3>1. Head(mainQueue) \in Line
      BY <2>3 DEF DispatchLine, QueuesOK
    <3>2. Head(mainQueue).kind = "header" => Head(mainQueue).lobby \in Lobbies
      BY <3>1 DEF Line, HeaderLines, HeaderLine, MemberLines, FailedLine
    <3> QED
      BY <2>3, <3>2 DEF DispatchLine
  <2>4. CASE TogglePreview
    BY <2>4 DEF TogglePreview
  <2> QED
    BY <2>1, <2>2, <2>3, <2>4 DEF FeedNext
<1>3. TypeOK /\ QueuesOK /\ TOK => FeedTypeOK
  BY DEF FeedTypeOK, QueuesOK
<1>4. FeedSpec => []TypeOK
  BY FeedImplementsLobby, TypeCorrect, PTL DEF LobbySpec
<1> QED
  BY <1>1, <1>2, <1>3, <1>4, InitQueues, NextQueues, PTL DEF FeedSpec
-----------------------------------------------------------------------------
(* The lobby equals the reply *)

\* The lines under way, those parsed before those to be parsed.
FlowLen == Len(mainQueue) + Len(parseQueue)
FlowLine(i) ==
  IF i <= Len(mainQueue) THEN mainQueue[i] ELSE parseQueue[i - Len(mainQueue)]

\* A place in a reply, and the place after it, in that reply or in another.
Size(l) == Len(ReplyLines(l))
Mark == [of : Lobbies \union {NoLobby}, at : Nat]
Follows(a, b) ==
  IF a.at < Size(a.of) THEN b.of = a.of /\ b.at = a.at + 1 ELSE b.at = 1

\* The vectors hold what the first p lines of the reply about l say.
Holds(l, p) ==
  IF l = NoLobby THEN current = <<>> /\ pending = <<>>
  ELSE /\ Len(current) = Len(l.joined) /\ Len(pending) = Len(l.invited)
       /\ \A i \in 1 .. Len(l.joined) : i + 1 <= p => current[i] = l.joined[i]
       /\ \A i \in 1 .. Len(l.invited) :
            i + 1 + Len(l.joined) <= p => pending[i] = l.invited[i]

\* mark[0] is the place of the line applied last, mark[i] that of line i under way:
\* whole replies, line after line, and the lobby holds what was applied of the last.
Follow(mark) ==
  /\ mark \in [Nat -> Mark]
  /\ \A i \in 0 .. FlowLen : mark[i].at \in 1 .. Size(mark[i].of)
  /\ \A i \in 1 .. FlowLen : /\ FlowLine(i) = ReplyLines(mark[i].of)[mark[i].at]
                             /\ Follows(mark[i - 1], mark[i])
  /\ mark[FlowLen].at = Size(mark[FlowLen].of)
  /\ shown # Interrupted => shown = mark[0].of /\ Holds(mark[0].of, mark[0].at)

FlowInv == \E mark : Follow(mark)

\* What lines a reply has.
LEMMA ReplyShape ==
  /\ Size(NoLobby) = 1 /\ ReplyLines(NoLobby)[1] = FailedLine
  /\ \A l \in Lobbies \ {NoLobby} :
       /\ Size(l) = 1 + Len(l.joined) + Len(l.invited)
       /\ ReplyLines(l)[1] = HeaderLine(l)
       /\ \A i \in 1 .. Len(l.joined) : ReplyLines(l)[1 + i] = MemberLine(l.joined, i, FALSE)
       /\ \A i \in 1 .. Len(l.invited) :
            ReplyLines(l)[1 + Len(l.joined) + i] = MemberLine(l.invited, i, TRUE)
<1>1. Size(NoLobby) = 1 /\ ReplyLines(NoLobby)[1] = FailedLine
  BY DEF Size, ReplyLines
<1>2. ASSUME NEW l \in Lobbies \ {NoLobby}
      PROVE /\ Size(l) = 1 + Len(l.joined) + Len(l.invited)
            /\ ReplyLines(l)[1] = HeaderLine(l)
            /\ \A i \in 1 .. Len(l.joined) :
                 ReplyLines(l)[1 + i] = MemberLine(l.joined, i, FALSE)
            /\ \A i \in 1 .. Len(l.invited) :
                 ReplyLines(l)[1 + Len(l.joined) + i] = MemberLine(l.invited, i, TRUE)
  <2>1. /\ l.joined \in Seq(SteamID) /\ Len(l.joined) \in 0 .. MaxSlots
        /\ l.invited \in Seq(SteamID) /\ Len(l.invited) \in 0 .. MaxSlots
    BY LobbySizes
  <2>2. /\ LinesOf(l.joined, FALSE) \in Seq(Line) /\ LinesOf(l.invited, TRUE) \in Seq(Line)
        /\ Len(LinesOf(l.joined, FALSE)) = Len(l.joined)
        /\ Len(LinesOf(l.invited, TRUE)) = Len(l.invited)
        /\ \A i \in 1 .. Len(l.joined) :
             LinesOf(l.joined, FALSE)[i] = MemberLine(l.joined, i, FALSE)
        /\ \A i \in 1 .. Len(l.invited) :
             LinesOf(l.invited, TRUE)[i] = MemberLine(l.invited, i, TRUE)
    BY <2>1, MemberLinesOf
  <2>3. ReplyLines(l) = <<HeaderLine(l)>> \o LinesOf(l.joined, FALSE) \o LinesOf(l.invited, TRUE)
    BY DEF ReplyLines, LinesOf
  <2> DEFINE H == <<HeaderLine(l)>>
             A == LinesOf(l.joined, FALSE)
             B == LinesOf(l.invited, TRUE)
  <2>4. HeaderLine(l) \in Line
    BY DEF Line, HeaderLines
  <2>5. H \in Seq(Line) /\ Len(H) = 1 /\ H[1] = HeaderLine(l)
    BY <2>4
  <2> HIDE DEF H, A, B
  <2>6. /\ A \in Seq(Line) /\ B \in Seq(Line)
        /\ Len(A) = Len(l.joined) /\ Len(B) = Len(l.invited)
    BY <2>2 DEF A, B
  <2>7. ReplyLines(l) = H \o A \o B
    BY <2>3 DEF H, A, B
  <2>8. /\ Len(ReplyLines(l)) = 1 + Len(l.joined) + Len(l.invited)
        /\ ReplyLines(l)[1] = HeaderLine(l)
        /\ \A i \in 1 .. Len(l.joined) : ReplyLines(l)[1 + i] = A[i]
        /\ \A i \in 1 .. Len(l.invited) : ReplyLines(l)[1 + Len(l.joined) + i] = B[i]
    <3>1. /\ Len(H \o A \o B) = Len(H) + Len(A) + Len(B)
          /\ \A i \in 1 .. Len(H) : (H \o A \o B)[i] = H[i]
          /\ \A i \in 1 .. Len(A) : (H \o A \o B)[Len(H) + i] = A[i]
          /\ \A i \in 1 .. Len(B) : (H \o A \o B)[Len(H) + Len(A) + i] = B[i]
      <4>1. H \in Seq(Line) /\ A \in Seq(Line) /\ B \in Seq(Line)
        BY <2>5, <2>6
      <4> QED
        BY <4>1, ThreeParts
    <3>2. 1 \in 1 .. Len(H)
      BY <2>5
    <3> QED
      BY <2>5, <2>6, <2>7, <3>1, <3>2
  <2> QED
    BY <2>2, <2>8 DEF Size, A, B
<1> QED
  BY <1>1, <1>2

LEMMA InitFlow == FeedInit => FlowInv
<1> SUFFICES ASSUME FeedInit PROVE FlowInv
  OBVIOUS
<1> DEFINE mark == [i \in Nat |-> [of |-> NoLobby, at |-> 1]]
<1>1. mark \in [Nat -> Mark] /\ FlowLen = 0 /\ current = <<>> /\ pending = <<>> /\ shown = NoLobby
  BY DEF FeedInit, Init, FlowLen, Mark
<1>2. \A i \in Nat : mark[i].of = NoLobby /\ mark[i].at = 1
  OBVIOUS
<1> HIDE DEF mark
<1>3. mark[0].of = NoLobby /\ mark[0].at = 1 /\ Size(NoLobby) = 1
  BY <1>2, ReplyShape
<1>4. Holds(mark[0].of, mark[0].at) /\ shown = mark[0].of
  BY <1>1, <1>3 DEF Holds
<1>5. \A i \in 0 .. FlowLen : mark[i].at \in 1 .. Size(mark[i].of)
  <2>1. \A i \in 0 .. FlowLen : i = 0
    BY <1>1
  <2>2. mark[0].at \in 1 .. Size(mark[0].of)
    BY <1>3
  <2> QED
    BY <2>1, <2>2
<1>6. mark[FlowLen].at = Size(mark[FlowLen].of)
  BY <1>1, <1>3
<1>7. \A i \in 1 .. FlowLen : FALSE
  BY <1>1
<1>8. Follow(mark)
  BY <1>1, <1>4, <1>5, <1>6, <1>7 DEF Follow
<1> QED
  BY <1>8 DEF FlowInv

\* Steps that neither add a line nor take one.
LEMMA SameFlow ==
  ASSUME FlowInv, shown' = Interrupted \/ UNCHANGED <<current, pending, shown>>,
         FlowLen' = FlowLen, \A i \in 1 .. FlowLen : FlowLine(i)' = FlowLine(i)
  PROVE FlowInv'
<1>1. PICK mark : Follow(mark)
  BY DEF FlowInv
<1>2. Follow(mark)'
  BY <1>1 DEF Follow, Holds
<1> QED
  BY <1>2 DEF FlowInv

\* ParseLine moves a line from one queue to the end of the other.
LEMMA ParseFlow == QueuesOK /\ FlowInv /\ ParseLine => FlowInv'
<1> SUFFICES ASSUME QueuesOK, FlowInv, ParseLine PROVE FlowInv'
  OBVIOUS
<1>1. /\ mainQueue \in Seq(Line) /\ parseQueue \in Seq(Line) /\ parseQueue # <<>>
      /\ mainQueue' = Append(mainQueue, Head(parseQueue)) /\ parseQueue' = Tail(parseQueue)
  BY DEF QueuesOK, ParseLine
<1>2. /\ Len(mainQueue) \in Nat /\ Len(parseQueue) \in Nat \ {0}
      /\ Len(mainQueue') = Len(mainQueue) + 1 /\ Len(parseQueue') = Len(parseQueue) - 1
  BY <1>1
<1>3. /\ \A i \in 1 .. Len(mainQueue) : mainQueue'[i] = mainQueue[i]
      /\ mainQueue'[Len(mainQueue) + 1] = parseQueue[1]
      /\ \A i \in 1 .. Len(parseQueue) - 1 : parseQueue'[i] = parseQueue[i + 1]
  BY <1>1
<1>4. FlowLen' = FlowLen /\ FlowLen \in Nat
  BY <1>2 DEF FlowLen
<1>5. ASSUME NEW i \in 1 .. FlowLen PROVE FlowLine(i)' = FlowLine(i)
  <2>1. CASE i <= Len(mainQueue)
    BY <1>2, <1>3, <2>1 DEF FlowLine
  <2>2. CASE i = Len(mainQueue) + 1
    BY <1>2, <1>3, <2>2 DEF FlowLine
  <2>3. CASE i > Len(mainQueue) + 1
    <3>1. i - Len(mainQueue) - 1 \in 1 .. Len(parseQueue) - 1
      BY <1>2, <2>3 DEF FlowLen
    <3>2. parseQueue'[i - Len(mainQueue) - 1] = parseQueue[i - Len(mainQueue)]
      BY <1>2, <1>3, <3>1
    <3> QED
      BY <1>2, <2>3, <3>2 DEF FlowLine
  <2> QED
    BY <1>2, <2>1, <2>2, <2>3
<1>6. UNCHANGED <<current, pending, shown>>
  BY DEF ParseLine, vars
<1> QED
  BY <1>4, <1>5, <1>6, SameFlow

\* ProcessReply puts a whole reply at the end.
LEMMA ReplyFlow == QueuesOK /\ FlowInv /\ ProcessReply => FlowInv'
<1> SUFFICES ASSUME QueuesOK, FlowInv, ProcessReply PROVE FlowInv'
  OBVIOUS
<1>1. PICK mark : Follow(mark)
  BY DEF FlowInv
<1>2. PICK l \in Lobbies \union {NoLobby} : l = Head(replies)
  BY DEF QueuesOK, ProcessReply
<1>3. /\ parseQueue \in Seq(Line) /\ ReplyLines(l) \in Seq(Line) /\ Len(mainQueue) \in Nat
      /\ parseQueue' = parseQueue \o ReplyLines(l)
      /\ UNCHANGED <<mainQueue, current, pending, shown>>
  BY <1>2, RepliesAreLines DEF QueuesOK, ProcessReply, vars
<1>4. /\ Len(parseQueue) \in Nat /\ Size(l) \in Nat
      /\ Len(parseQueue') = Len(parseQueue) + Size(l)
  BY <1>3 DEF Size
<1>5. /\ \A i \in 1 .. Len(parseQueue) : parseQueue'[i] = parseQueue[i]
      /\ \A i \in 1 .. Size(l) : parseQueue'[Len(parseQueue) + i] = ReplyLines(l)[i]
  BY <1>3, TwoParts DEF Size
<1>6. PICK n \in Nat : n = FlowLen /\ FlowLen' = n + Size(l)
  BY <1>3, <1>4 DEF FlowLen
<1>7. ASSUME NEW i \in 1 .. n PROVE FlowLine(i)' = FlowLine(i)
  <2>1. CASE i <= Len(mainQueue)
    BY <1>3, <2>1 DEF FlowLine
  <2>2. CASE i > Len(mainQueue)
    <3>1. i - Len(mainQueue) \in 1 .. Len(parseQueue)
      BY <1>3, <1>4, <1>6, <2>2 DEF FlowLen
    <3> QED
      BY <1>3, <1>5, <2>2, <3>1 DEF FlowLine
  <2> QED
    BY <1>3, <2>1, <2>2
<1>8. ASSUME NEW i \in 1 .. Size(l) PROVE FlowLine(n + i)' = ReplyLines(l)[i]
  <2>1. ~(n + i <= Len(mainQueue)) /\ n + i - Len(mainQueue) = Len(parseQueue) + i
    <3>1. n = Len(mainQueue) + Len(parseQueue)
      BY <1>6 DEF FlowLen
    <3> QED
      BY <3>1, <1>3, <1>4
  <2>2. UNCHANGED mainQueue
    BY <1>3
  <2>3. FlowLine(n + i)' = parseQueue'[n + i - Len(mainQueue)]
    BY <2>1, <2>2 DEF FlowLine
  <2>4. parseQueue'[Len(parseQueue) + i] = ReplyLines(l)[i]
    BY <1>5
  <2> QED
    BY <2>1, <2>3, <2>4
<1>9. PICK next : next = [i \in Nat |-> IF i <= n THEN mark[i] ELSE [of |-> l, at |-> i - n]]
  OBVIOUS
<1>10. /\ \A i \in 0 .. n : next[i] = mark[i]
       /\ \A i \in 1 .. Size(l) : next[n + i] = [of |-> l, at |-> i]
  BY <1>6, <1>4, <1>9
<1>11. next \in [Nat -> Mark]
  <2>1. mark \in [Nat -> Mark]
    BY <1>1 DEF Follow
  <2>2. ASSUME NEW i \in Nat PROVE (IF i <= n THEN mark[i] ELSE [of |-> l, at |-> i - n]) \in Mark
    <3>1. CASE i <= n
      BY <2>1, <3>1
    <3>2. CASE ~(i <= n)
      <4>1. i - n \in Nat
        BY <1>6, <3>2
      <4> QED
        BY <4>1, <3>2 DEF Mark
    <3> QED
      BY <3>1, <3>2
  <2> QED
    BY <1>9, <2>2
<1>12. ASSUME NEW i \in 0 .. n + Size(l) PROVE i \in 0 .. n \/ \E k \in 1 .. Size(l) : i = n + k
  <2>1. CASE i <= n
    BY <1>4, <1>6, <2>1
  <2>2. CASE i > n
    <3>1. i - n \in 1 .. Size(l) /\ i = n + (i - n)
      BY <1>4, <1>6, <2>2
    <3> QED
      BY <3>1
  <2> QED
    BY <1>4, <1>6, <2>1, <2>2
<1>13. \A i \in 0 .. n + Size(l) : next[i].at \in 1 .. Size(next[i].of)
  <2>1. \A i \in 0 .. n : next[i].at \in 1 .. Size(next[i].of)
    <3>1. \A i \in 0 .. n : mark[i].at \in 1 .. Size(mark[i].of)
      BY <1>1, <1>6 DEF Follow
    <3> QED
      BY <1>10, <3>1
  <2>2. ASSUME NEW k \in 1 .. Size(l) PROVE next[n + k].at \in 1 .. Size(next[n + k].of)
    <3>1. next[n + k] = [of |-> l, at |-> k]
      BY <1>10
    <3>2. next[n + k].of = l /\ next[n + k].at = k
      BY <3>1
    <3> QED
      BY <3>2
  <2> QED
    BY <1>12, <2>1, <2>2
<1>14. Size(l) \in Nat \ {0}
  <2>1. CASE l = NoLobby
    BY <2>1, ReplyShape
  <2>2. CASE l # NoLobby
    <3>1. l \in Lobbies \ {NoLobby}
      BY <2>2
    <3>2. Len(l.joined) \in 0 .. MaxSlots /\ Len(l.invited) \in 0 .. MaxSlots
      BY <3>1, LobbySizes
    <3>3. Size(l) = 1 + Len(l.joined) + Len(l.invited)
      BY <3>1, ReplyShape
    <3>4. \A a, b \in 0 .. MaxSlots : 1 + a + b \in Nat \ {0}
      OBVIOUS
    <3> QED
      BY <3>2, <3>3, <3>4
  <2> QED
    BY <2>1, <2>2
<1>15. next[n + Size(l)].at = Size(next[n + Size(l)].of)
  <2>1. next[n + Size(l)] = [of |-> l, at |-> Size(l)]
    BY <1>10, <1>14
  <2>2. next[n + Size(l)].of = l /\ next[n + Size(l)].at = Size(l)
    BY <2>1
  <2> QED
    BY <2>2
<1>16. ASSUME NEW i \in 1 .. n + Size(l)
       PROVE /\ FlowLine(i)' = ReplyLines(next[i].of)[next[i].at]
             /\ Follows(next[i - 1], next[i])
  <2>1. CASE i \in 1 .. n
    <3>1. i - 1 \in 0 .. n /\ i \in 0 .. n
      BY <1>6, <2>1
    <3>2. FlowLine(i) = ReplyLines(mark[i].of)[mark[i].at] /\ Follows(mark[i - 1], mark[i])
      BY <1>1, <1>6, <2>1 DEF Follow
    <3> QED
      BY <1>7, <1>10, <2>1, <3>1, <3>2
  <2>2. ASSUME NEW k \in 1 .. Size(l), i = n + k
        PROVE FlowLine(i)' = ReplyLines(next[i].of)[next[i].at]
    <3>1. next[i] = [of |-> l, at |-> k]
      BY <1>10, <2>2
    <3>2. next[i].of = l /\ next[i].at = k
      BY <3>1
    <3> QED
      BY <1>8, <2>2, <3>2
  <2>3. CASE i = n + 1
    <3>1. next[i].at = 1 /\ next[i - 1] = mark[n]
      <4>1. i - 1 = n /\ n \in 0 .. n /\ 1 \in 1 .. Size(l)
        BY <1>6, <1>14, <2>3
      <4>2. next[i] = [of |-> l, at |-> 1]
        BY <1>10, <2>3, <4>1
      <4> QED
        BY <1>10, <4>1, <4>2
    <3>2. mark[n].at = Size(mark[n].of) /\ mark[n].at \in Nat
      BY <1>1, <1>6 DEF Follow, Mark
    <3>3. ~(mark[n].at < Size(mark[n].of))
      BY <3>2
    <3> QED
      BY <1>14, <2>2, <2>3, <3>1, <3>3 DEF Follows
  <2>4. ASSUME NEW k \in 2 .. Size(l), i = n + k PROVE Follows(next[i - 1], next[i])
    <3>1. i - 1 = n + (k - 1) /\ k - 1 \in 1 .. Size(l) /\ k - 1 < Size(l) /\ k \in 1 .. Size(l)
      BY <1>6, <1>14, <2>4
    <3>2. next[i - 1] = [of |-> l, at |-> k - 1] /\ next[i] = [of |-> l, at |-> k]
      BY <1>10, <2>4, <3>1
    <3> QED
      BY <3>1, <3>2 DEF Follows
  <2>5. i \in 1 .. n \/ i = n + 1 \/ \E k \in 2 .. Size(l) : i = n + k
    <3>1. i \in 0 .. n \/ \E k \in 1 .. Size(l) : i = n + k
      BY <1>6, <1>12, <1>14
    <3> QED
      BY <1>6, <1>14, <3>1
  <2>6. ASSUME NEW k \in 2 .. Size(l), i = n + k PROVE k \in 1 .. Size(l)
    BY <1>14
  <2> QED
    BY <2>1, <2>2, <2>3, <2>4, <2>5, <2>6
<1>17. shown' # Interrupted => shown' = next[0].of /\ Holds(next[0].of, next[0].at)'
  <2>1. next[0] = mark[0]
    BY <1>6, <1>10
  <2>2. shown # Interrupted => shown = mark[0].of /\ Holds(mark[0].of, mark[0].at)
    BY <1>1 DEF Follow
  <2>3. shown # Interrupted => shown = next[0].of /\ Holds(next[0].of, next[0].at)
    BY <2>1, <2>2
  <2> QED
    BY <1>3, <2>3 DEF Holds
<1>18. Follow(next)'
  <2>1. FlowLen' = n + Size(l)
    BY <1>6
  <2> QED
    BY <1>11, <1>13, <1>15, <1>16, <1>17, <2>1 DEF Follow
<1> QED
  BY <1>18 DEF FlowInv

\* A lobby's vectors are finite.
LEMMA LobbyLens ==
  ASSUME NEW l \in Lobbies
  PROVE /\ l.joined \in Seq(SteamID) /\ Len(l.joined) \in Nat
        /\ l.invited \in Seq(SteamID) /\ Len(l.invited) \in Nat
  BY LobbySizes

\* What a line of the reply about l does to the vectors: the header fits them to
\* the lobby, and each member that follows takes its slot.
LEMMA HeaderHolds ==
  ASSUME TypeOK, NEW l \in Lobbies \ {NoLobby}, ApplyLine(HeaderLine(l))
  PROVE Holds(l, 1)'
<1>1. LobbyHeader(Len(l.joined), Len(l.invited))
  BY DEF ApplyLine, HeaderLine
<1>2. Len(l.joined) \in Nat /\ Len(l.invited) \in Nat
  BY LobbyLens
<1>3. /\ Len(current') = Len(l.joined) /\ Len(pending') = Len(l.invited)
  BY <1>1, <1>2 DEF LobbyHeader, Resize
<1>4. \A i \in 1 .. Len(l.joined) : ~(i + 1 <= 1)
  OBVIOUS
<1>5. \A i \in 1 .. Len(l.invited) : ~(i + 1 + Len(l.joined) <= 1)
  <2>1. \A a, b \in Nat : \A i \in 1 .. b : ~(i + 1 + a <= 1)
    OBVIOUS
  <2> QED
    BY <1>2, <2>1
<1> QED
  BY <1>3, <1>4, <1>5 DEF Holds

LEMMA MemberHolds ==
  ASSUME TypeOK, NEW l \in Lobbies \ {NoLobby}, NEW p \in Nat, p \in 1 .. Size(l) - 1,
         Holds(l, p), ApplyLine(ReplyLines(l)[p + 1])
  PROVE Holds(l, p + 1)'
<1>1. /\ current \in Seq(Slot) /\ pending \in Seq(Slot)
      /\ Len(l.joined) \in Nat /\ Len(l.invited) \in Nat
      /\ l.joined \in Seq(SteamID) /\ l.invited \in Seq(SteamID)
  BY LobbyLens DEF TypeOK
<1>2. /\ Len(current) = Len(l.joined) /\ Len(pending) = Len(l.invited)
      /\ \A i \in 1 .. Len(l.joined) : i + 1 <= p => current[i] = l.joined[i]
      /\ \A i \in 1 .. Len(l.invited) :
           i + 1 + Len(l.joined) <= p => pending[i] = l.invited[i]
  BY DEF Holds
<1>3. Size(l) = 1 + Len(l.joined) + Len(l.invited)
  BY ReplyShape
<1>4. CASE p <= Len(l.joined)
  <2>1. ReplyLines(l)[p + 1] = MemberLine(l.joined, p, FALSE)
    <3>1. p \in 1 .. Len(l.joined) /\ 1 + p = p + 1
      BY <1>1, <1>4
    <3>2. ReplyLines(l)[1 + p] = MemberLine(l.joined, p, FALSE)
      BY <3>1, ReplyShape
    <3> QED
      BY <3>1, <3>2
  <2>2. LobbyMember(l.joined[p], p, FALSE)
    <3>1. ApplyLine(MemberLine(l.joined, p, FALSE))
      BY <2>1
    <3> QED
      BY <3>1 DEF ApplyLine, MemberLine
  <2>3. p \in DOMAIN current
    BY <1>1, <1>2, <1>4
  <2>4. current' = [current EXCEPT ![p] = l.joined[p]] /\ pending' = pending
    BY <2>2, <2>3 DEF LobbyMember
  <2>5. Len(current') = Len(l.joined)
    BY <1>1, <1>2, <2>4
  <2>6. ASSUME NEW i \in 1 .. Len(l.joined), i + 1 <= p + 1 PROVE current'[i] = l.joined[i]
    <3>1. CASE i = p
      BY <1>1, <2>3, <2>4, <3>1
    <3>2. CASE i # p
      <4>1. i + 1 <= p /\ i \in DOMAIN current
        BY <1>1, <1>2, <2>6, <3>2
      <4> QED
        BY <1>1, <1>2, <2>4, <3>2, <4>1
    <3> QED
      BY <3>1, <3>2
  <2>7. ASSUME NEW i \in 1 .. Len(l.invited), i + 1 + Len(l.joined) <= p + 1 PROVE FALSE
    <3>1. \A a \in Nat : p <= a => ~(i + 1 + a <= p + 1)
      OBVIOUS
    <3> QED
      BY <1>1, <1>4, <2>7, <3>1
  <2>8. Len(pending') = Len(l.invited)
    BY <1>2, <2>4
  <2> QED
    BY <2>5, <2>6, <2>7, <2>8 DEF Holds
<1>5. CASE p > Len(l.joined)
  <2>1. PICK k \in 1 .. Len(l.invited) : p = Len(l.joined) + k
    <3>1. p - Len(l.joined) \in 1 .. Len(l.invited) /\ p = Len(l.joined) + (p - Len(l.joined))
      <4>1. \A a, b \in Nat : p \in 1 .. (1 + a + b) - 1 /\ p > a
              => p - a \in 1 .. b /\ p = a + (p - a)
        OBVIOUS
      <4> QED
        BY <1>1, <1>3, <1>5, <4>1
    <3> QED
      BY <3>1
  <2>2. ReplyLines(l)[1 + Len(l.joined) + k] = MemberLine(l.invited, k, TRUE)
    BY ReplyShape
  <2>3. 1 + Len(l.joined) + k = p + 1
    BY <1>1, <2>1
  <2>4. LobbyMember(l.invited[k], k, TRUE)
    <3>1. ApplyLine(MemberLine(l.invited, k, TRUE))
      BY <2>2, <2>3
    <3> QED
      BY <3>1 DEF ApplyLine, MemberLine
  <2>5. k \in DOMAIN pending
    BY <1>1, <1>2
  <2>6. pending' = [pending EXCEPT ![k] = l.invited[k]] /\ current' = current
    BY <2>4, <2>5 DEF LobbyMember
  <2>7. Len(pending') = Len(l.invited) /\ Len(current') = Len(l.joined)
    BY <1>1, <1>2, <2>6
  <2>8. ASSUME NEW i \in 1 .. Len(l.invited), i + 1 + Len(l.joined) <= p + 1
        PROVE pending'[i] = l.invited[i]
    <3>1. CASE i = k
      BY <1>1, <2>5, <2>6, <3>1
    <3>2. CASE i # k
      <4>1. i + 1 + Len(l.joined) <= p /\ i \in DOMAIN pending
        <5>1. \A a \in Nat : i + 1 + a <= a + k + 1 /\ i # k => i + 1 + a <= a + k
          OBVIOUS
        <5>2. i + 1 + Len(l.joined) <= Len(l.joined) + k + 1
          BY <2>1, <2>8
        <5>3. i + 1 + Len(l.joined) <= Len(l.joined) + k
          BY <1>1, <3>2, <5>1, <5>2
        <5>4. i \in DOMAIN pending
          BY <1>1, <1>2
        <5> QED
          BY <2>1, <5>3, <5>4
      <4> QED
        BY <1>1, <1>2, <2>6, <3>2, <4>1
    <3> QED
      BY <3>1, <3>2
  <2>9. ASSUME NEW i \in 1 .. Len(l.joined), i + 1 <= p + 1 PROVE current'[i] = l.joined[i]
    <3>1. i + 1 <= p
      BY <1>1, <1>5, <2>1
    <3> QED
      BY <1>2, <2>6, <3>1
  <2> QED
    BY <2>7, <2>8, <2>9 DEF Holds
<1> QED
  BY <1>1, <1>4, <1>5

\* DispatchLine applies the first line under way.
LEMMA DispatchFlow == TypeOK /\ QueuesOK /\ FlowInv /\ DispatchLine => FlowInv'
<1> SUFFICES ASSUME TypeOK, QueuesOK, FlowInv, DispatchLine PROVE FlowInv'
  OBVIOUS
<1>1. PICK mark : Follow(mark)
  BY DEF FlowInv
<1>2. PICK line : line = Head(mainQueue)
  OBVIOUS
<1>3. /\ mainQueue \in Seq(Line) /\ mainQueue # <<>> /\ Len(parseQueue) \in Nat
      /\ mainQueue' = Tail(mainQueue) /\ UNCHANGED parseQueue
      /\ ApplyLine(line)
      /\ shown' = CASE line.kind = "header" -> line.lobby
                    [] line.kind = "failed" -> NoLobby
                    [] OTHER -> shown
  BY <1>2 DEF QueuesOK, DispatchLine
<1>4. /\ Len(mainQueue) \in Nat \ {0} /\ Len(mainQueue') = Len(mainQueue) - 1
      /\ mainQueue[1] = line
      /\ \A i \in 1 .. Len(mainQueue) - 1 : mainQueue'[i] = mainQueue[i + 1]
  BY <1>2, <1>3
<1>5. PICK n \in Nat \ {0} : n = FlowLen /\ FlowLen' = n - 1
  BY <1>3, <1>4 DEF FlowLen
<1>6. ASSUME NEW i \in 1 .. n - 1 PROVE FlowLine(i)' = FlowLine(i + 1)
  <2>1. CASE i <= Len(mainQueue) - 1
    BY <1>3, <1>4, <2>1 DEF FlowLine
  <2>2. CASE i > Len(mainQueue) - 1
    <3>1. /\ ~(i <= Len(mainQueue')) /\ ~(i + 1 <= Len(mainQueue))
          /\ i - Len(mainQueue') = i + 1 - Len(mainQueue)
      BY <1>4, <1>5, <2>2
    <3> QED
      BY <1>3, <3>1 DEF FlowLine
  <2> QED
    BY <1>4, <2>1, <2>2
<1>7. PICK next : next = [i \in Nat |-> mark[i + 1]]
  OBVIOUS
<1>8. /\ mark \in [Nat -> Mark]
      /\ \A i \in 0 .. n : mark[i].at \in 1 .. Size(mark[i].of)
      /\ \A i \in 1 .. n : /\ FlowLine(i) = ReplyLines(mark[i].of)[mark[i].at]
                           /\ Follows(mark[i - 1], mark[i])
      /\ mark[n].at = Size(mark[n].of)
      /\ shown # Interrupted => shown = mark[0].of /\ Holds(mark[0].of, mark[0].at)
  BY <1>1, <1>5 DEF Follow
<1>9. \A i \in Nat : next[i] = mark[i + 1]
  BY <1>7
<1>10. next \in [Nat -> Mark]
  BY <1>7, <1>8
<1>11. \A i \in 0 .. n - 1 : next[i].at \in 1 .. Size(next[i].of)
  <2> SUFFICES ASSUME NEW i \in 0 .. n - 1 PROVE next[i].at \in 1 .. Size(next[i].of)
    OBVIOUS
  <2>1. i \in Nat /\ i + 1 \in 0 .. n
    BY <1>5
  <2> QED
    BY <1>8, <1>9, <2>1
<1>12. ASSUME NEW i \in 1 .. n - 1
       PROVE /\ FlowLine(i)' = ReplyLines(next[i].of)[next[i].at]
             /\ Follows(next[i - 1], next[i])
  <2>1. i \in Nat /\ i - 1 \in Nat /\ i + 1 \in 1 .. n /\ (i - 1) + 1 = i /\ (i + 1) - 1 = i
    BY <1>5
  <2>2. next[i] = mark[i + 1] /\ next[i - 1] = mark[i]
    BY <1>9, <2>1
  <2>3. FlowLine(i + 1) = ReplyLines(mark[i + 1].of)[mark[i + 1].at]
    BY <1>8, <2>1
  <2>4. Follows(mark[i], mark[i + 1])
    BY <1>8, <2>1
  <2> QED
    BY <1>6, <2>2, <2>3, <2>4
<1>13. next[n - 1].at = Size(next[n - 1].of)
  <2>1. n - 1 \in Nat /\ (n - 1) + 1 = n
    BY <1>5
  <2> QED
    BY <1>8, <1>9, <2>1
<1>14. PICK a, b \in Mark : a = mark[0] /\ b = mark[1]
  BY <1>8
<1>15. line = ReplyLines(b.of)[b.at] /\ Follows(a, b) /\ b.at \in 1 .. Size(b.of)
       /\ b.of \in Lobbies \union {NoLobby} /\ next[0] = b /\ a.at \in 1 .. Size(a.of)
  <2>1. FlowLine(1) = line /\ 1 \in 1 .. n /\ 1 \in 0 .. n /\ 0 \in 0 .. n /\ 1 - 1 = 0 /\ 0 + 1 = 1
    BY <1>4, <1>5 DEF FlowLine
  <2>2. line = ReplyLines(b.of)[b.at] /\ Follows(a, b)
    BY <1>8, <1>14, <2>1
  <2>3. b.at \in 1 .. Size(b.of) /\ a.at \in 1 .. Size(a.of)
    BY <1>8, <1>14, <2>1
  <2>4. next[0] = b
    BY <1>9, <1>14, <2>1
  <2> QED
    BY <2>2, <2>3, <2>4 DEF Mark
<1>16. shown' # Interrupted => shown' = b.of /\ Holds(b.of, b.at)'
  <2>1. CASE b.of = NoLobby
    <3>1. line = FailedLine
      BY <1>15, <2>1, ReplyShape
    <3>2. LobbyStatusFailed
      BY <1>3, <3>1 DEF ApplyLine, FailedLine
    <3>3. current' = <<>> /\ pending' = <<>>
      BY <3>2 DEF LobbyStatusFailed, ClearLobbyState
    <3>4. shown' = NoLobby
      BY <1>3, <3>1 DEF FailedLine
    <3> QED
      BY <2>1, <3>3, <3>4 DEF Holds
  <2>2. ASSUME NEW l \in Lobbies \ {NoLobby}, b.of = l, b.at = 1
        PROVE shown' = l /\ Holds(l, 1)'
    <3>1. line = HeaderLine(l)
      BY <1>15, <2>2, ReplyShape
    <3>2. shown' = l
      BY <1>3, <3>1 DEF HeaderLine
    <3>3. ApplyLine(HeaderLine(l))
      BY <1>3, <3>1
    <3> QED
      BY <3>2, <3>3, HeaderHolds
  <2>3. ASSUME NEW l \in Lobbies \ {NoLobby}, b.of = l, b.at # 1, shown' # Interrupted
        PROVE shown' = l /\ Holds(l, b.at)'
    <3>1. a.at \in Nat /\ a.of = l /\ b.at = a.at + 1 /\ a.at < Size(l)
      BY <1>14, <1>15, <2>3 DEF Follows, Mark
    <3>2. /\ Size(l) = 1 + Len(l.joined) + Len(l.invited)
          /\ Len(l.joined) \in Nat /\ Len(l.invited) \in Nat
      BY ReplyShape, LobbyLens
    <3>3. a.at \in 1 .. Size(l) - 1
      <4>1. Size(l) \in Nat
        <5>1. \A x, y \in Nat : 1 + x + y \in Nat
          OBVIOUS
        <5> QED
          BY <3>2, <5>1
      <4>2. a.at \in 1 .. Size(l)
        BY <1>15, <3>1
      <4> QED
        BY <3>1, <4>1, <4>2
    <3>4. line.kind = "member"
      <4>1. CASE a.at <= Len(l.joined)
        <5>1. a.at \in 1 .. Len(l.joined) /\ 1 + a.at = b.at
          BY <3>1, <3>2, <3>3, <4>1
        <5>2. line = MemberLine(l.joined, a.at, FALSE)
          BY <1>15, <2>3, <5>1, ReplyShape
        <5> QED
          BY <5>2 DEF MemberLine
      <4>2. CASE a.at > Len(l.joined)
        <5>1. /\ a.at - Len(l.joined) \in 1 .. Len(l.invited)
              /\ 1 + Len(l.joined) + (a.at - Len(l.joined)) = b.at
          <6>1. \A x, y \in Nat : a.at \in 1 .. (1 + x + y) - 1 /\ a.at > x
                  => a.at - x \in 1 .. y /\ 1 + x + (a.at - x) = a.at + 1
            BY <3>1
          <6> QED
            BY <3>1, <3>2, <3>3, <4>2, <6>1
        <5>2. line = MemberLine(l.invited, a.at - Len(l.joined), TRUE)
          BY <1>15, <2>3, <5>1, ReplyShape
        <5> QED
          BY <5>2 DEF MemberLine
      <4> QED
        BY <3>1, <3>2, <4>1, <4>2
    <3>5. shown' = shown
      BY <1>3, <3>4
    <3>6. shown = l /\ Holds(l, a.at)
      BY <1>8, <1>14, <2>3, <3>1, <3>5
    <3>7. ApplyLine(ReplyLines(l)[a.at + 1])
      BY <1>3, <1>15, <2>3, <3>1
    <3>8. Holds(l, a.at + 1)'
      BY <3>1, <3>3, <3>6, <3>7, MemberHolds
    <3> QED
      BY <3>1, <3>5, <3>6, <3>8
  <2> QED
    BY <1>15, <2>1, <2>2, <2>3
<1>17. Follow(next)'
  <2>1. FlowLen' = n - 1 /\ next[0] = b
    BY <1>5, <1>15
  <2>2. shown' # Interrupted => shown' = next[0].of /\ Holds(next[0].of, next[0].at)'
    BY <1>15, <1>16
  <2> QED
    BY <2>1, <2>2, <1>10, <1>11, <1>12, <1>13 DEF Follow
<1> QED
  BY <1>17 DEF FlowInv

LEMMA NextFlow == TypeOK /\ QueuesOK /\ FlowInv /\ [FeedNext]_feedVars => FlowInv'
<1> SUFFICES ASSUME TypeOK, QueuesOK, FlowInv, [FeedNext]_feedVars PROVE FlowInv'
  OBVIOUS
<1>1. CASE GameChanges \/ PollAnswered \/ TogglePreview \/ UNCHANGED feedVars
  <2>1. UNCHANGED <<current, pending, shown, mainQueue, parseQueue>>
    BY <1>1 DEF GameChanges, PollAnswered, TogglePreview, feedVars, vars
  <2> QED
    BY <2>1, SameFlow DEF FlowLen, FlowLine
<1>2. CASE ReadLogLine
  <2>1. shown' = Interrupted /\ UNCHANGED <<mainQueue, parseQueue>>
    BY <1>2 DEF ReadLogLine
  <2> QED
    BY <2>1, SameFlow DEF FlowLen, FlowLine
<1> QED
  BY <1>1, <1>2, ParseFlow, ReplyFlow, DispatchFlow DEF FeedNext

\* AddConsoleOutputChunk, the one parsing thread and the dispatcher keep a reply's
\* lines in order: once all are applied, the two lobby vectors are what the game
\* printed, unless a log line cleared the lobby in between.
THEOREM LobbyAlwaysMatchesReply == FeedSpec => []LobbyMatchesReply
<1>1. QueuesOK /\ TypeOK /\ FlowInv => LobbyMatchesReply
  <2> SUFFICES ASSUME QueuesOK, TypeOK, FlowInv,
                      parseQueue = <<>>, mainQueue = <<>>, shown # Interrupted
               PROVE Shows(shown)
    BY DEF LobbyMatchesReply
  <2>1. PICK mark : Follow(mark)
    BY DEF FlowInv
  <2>2. FlowLen = 0
    BY DEF FlowLen
  <2>3. PICK l, p : l = mark[0].of /\ p = mark[0].at
    OBVIOUS
  <2>4. shown = l /\ Holds(l, p) /\ p = Size(l) /\ l \in Lobbies \union {NoLobby}
    BY <2>1, <2>2, <2>3 DEF Follow, Mark
  <2>5. CASE l = NoLobby
    BY <2>4, <2>5 DEF Holds, Shows
  <2>6. CASE l # NoLobby
    <3>1. /\ l \in Lobbies \ {NoLobby} /\ p = 1 + Len(l.joined) + Len(l.invited)
          /\ Len(l.joined) \in Nat /\ Len(l.invited) \in Nat
          /\ l.joined \in Seq(SteamID) /\ l.invited \in Seq(SteamID)
          /\ current \in Seq(Slot) /\ pending \in Seq(Slot)
      <4>1. l \in Lobbies \ {NoLobby}
        BY <2>4, <2>6
      <4>2. p = 1 + Len(l.joined) + Len(l.invited)
        BY <2>4, <4>1, ReplyShape
      <4>3. current \in Seq(Slot) /\ pending \in Seq(Slot)
        BY DEF TypeOK
      <4> QED
        BY <4>1, <4>2, <4>3, LobbyLens
    <3>2. /\ Len(current) = Len(l.joined) /\ Len(pending) = Len(l.invited)
          /\ \A i \in 1 .. Len(l.joined) : i + 1 <= p => current[i] = l.joined[i]
          /\ \A i \in 1 .. Len(l.invited) :
               i + 1 + Len(l.joined) <= p => pending[i] = l.invited[i]
      BY <2>4, <2>6 DEF Holds
    <3>3. /\ \A i \in 1 .. Len(l.joined) : current[i] = l.joined[i]
          /\ \A i \in 1 .. Len(l.invited) : pending[i] = l.invited[i]
      <4>1. \A a, b \in Nat : /\ \A i \in 1 .. a : i + 1 <= 1 + a + b
                              /\ \A i \in 1 .. b : i + 1 + a <= 1 + a + b
        OBVIOUS
      <4> QED
        BY <3>1, <3>2, <4>1
    <3>4. current = l.joined
      BY <3>1, <3>2, <3>3
    <3>5. pending = l.invited
      BY <3>1, <3>2, <3>3
    <3> QED
      BY <2>4, <2>6, <3>4, <3>5 DEF Shows
  <2> QED
    BY <2>5, <2>6
<1>2. FeedSpec => []TypeOK
  BY FeedImplementsLobby, TypeCorrect, PTL DEF LobbySpec
<1> QED
  BY <1>1, <1>2, InitQueues, NextQueues, InitFlow, NextFlow, PTL DEF FeedSpec
================================================================================
