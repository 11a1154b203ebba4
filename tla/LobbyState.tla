----------------------------- MODULE LobbyState -----------------------------
(***************************************************************************)
(* The part of WorldState that says who is in the match: the two lobby     *)
(* vectors filled by the lines of `tf_lobby_debug`, the table of players   *)
(* those lines, `status`, the G15 dump and the answers of the Steam        *)
(* services create, and the time of the last status seen for each player.  *)
(* Every action is one case of WorldState::OnConsoleLineParsed, or one     *)
(* other entry point of WorldState that creates players.  All of them run  *)
(* on the main thread, so each is atomic.                                  *)
(*                                                                         *)
(* Left to ServerSession: the connection flag, map, host name, vote and    *)
(* scores.  A lobby slot keeps the SteamID of its LobbyMember only.        *)
(***************************************************************************)
EXTENDS Naturals, Sequences

CONSTANTS
  SteamID,          \* the accounts that can appear
  NoMember,         \* the value-initialised LobbyMember of a fresh slot
  MaxSlots,         \* bound: the largest vector a lobby header announces
  MaxTime,          \* bound: the clock stops here
  Api,              \* the batched Steam services: summaries, bans, SourceBans
  LazyLoadAPIData   \* the setting of that name

ASSUME LobbyAssumption ==
  /\ NoMember \notin SteamID
  /\ MaxSlots \in Nat
  /\ MaxTime \in Nat
  /\ LazyLoadAPIData \in BOOLEAN

VARIABLES
  current,           \* m_CurrentLobbyMembers
  pending,           \* m_PendingLobbyMembers
  players,           \* the keys of m_CurrentPlayerData
  updated,           \* Player::m_LastStatusUpdateTime, 0 the clock's epoch
  lastStatusUpdate,  \* WorldState::m_LastStatusUpdateTime
  lookups,           \* the ids queued for each batched service
  now                \* WorldState::GetCurrentTime

vars == <<current, pending, players, updated, lastStatusUpdate, lookups, now>>

Slot == SteamID \union {NoMember}
Epoch == 0

\* Mutant of Resize: a fresh slot is whatever the memory held.
ResizeUninitialised(vec, n) == [i \in 1 .. n |-> IF i <= Len(vec) THEN vec[i] ELSE n]

\* std::vector<LobbyMember>::resize: keep a prefix, value-initialise the rest.
Resize(vec, n) == [i \in 1 .. n |-> IF i <= Len(vec) THEN vec[i] ELSE NoMember]

\* The valid members of a lobby vector.
MembersOf(vec) == {vec[i] : i \in DOMAIN vec} \ {NoMember}

\* The accounts GetLobbyMembers yields, each of which it looks up in the table.
LobbyMembers == MembersOf(current) \union (MembersOf(pending) \ MembersOf(current))

-----------------------------------------------------------------------------

\* FindOrCreatePlayer for each account of ids.  A player that is created asks for
\* its Steam data at once unless the data is loaded lazily.
FindOrCreatePlayers(ids) ==
  /\ players' = players \union ids
  /\ lookups' = IF LazyLoadAPIData THEN lookups
                ELSE [api \in Api |-> lookups[api] \union (ids \ players)]

\* Mutant of ClearLobbyState: the pending members are forgotten about.
ClearKeepsPending ==
  /\ current' = <<>>
  /\ players' = {}
  /\ updated' = [id \in SteamID |-> Epoch]
  /\ UNCHANGED pending

\* ClearLobbyState: both vectors and every Player object go.
ClearLobbyState ==
  /\ current' = <<>>
  /\ pending' = <<>>
  /\ players' = {}
  /\ updated' = [id \in SteamID |-> Epoch]

Init ==
  /\ current = <<>>
  /\ pending = <<>>
  /\ players = {}
  /\ updated = [id \in SteamID |-> Epoch]
  /\ lastStatusUpdate = Epoch
  /\ lookups = [api \in Api |-> {}]
  /\ now = 1

\* "CTFLobbyShared: ID:...  m member(s), p pending"
LobbyHeader(m, p) ==
  /\ current' = Resize(current, m)
  /\ pending' = Resize(pending, p)
  /\ UNCHANGED <<players, updated, lastStatusUpdate, lookups, now>>

\* "Member[i] [U:1:...]" or "Pending[i] ...": a slot outside the announced
\* vector is ignored, the player is created either way.
LobbyMember(id, index, isPending) ==
  /\ IF isPending
     THEN /\ pending' = IF index \in DOMAIN pending THEN [pending EXCEPT ![index] = id]
                                                    ELSE pending
          /\ UNCHANGED current
     ELSE /\ current' = IF index \in DOMAIN current THEN [current EXCEPT ![index] = id]
                                                    ELSE current
          /\ UNCHANGED pending
  /\ FindOrCreatePlayers({id})
  /\ UNCHANGED <<updated, lastStatusUpdate, now>>

\* Mutant of LobbyStatusFailed: a lobby counts only with members of both kinds.
FailedNeedsBoth ==
  /\ IF current # <<>> /\ pending # <<>>
     THEN ClearLobbyState
     ELSE UNCHANGED <<current, pending, players, updated>>
  /\ UNCHANGED <<lastStatusUpdate, lookups, now>>

\* "Failed to find lobby shared object": forget the lobby if we believe in one.
LobbyStatusFailed ==
  /\ IF current # <<>> \/ pending # <<>>
     THEN ClearLobbyState
     ELSE UNCHANGED <<current, pending, players, updated>>
  /\ UNCHANGED <<lastStatusUpdate, lookups, now>>

\* "Lobby created": everything known about the previous match is dropped.
LobbyCreated ==
  /\ ClearLobbyState
  /\ UNCHANGED <<lastStatusUpdate, lookups, now>>

\* Mutant of PlayerStatusLine: an early return for known players skips the world's time.
StatusLineOfKnownUntimed(id, ts) ==
  /\ FindOrCreatePlayers({id})
  /\ updated' = [updated EXCEPT ![id] = ts]
  /\ lastStatusUpdate' = IF ts > lastStatusUpdate /\ id \notin players THEN ts
                                                                    ELSE lastStatusUpdate
  /\ UNCHANGED <<current, pending, now>>

\* One player line of `status`, stamped ts when its text was parsed.
PlayerStatusLine(id, ts) ==
  /\ FindOrCreatePlayers({id})
  /\ updated' = [updated EXCEPT ![id] = ts]
  /\ lastStatusUpdate' = IF ts > lastStatusUpdate THEN ts ELSE lastStatusUpdate
  /\ UNCHANGED <<current, pending, now>>

\* ApplyG15Dump: every player of the dump that has an account and a user id.
ApplyG15Dump(ids) ==
  /\ FindOrCreatePlayers(ids)
  /\ updated' = [id \in SteamID |-> IF id \in ids THEN now ELSE updated[id]]
  /\ lastStatusUpdate' = IF ids # {} /\ now > lastStatusUpdate THEN now ELSE lastStatusUpdate
  /\ UNCHANGED <<current, pending, now>>

\* A view asks a known player for a service's data for the first time.
QueueLookup(api, id) ==
  /\ id \in players
  /\ lookups' = [lookups EXCEPT ![api] = @ \union {id}]
  /\ UNCHANGED <<current, pending, players, updated, lastStatusUpdate, now>>

\* OnDataReady: the players a batched answer names are found or created again,
\* whatever became of the lobby since they were asked about, and leave the queue.
LookupAnswered(api, ids) ==
  /\ ids # {} /\ ids \subseteq lookups[api]
  /\ players' = players \union ids
  /\ lookups' = [other \in Api |->
                   IF other = api THEN lookups[api] \ ids
                   ELSE IF LazyLoadAPIData THEN lookups[other]
                   ELSE lookups[other] \union (ids \ players)]
  /\ UNCHANGED <<current, pending, updated, lastStatusUpdate, now>>

Tick ==
  /\ now < MaxTime
  /\ now' = now + 1
  /\ UNCHANGED <<current, pending, players, updated, lastStatusUpdate, lookups>>

LobbyLine ==
  \/ \E m, p \in 0 .. MaxSlots : LobbyHeader(m, p)
  \/ \E id \in SteamID, index \in 1 .. MaxSlots, isPending \in BOOLEAN :
        LobbyMember(id, index, isPending)
  \/ LobbyStatusFailed
  \/ LobbyCreated

Next ==
  \/ LobbyLine
  \/ \E id \in SteamID, ts \in 1 .. now : PlayerStatusLine(id, ts)
  \/ \E ids \in SUBSET SteamID : ApplyG15Dump(ids)
  \/ \E api \in Api, id \in SteamID : QueueLookup(api, id)
  \/ \E api \in Api, ids \in SUBSET SteamID : LookupAnswered(api, ids)
  \/ Tick

Spec == Init /\ [][Next]_vars

-----------------------------------------------------------------------------
(* Properties *)

\* Every variable has its type, and no vector of slots outgrows the largest one
\* a header announces.
TypeOK ==
  /\ current \in Seq(Slot) /\ Len(current) <= MaxSlots
  /\ pending \in Seq(Slot) /\ Len(pending) <= MaxSlots
  /\ players \subseteq SteamID
  /\ updated \in [SteamID -> Nat]
  /\ lastStatusUpdate \in Nat
  /\ lookups \in [Api -> SUBSET SteamID]
  /\ now \in Nat

\* Every valid lobby slot, current or pending, names a player of the table:
\* GetLobbyMembers, which the moderator runs every second, never throws
\* "Missing player for lobby member!" however headers, members, clears and
\* late Steam answers interleave.
LobbyMembersKnown == LobbyMembers \subseteq players

\* The world's last status time is never behind a player's: HandleG15Reply and
\* the scoreboard compare the two to tell a live server from the main menu.
LastStatusIsLatest == \A id \in players : updated[id] <= lastStatusUpdate
=============================================================================
