-------------------------- MODULE HttpClientProofs --------------------------
(***************************************************************************)
(* For any number of callers, endpoints, hosts, pool threads and kinds of  *)
(* error, and any intervals: the slots of a host stay apart and nothing    *)
(* goes to the pool before its slot, the pool's queue holds each request   *)
(* once, and every request is a future.                                    *)
(***************************************************************************)
EXTENDS HttpClient, FiniteSetTheorems, TLAPS

Phases == {"empty"} \union UnderWay \union Settled

\* The part of HttpTypeOK the slots depend on.
SlotTypeOK ==
  /\ phase \in [Caller -> Phases]
  /\ url \in [Caller -> Endpoint]
  /\ due \in [Caller -> Int]
  /\ nextSlot \in [Hosts -> Int]
  /\ lastSlot \in [Hosts -> Int]
  /\ lastGap \in [Hosts -> Nat]

\* The next slot is where the last one and its interval put it, unless that moment
\* is over.
NextSlotOf(h) ==
  \/ nextSlot[h] = lastSlot[h] + lastGap[h] /\ nextSlot[h] >= 0
  \/ nextSlot[h] = -1 /\ lastSlot[h] + lastGap[h] <= 0

SlotInv == SlotTypeOK /\ \A h \in Hosts : NextSlotOf(h)

\* What the assumption says of one endpoint.
LEMMA Intervals ==
  ASSUME NEW e \in Endpoint
  PROVE  HostOf[e] \in Hosts /\ MinInterval[e] \in Nat
  BY HttpAssumption DEF HttpAssumption, Hosts

\* A client that has just been created satisfies the invariant.
LEMMA InitSlotInv == HttpInit => SlotInv
<1> SUFFICES ASSUME HttpInit PROVE SlotInv
  OBVIOUS
<1>1. (CHOOSE e \in Endpoint : TRUE) \in Endpoint
  BY HttpAssumption DEF HttpAssumption
<1>2. SlotTypeOK
  BY <1>1 DEF HttpInit, SlotTypeOK, Phases
<1>3. ASSUME NEW h \in Hosts PROVE NextSlotOf(h)
  BY DEF HttpInit, NextSlotOf
<1> QED
  BY <1>2, <1>3 DEF SlotInv

\* Taking a slot keeps the invariant, and the slot is as far from the last one as
\* the request that has that one asked for.
LEMMA ReserveKeepsApart ==
  ASSUME SlotInv, NEW c \in Caller, NEW e \in Endpoint, Reserve(c, e)
  PROVE  /\ phase' \in [Caller -> Phases] /\ due' \in [Caller -> Int]
         /\ nextSlot' \in [Hosts -> Int] /\ lastSlot' \in [Hosts -> Int]
         /\ lastGap' \in [Hosts -> Nat]
         /\ \A h \in Hosts : NextSlotOf(h)'
         /\ due'[c] - lastSlot[HostOf[e]] >= lastGap[HostOf[e]]
         /\ \A d \in Caller \ {c} : phase'[d] = phase[d]
         /\ phase'[c] = "queued" => due'[c] = 0
<1> DEFINE h == HostOf[e]
           slot == IF nextSlot[h] < 0 THEN 0 ELSE nextSlot[h]
<1>1. h \in Hosts /\ MinInterval[e] \in Nat
  BY Intervals
<1>2. /\ nextSlot[h] \in Int /\ lastSlot[h] \in Int /\ lastGap[h] \in Nat
      /\ NextSlotOf(h)
  BY <1>1 DEF SlotInv, SlotTypeOK
<1>3. slot \in Int /\ slot >= 0 /\ slot - lastSlot[h] >= lastGap[h]
  BY <1>2 DEF NextSlotOf
<1> HIDE DEF slot
<1>4. /\ nextSlot' = [nextSlot EXCEPT ![h] = slot + MinInterval[e]]
      /\ lastSlot' = [lastSlot EXCEPT ![h] = slot]
      /\ lastGap' = [lastGap EXCEPT ![h] = MinInterval[e]]
      /\ due' = [due EXCEPT ![c] = slot]
      /\ \/ slot = 0 /\ phase' = [phase EXCEPT ![c] = "queued"]
         \/ phase' = [phase EXCEPT ![c] = "throttled"]
  BY DEF Reserve, SlotAfter, slot
<1> HIDE DEF h
<1>5. /\ nextSlot' \in [Hosts -> Int] /\ lastSlot' \in [Hosts -> Int]
      /\ lastGap' \in [Hosts -> Nat] /\ due' \in [Caller -> Int]
      /\ due'[c] = slot
  BY <1>1, <1>3, <1>4 DEF SlotInv, SlotTypeOK
<1>6. /\ phase' \in [Caller -> Phases] /\ \A d \in Caller \ {c} : phase'[d] = phase[d]
      /\ phase'[c] = "queued" => due'[c] = 0
  BY <1>4, <1>5 DEF SlotInv, SlotTypeOK, Phases, UnderWay, Delayed
<1>7. ASSUME NEW g \in Hosts PROVE NextSlotOf(g)'
  <2>1. CASE g = h
    <3>1. nextSlot'[g] = slot + MinInterval[e] /\ lastSlot'[g] = slot /\ lastGap'[g] = MinInterval[e]
      BY <1>1, <1>4, <2>1 DEF SlotInv, SlotTypeOK
    <3> QED
      BY <1>1, <1>3, <3>1 DEF NextSlotOf
  <2>2. CASE g # h
    <3>1. nextSlot'[g] = nextSlot[g] /\ lastSlot'[g] = lastSlot[g] /\ lastGap'[g] = lastGap[g]
      BY <1>4, <2>2 DEF SlotInv, SlotTypeOK
    <3> QED
      BY <3>1 DEF NextSlotOf, SlotInv
  <2> QED
    BY <2>1, <2>2
<1> QED
  BY <1>3, <1>5, <1>6, <1>7 DEF h

\* When time passes the next slot and the last one come nearer alike, until both
\* moments are over.
LEMMA TickKeepsApart == SlotInv /\ HttpTick => SlotInv'
<1> SUFFICES ASSUME SlotInv, HttpTick PROVE SlotInv'
  OBVIOUS
<1>1. SlotTypeOK'
  BY DEF HttpTick, SlotInv, SlotTypeOK
<1>2. ASSUME NEW h \in Hosts PROVE NextSlotOf(h)'
  <2>1. /\ nextSlot'[h] = IF nextSlot[h] >= 0 THEN nextSlot[h] - 1 ELSE -1
        /\ lastSlot'[h] = IF lastSlot[h] > -lastGap[h] THEN lastSlot[h] - 1 ELSE -lastGap[h]
        /\ lastGap'[h] = lastGap[h]
    BY DEF HttpTick
  <2>2. nextSlot[h] \in Int /\ lastSlot[h] \in Int /\ lastGap[h] \in Nat /\ NextSlotOf(h)
    BY DEF SlotInv, SlotTypeOK
  <2> QED
    BY <2>1, <2>2 DEF NextSlotOf
<1> QED
  BY <1>1, <1>2 DEF SlotInv

\* What SlotsApart says of one step.
Apart ==
  \A c \in Caller :
    /\ GetsSlot(c) =>
         LET h == HostOf[url'[c]] IN due'[c] - lastSlot[h] >= lastGap[h]
    /\ phase[c] # "queued" /\ phase'[c] = "queued" => due'[c] = 0

\* A step in which nobody gets a slot or goes to the pool shows nothing else.
NoneMoves ==
  \A c \in Caller : ~GetsSlot(c) /\ (phase'[c] = "queued" => phase[c] = "queued")

LEMMA RestIsApart == NoneMoves => Apart
  BY DEF NoneMoves, Apart

\* Every step of the client keeps the invariant and the distance.
LEMMA NextApart == SlotInv /\ [HttpNext]_httpVars => SlotInv' /\ Apart
<1> SUFFICES ASSUME SlotInv, [HttpNext]_httpVars PROVE SlotInv' /\ Apart
  OBVIOUS
<1>1. ASSUME NEW c \in Caller, NEW e \in Endpoint, Ask(c, e)
      PROVE SlotInv' /\ Apart
  <2>1. url' = [url EXCEPT ![c] = e] /\ Reserve(c, e)
    BY <1>1 DEF Ask
  <2>2. SlotInv'
    BY <2>1, ReserveKeepsApart DEF SlotInv, SlotTypeOK
  <2>3. url'[c] = e
    BY <2>1 DEF SlotInv, SlotTypeOK
  <2>4. ASSUME NEW d \in Caller, d # c PROVE ~GetsSlot(d) /\ phase'[d] = phase[d]
    BY <2>1, <2>4, ReserveKeepsApart DEF GetsSlot
  <2> QED
    BY <2>1, <2>2, <2>3, <2>4, ReserveKeepsApart DEF Apart
<1>2. ASSUME NEW c \in Caller, Resume(c)
      PROVE SlotInv' /\ Apart
  <2>1. CASE phase[c] = "throttled" /\ SlotReached(c)
    <3>1. SlotInv'
      BY <2>1 DEF SlotReached, SlotInv, SlotTypeOK, NextSlotOf, Phases, UnderWay
    <3>2. ASSUME NEW d \in Caller PROVE ~GetsSlot(d)
      BY <2>1 DEF SlotReached, GetsSlot, SlotInv, SlotTypeOK
    <3>3. /\ due'[c] = 0
          /\ \A d \in Caller \ {c} : phase'[d] = phase[d]
      BY <1>2, <2>1 DEF Resume, SlotReached, SlotInv, SlotTypeOK
    <3> QED
      BY <3>1, <3>2, <3>3 DEF Apart
  <2>2. CASE Reserve(c, url[c]) /\ UNCHANGED url
    <3>1. url[c] \in Endpoint /\ url'[c] = url[c]
      BY <2>2 DEF SlotInv, SlotTypeOK
    <3>2. SlotInv'
      BY <2>2, <3>1, ReserveKeepsApart DEF SlotInv, SlotTypeOK
    <3>3. ASSUME NEW d \in Caller, d # c PROVE ~GetsSlot(d) /\ phase'[d] = phase[d]
      BY <2>2, <3>1, <3>3, ReserveKeepsApart DEF GetsSlot
    <3> QED
      BY <2>2, <3>1, <3>2, <3>3, ReserveKeepsApart DEF Apart
  <2> QED
    BY <1>2, <2>1, <2>2 DEF Resume
<1>3. ASSUME NEW c \in Caller, TransferDone(c) \/ Drop(c)
      PROVE SlotInv' /\ Apart
  <2>1. \E p \in {"value", "exception", "backoff", "empty"} : phase' = [phase EXCEPT ![c] = p]
    BY <1>3 DEF TransferDone, Drop
  <2>2. /\ UNCHANGED <<url, nextSlot, lastSlot, lastGap>>
        /\ due' = due \/ due' = [due EXCEPT ![c] = RetryDelay]
    BY <1>3 DEF TransferDone, Drop
  <2>3. RetryDelay \in Int
    BY HttpAssumption DEF HttpAssumption
  <2>4. SlotInv'
    BY <2>1, <2>2, <2>3 DEF SlotInv, SlotTypeOK, NextSlotOf, Phases, UnderWay, Delayed, Settled
  <2>5. NoneMoves
    BY <2>1 DEF NoneMoves, GetsSlot, SlotInv, SlotTypeOK
  <2> QED
    BY <2>4, <2>5, RestIsApart
<1>4. CASE StartTransfer
  <2>1. phase' = [phase EXCEPT ![Head(pool)] = "running"]
        /\ UNCHANGED <<url, due, nextSlot, lastSlot, lastGap>>
    BY <1>4 DEF StartTransfer
  <2>2. SlotInv'
    BY <2>1 DEF SlotInv, SlotTypeOK, NextSlotOf, Phases, UnderWay
  <2>3. NoneMoves
    BY <2>1 DEF NoneMoves, GetsSlot, SlotInv, SlotTypeOK
  <2> QED
    BY <2>2, <2>3, RestIsApart
<1>5. CASE HttpTick \/ UNCHANGED httpVars
  <2>1. SlotInv'
    BY <1>5, TickKeepsApart DEF httpVars, SlotInv, SlotTypeOK, NextSlotOf
  <2>2. NoneMoves
    BY <1>5 DEF NoneMoves, HttpTick, httpVars, GetsSlot
  <2> QED
    BY <2>1, <2>2, RestIsApart
<1> QED
  BY <1>1, <1>2, <1>3, <1>4, <1>5 DEF HttpNext

\* GetStringAsync keeps the distance GetMinRequestInterval asks for between the slots
\* of any two requests or tries to one host, whichever threads reserve them, and
\* hands no transfer to the pool before its slot.
THEOREM SlotsAlwaysApart == HttpSpec => SlotsApart
<1>1. SlotInv /\ [HttpNext]_httpVars => [Apart]_httpVars
  BY NextApart
<1>2. SlotInv /\ [HttpNext]_httpVars => SlotInv'
  BY NextApart
<1> QED
  BY <1>1, <1>2, InitSlotInv, PTL DEF HttpSpec, SlotsApart, Apart

-----------------------------------------------------------------------------
(* Types, and the queue of the pool *)

\* The pool's queue holds the callers that are "queued", each once.
PoolInv ==
  /\ pool \in Seq(Caller)
  /\ \A i \in DOMAIN pool : phase[pool[i]] = "queued"
  /\ \A i, j \in DOMAIN pool : pool[i] = pool[j] => i = j
  /\ \A c \in Caller : phase[c] = "queued" => \E i \in DOMAIN pool : pool[i] = c

\* What HttpTypeOK says of the other variables.
ValuesOK ==
  /\ phase \in [Caller -> Phases]
  /\ url \in [Caller -> Endpoint]
  /\ due \in [Caller -> Nat]
  /\ retries \in [Caller -> Nat]
  /\ nextSlot \in [Hosts -> Int]
  /\ lastSlot \in [Hosts -> Int]
  /\ lastGap \in [Hosts -> 0 .. MaxInterval]

HttpInv == ValuesOK /\ PoolInv

LEMMA InvGivesTypes == HttpInv => HttpTypeOK
<1> SUFFICES ASSUME HttpInv, NEW c \in Caller
             PROVE  Cardinality({i \in DOMAIN pool : pool[i] = c}) = IF phase[c] = "queued" THEN 1 ELSE 0
  BY DEF HttpInv, ValuesOK, PoolInv, HttpTypeOK, Phases
<1>1. CASE phase[c] = "queued"
  <2>1. PICK i \in DOMAIN pool : pool[i] = c
    BY <1>1 DEF HttpInv, PoolInv
  <2>2. {j \in DOMAIN pool : pool[j] = c} = {i}
    BY <2>1 DEF HttpInv, PoolInv
  <2> QED
    BY <1>1, <2>2, FS_Singleton
<1>2. CASE phase[c] # "queued"
  <2>1. {j \in DOMAIN pool : pool[j] = c} = {}
    BY <1>2 DEF HttpInv, PoolInv
  <2> QED
    BY <1>2, <2>1, FS_EmptySet
<1> QED
  BY <1>1, <1>2

LEMMA InitHttpInv == HttpInit => HttpInv
<1> SUFFICES ASSUME HttpInit PROVE HttpInv
  OBVIOUS
<1>1. (CHOOSE e \in Endpoint : TRUE) \in Endpoint
  BY HttpAssumption
<1>2. ValuesOK
  BY <1>1, HttpAssumption DEF HttpInit, ValuesOK, Phases
<1>3. PoolInv
  BY DEF HttpInit, PoolInv
<1> QED
  BY <1>2, <1>3 DEF HttpInv

\* A request that goes to the pool is added to its queue.
LEMMA JoinsPool ==
  ASSUME HttpInv, NEW c \in Caller, phase[c] # "queued",
         phase' = [phase EXCEPT ![c] = "queued"], pool' = Append(pool, c)
  PROVE  PoolInv'
<1> DEFINE new == Len(pool) + 1
<1>1. pool \in Seq(Caller) /\ phase \in [Caller -> Phases]
  BY DEF HttpInv, PoolInv, ValuesOK
<1>2. /\ pool' \in Seq(Caller) /\ DOMAIN pool' = DOMAIN pool \union {new} /\ new \notin DOMAIN pool
      /\ pool'[new] = c /\ \A i \in DOMAIN pool : pool'[i] = pool[i] /\ pool[i] \in Caller
  BY <1>1
<1> HIDE DEF new
<1>3. \A i \in DOMAIN pool : pool[i] # c
  BY DEF HttpInv, PoolInv
<1>4. \A i \in DOMAIN pool' : phase'[pool'[i]] = "queued"
  BY <1>1, <1>2 DEF HttpInv, PoolInv
<1>5. \A i, j \in DOMAIN pool' : pool'[i] = pool'[j] => i = j
  BY <1>2, <1>3 DEF HttpInv, PoolInv
<1>6. \A d \in Caller : phase'[d] = "queued" => \E i \in DOMAIN pool' : pool'[i] = d
  BY <1>1, <1>2 DEF HttpInv, PoolInv
<1> QED
  BY <1>2, <1>4, <1>5, <1>6 DEF PoolInv

\* The oldest request leaves the queue when a thread takes it.
LEMMA LeavesPool ==
  ASSUME HttpInv, pool # <<>>,
         phase' = [phase EXCEPT ![Head(pool)] = "running"], pool' = Tail(pool)
  PROVE  PoolInv' /\ Head(pool) \in Caller
<1>1. pool \in Seq(Caller) /\ phase \in [Caller -> Phases]
  BY DEF HttpInv, PoolInv, ValuesOK
<1>2. /\ pool' \in Seq(Caller) /\ 1 \in DOMAIN pool /\ Head(pool) = pool[1]
      /\ \A i \in DOMAIN pool' : i + 1 \in DOMAIN pool /\ i + 1 # 1 /\ pool'[i] = pool[i + 1]
      /\ \A i \in DOMAIN pool : i # 1 => i - 1 \in DOMAIN pool' /\ pool'[i - 1] = pool[i]
  BY <1>1
<1>3. \A i \in DOMAIN pool' : pool'[i] \in Caller /\ pool'[i] # pool[1] /\ phase[pool'[i]] = "queued"
  BY <1>1, <1>2 DEF HttpInv, PoolInv
<1>4. \A i \in DOMAIN pool' : phase'[pool'[i]] = "queued"
  BY <1>1, <1>2, <1>3
<1>5. ASSUME NEW i \in DOMAIN pool', NEW j \in DOMAIN pool', pool'[i] = pool'[j]
      PROVE  i = j
  <2>1. i + 1 = j + 1
    BY <1>2, <1>5 DEF HttpInv, PoolInv
  <2> QED
    BY <1>2, <2>1
<1>6. ASSUME NEW d \in Caller, phase'[d] = "queued"
      PROVE  \E i \in DOMAIN pool' : pool'[i] = d
  <2>1. d # pool[1] /\ phase[d] = "queued"
    BY <1>1, <1>2, <1>6
  <2>2. PICK i \in DOMAIN pool : pool[i] = d
    BY <2>1 DEF HttpInv, PoolInv
  <2> QED
    BY <1>2, <2>1, <2>2
<1> QED
  BY <1>1, <1>2, <1>4, <1>5, <1>6 DEF PoolInv

\* Any other change of a request leaves the queue alone.
LEMMA OutsidePool ==
  ASSUME HttpInv, NEW c \in Caller, NEW p, phase[c] # "queued", p # "queued",
         phase' = [phase EXCEPT ![c] = p], pool' = pool
  PROVE  PoolInv'
BY DEF HttpInv, ValuesOK, PoolInv

LEMMA ReserveKeepsTypes ==
  ASSUME HttpInv, NEW c \in Caller, NEW e \in Endpoint, phase[c] # "queued", Reserve(c, e),
         url' \in [Caller -> Endpoint], retries' \in [Caller -> Nat]
  PROVE  HttpInv'
<1> DEFINE slot == IF nextSlot[HostOf[e]] < 0 THEN 0 ELSE nextSlot[HostOf[e]]
<1>1. HostOf[e] \in Hosts /\ MinInterval[e] \in 0 .. MaxInterval /\ MaxInterval \in Nat
  BY HttpAssumption DEF Hosts
<1>2. slot \in Nat
  BY <1>1 DEF HttpInv, ValuesOK
<1> HIDE DEF slot
<1>3. /\ nextSlot' = [nextSlot EXCEPT ![HostOf[e]] = slot + MinInterval[e]]
      /\ lastSlot' = [lastSlot EXCEPT ![HostOf[e]] = slot]
      /\ lastGap' = [lastGap EXCEPT ![HostOf[e]] = MinInterval[e]]
      /\ due' = [due EXCEPT ![c] = slot]
      /\ \/ phase' = [phase EXCEPT ![c] = "queued"] /\ pool' = Append(pool, c)
         \/ phase' = [phase EXCEPT ![c] = "throttled"] /\ pool' = pool
  BY DEF Reserve, SlotAfter, slot
<1>4. ValuesOK'
  <2>1. phase' \in [Caller -> Phases]
    BY <1>3 DEF HttpInv, ValuesOK, Phases, UnderWay, Delayed
  <2>2. due' \in [Caller -> Nat]
    BY <1>2, <1>3 DEF HttpInv, ValuesOK
  <2>3. slot + MinInterval[e] \in Int /\ slot \in Int
    BY <1>1, <1>2
  <2>4. nextSlot' \in [Hosts -> Int] /\ lastSlot' \in [Hosts -> Int]
    BY <1>3, <2>3 DEF HttpInv, ValuesOK
  <2>5. lastGap' \in [Hosts -> 0 .. MaxInterval]
    BY <1>1, <1>3 DEF HttpInv, ValuesOK
  <2> QED
    BY <2>1, <2>2, <2>4, <2>5 DEF ValuesOK
<1>5. PoolInv'
  BY <1>3, JoinsPool, OutsidePool
<1> QED
  BY <1>4, <1>5 DEF HttpInv

LEMMA NextHttpInv == HttpInv /\ [HttpNext]_httpVars => HttpInv'
<1> SUFFICES ASSUME HttpInv, [HttpNext]_httpVars PROVE HttpInv'
  OBVIOUS
<1>0. ValuesOK /\ PoolInv
  BY DEF HttpInv
<1>1. ASSUME NEW c \in Caller, NEW e \in Endpoint, Ask(c, e)
      PROVE  HttpInv'
  <2>1. url' \in [Caller -> Endpoint] /\ retries' \in [Caller -> Nat] /\ phase[c] # "queued"
    BY <1>0, <1>1 DEF Ask, ValuesOK
  <2> QED
    BY <1>1, <2>1, ReserveKeepsTypes DEF Ask
<1>2. ASSUME NEW c \in Caller, Resume(c)
      PROVE  HttpInv'
  <2>1. CASE phase[c] = "throttled" /\ SlotReached(c)
    <3>1. PoolInv'
      BY <2>1, JoinsPool DEF SlotReached
    <3>2. ValuesOK'
      BY <1>0, <2>1 DEF SlotReached, ValuesOK, Phases, UnderWay
    <3> QED
      BY <3>1, <3>2 DEF HttpInv
  <2>2. CASE phase[c] = "backoff" /\ retries' = [retries EXCEPT ![c] = @ + 1] /\ Reserve(c, url[c]) /\ UNCHANGED url
    <3>1. url[c] \in Endpoint /\ url' \in [Caller -> Endpoint] /\ retries' \in [Caller -> Nat]
      BY <1>0, <2>2 DEF ValuesOK
    <3> QED
      BY <2>2, <3>1, ReserveKeepsTypes
  <2> QED
    BY <1>2, <2>1, <2>2 DEF Resume
<1>3. CASE StartTransfer
  <2>1. PoolInv' /\ Head(pool) \in Caller
    BY <1>3, LeavesPool DEF StartTransfer
  <2>2. ValuesOK'
    BY <1>0, <1>3, <2>1 DEF StartTransfer, ValuesOK, Phases, UnderWay
  <2> QED
    BY <2>1, <2>2 DEF HttpInv
<1>4. ASSUME NEW c \in Caller, TransferDone(c) \/ Drop(c)
      PROVE  HttpInv'
  <2>1. PICK p \in {"value", "exception", "backoff", "empty"} : phase' = [phase EXCEPT ![c] = p]
    BY <1>4 DEF TransferDone, Drop
  <2>2. phase[c] # "queued" /\ pool' = pool
    BY <1>4 DEF TransferDone, Drop, Settled
  <2>3. PoolInv'
    BY <2>1, <2>2, OutsidePool
  <2>4. /\ UNCHANGED <<url, nextSlot, lastSlot, lastGap>>
        /\ due' = due \/ due' = [due EXCEPT ![c] = RetryDelay]
        /\ retries' = retries \/ retries' = [retries EXCEPT ![c] = 0]
    BY <1>4 DEF TransferDone, Drop
  <2>5. ValuesOK'
    BY <1>0, <2>1, <2>4, HttpAssumption DEF ValuesOK, Phases, UnderWay, Delayed, Settled
  <2> QED
    BY <2>3, <2>5 DEF HttpInv
<1>5. CASE HttpTick
  <2>1. PoolInv'
    BY <1>0, <1>5 DEF HttpTick, PoolInv
  <2>2. ValuesOK'
    <3>1. \A h \in Hosts : lastGap[h] \in Nat /\ lastSlot[h] \in Int
      BY <1>0, HttpAssumption DEF ValuesOK
    <3> QED
      BY <1>0, <1>5, <3>1 DEF HttpTick, ValuesOK
  <2> QED
    BY <2>1, <2>2 DEF HttpInv
<1>6. CASE UNCHANGED httpVars
  BY <1>0, <1>6 DEF httpVars, HttpInv, ValuesOK, PoolInv
<1> QED
  BY <1>1, <1>2, <1>3, <1>4, <1>5, <1>6 DEF HttpNext

\* A request is queued for the HTTP pool once or not at all, and every variable of
\* GetStringAsync has its type.
THEOREM HttpTypeCorrect == HttpSpec => []HttpTypeOK
  BY InitHttpInv, NextHttpInv, InvGivesTypes, PTL DEF HttpSpec

-----------------------------------------------------------------------------
(* A request is a future *)

\* A step of the client changes at most one request.
LEMMA StepsOfRequests ==
  ASSUME HttpInv, [HttpNext]_httpVars
  PROVE  [Task!Next]_taskState
<1> DEFINE State(p) == IF p \in UnderWay THEN "running" ELSE p
<1>0. phase \in [Caller -> Phases]
  BY DEF HttpInv, ValuesOK
<1>1. ASSUME NEW c \in Caller, NEW p, phase' = [phase EXCEPT ![c] = p]
      PROVE  taskState' = [taskState EXCEPT ![c] = State(p)] /\ taskState[c] = State(phase[c])
  BY <1>0, <1>1 DEF taskState
<1>2. ASSUME UNCHANGED phase
      PROVE  UNCHANGED taskState
  BY <1>2 DEF taskState
<1>3. ASSUME NEW c \in Caller, NEW e \in Endpoint, Ask(c, e)
      PROVE  Task!Ask(c)
  <2>1. PICK p \in {"queued", "throttled"} : phase' = [phase EXCEPT ![c] = p]
    BY <1>3 DEF Ask, Reserve
  <2>2. State(p) = "running" /\ State(phase[c]) = "empty"
    BY <1>3, <2>1 DEF Ask, UnderWay, Delayed
  <2> QED
    BY <1>1, <2>1, <2>2 DEF Task!Ask
<1>4. ASSUME NEW c \in Caller, phase[c] \in UnderWay, NEW p \in UnderWay, phase' = [phase EXCEPT ![c] = p]
      PROVE  UNCHANGED taskState
  BY <1>0, <1>4 DEF taskState
<1>5. ASSUME NEW c \in Caller, Resume(c)
      PROVE  UNCHANGED taskState
  <2>1. PICK p \in {"queued", "throttled"} : phase' = [phase EXCEPT ![c] = p]
    BY <1>5 DEF Resume, SlotReached, Reserve
  <2>2. phase[c] \in UnderWay /\ p \in UnderWay
    BY <1>5, <2>1 DEF Resume, UnderWay, Delayed
  <2> QED
    BY <1>4, <2>1, <2>2
<1>6. CASE StartTransfer
  <2>1. Head(pool) \in Caller /\ phase[Head(pool)] = "queued"
    BY <1>6 DEF StartTransfer, HttpInv, PoolInv
  <2>2. phase' = [phase EXCEPT ![Head(pool)] = "running"]
    BY <1>6 DEF StartTransfer
  <2> QED
    BY <1>4, <2>1, <2>2 DEF UnderWay
<1>7. ASSUME NEW c \in Caller, TransferDone(c)
      PROVE  Task!Settle(c) \/ UNCHANGED taskState
  <2>1. PICK p \in {"value", "exception", "backoff"} : phase' = [phase EXCEPT ![c] = p]
    BY <1>7 DEF TransferDone
  <2>2. phase[c] \in UnderWay
    BY <1>7 DEF TransferDone, UnderWay
  <2>3. CASE p = "backoff"
    BY <1>4, <2>1, <2>2, <2>3 DEF UnderWay, Delayed
  <2>4. CASE p \in {"value", "exception"}
    <3>1. State(p) = p /\ State(phase[c]) = "running"
      BY <2>2, <2>4 DEF UnderWay, Delayed
    <3> QED
      BY <1>1, <2>1, <2>4, <3>1 DEF Task!Settle
  <2> QED
    BY <2>1, <2>3, <2>4
<1>8. ASSUME NEW c \in Caller, Drop(c)
      PROVE  Task!Drop(c)
  <2>1. phase' = [phase EXCEPT ![c] = "empty"] /\ State("empty") = "empty" /\ State(phase[c]) # "empty"
    BY <1>8 DEF Drop, Settled, UnderWay, Delayed
  <2> QED
    BY <1>1, <2>1 DEF Task!Drop
<1>9. HttpTick \/ UNCHANGED httpVars => UNCHANGED phase
  BY DEF HttpTick, httpVars
<1> QED
  BY <1>2, <1>3, <1>5, <1>6, <1>7, <1>8, <1>9 DEF HttpNext, Task!Next

\* GetStringAsync: a request begins empty and only ever makes the steps of a future,
\* whatever mixture of errors and retries.  That it settles is left to TLC.
THEOREM RequestsAreFutures == HttpSpec => Task!Init /\ [][Task!Next]_taskState
<1>1. HttpInit => Task!Init
  BY DEF HttpInit, Task!Init, taskState, UnderWay, Delayed
<1> QED
  BY <1>1, InitHttpInv, NextHttpInv, StepsOfRequests, PTL DEF HttpSpec
=============================================================================
