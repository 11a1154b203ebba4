------------------------------ MODULE HttpClient ------------------------------
(***************************************************************************)
(* HTTPClientImpl::GetStringAsync: requests reserve slots in time, one     *)
(* series per host; one that has to wait for its slot, or for another try, *)
(* is a delayed task of the main thread's dispatcher; the transfer itself  *)
(* runs on a pool of threads.  The servers are external.                   *)
(*                                                                         *)
(* Moments are kept relative to now and stop counting once nothing asks    *)
(* how long ago they were.                                                 *)
(***************************************************************************)
EXTENDS Integers, Sequences, FiniteSets

CONSTANTS
  Caller,       \* the coroutines that may await a request, one each at a time
  Endpoint,     \* the kinds of URL asked for
  HostOf,       \* m_Host of each endpoint
  MinInterval,  \* GetMinRequestInterval of each endpoint, in ticks
  MaxInterval,  \* the longest of them
  Errors,       \* the ways a transfer fails
  Tries,        \* the retryCount from which each of them ends the request
  RetryDelay,   \* retryDelayTime, in ticks
  Threads       \* threads of the HTTP pool

ASSUME HttpAssumption ==
  /\ Endpoint # {}
  /\ MaxInterval \in Nat
  /\ MinInterval \in [Endpoint -> 0 .. MaxInterval]
  /\ Tries \in [Errors -> Nat]
  /\ RetryDelay \in Nat \ {0}
  /\ Threads \in Nat \ {0}

VARIABLES
  phase,     \* where each caller's request stands
  url,       \* the endpoint it goes to
  due,       \* time until its delay is over
  retries,   \* retryCount
  pool,      \* requests queued for the HTTP pool
  nextSlot,  \* s_ThrottleDomains, relative to now; -1 for the past
  lastSlot,  \* auxiliary: when the last slot of a host was or will be
  lastGap    \* auxiliary: MinInterval of the request that has it

httpVars == <<phase, url, due, retries, pool, nextSlot, lastSlot, lastGap>>

Hosts == {HostOf[e] : e \in Endpoint}
Delayed == {"throttled", "backoff"}
UnderWay == Delayed \union {"queued", "running"}
Settled == {"value", "exception"}

HttpInit ==
  /\ phase = [c \in Caller |-> "empty"]
  /\ url = [c \in Caller |-> CHOOSE e \in Endpoint : TRUE]
  /\ due = [c \in Caller |-> 0]
  /\ retries = [c \in Caller |-> 0]
  /\ pool = <<>>
  /\ nextSlot = [h \in Hosts |-> -1]
  /\ lastSlot = [h \in Hosts |-> 0]
  /\ lastGap = [h \in Hosts |-> 0]

-----------------------------------------------------------------------------

\* Mutant of SlotAfter: found->second = now + MIN_INTERVAL whoever else waits.
SlotFromNow(e, slot) == MinInterval[e]

\* s_ThrottleDomains after a request for e got the slot.
SlotAfter(e, slot) == slot + MinInterval[e]

\* One turn of the loop in GetStringAsync up to the transfer: take the host's
\* next slot, under s_ThrottleMutex, and wait for it unless it is there already.
Reserve(c, e) ==
  LET h == HostOf[e]
      slot == IF nextSlot[h] < 0 THEN 0 ELSE nextSlot[h]
  IN /\ nextSlot' = [nextSlot EXCEPT ![h] = SlotAfter(e, slot)]
     /\ lastSlot' = [lastSlot EXCEPT ![h] = slot]
     /\ lastGap' = [lastGap EXCEPT ![h] = MinInterval[e]]
     /\ due' = [due EXCEPT ![c] = slot]
     /\ IF slot = 0
        THEN /\ phase' = [phase EXCEPT ![c] = "queued"]
             /\ pool' = Append(pool, c)
        ELSE /\ phase' = [phase EXCEPT ![c] = "throttled"]
             /\ UNCHANGED pool

\* GetStringAsync is called: any thread runs it up to its first wait.
Ask(c, e) ==
  /\ phase[c] = "empty"
  /\ url' = [url EXCEPT ![c] = e]
  /\ retries' = [retries EXCEPT ![c] = 0]
  /\ Reserve(c, e)

\* The wait for the slot is over: the transfer goes to the pool.
SlotReached(c) ==
  /\ phase' = [phase EXCEPT ![c] = "queued"]
  /\ pool' = Append(pool, c)
  /\ UNCHANGED <<url, due, retries, nextSlot, lastSlot, lastGap>>

\* Mutant of Resume: tries are not counted.
ResumeUncounted(c) ==
  /\ due[c] = 0
  /\ \/ phase[c] = "throttled" /\ SlotReached(c)
     \/ /\ phase[c] = "backoff"
        /\ Reserve(c, url[c])
        /\ UNCHANGED <<retries, url>>

\* The main thread's dispatcher resumes a delayed request, in time or late.
Resume(c) ==
  /\ due[c] = 0
  /\ \/ phase[c] = "throttled" /\ SlotReached(c)
     \/ /\ phase[c] = "backoff"
        /\ retries' = [retries EXCEPT ![c] = @ + 1]
        /\ Reserve(c, url[c])
        /\ UNCHANGED url

\* Mutant of StartTransfer: front() without pop().
StartWithoutPop ==
  /\ pool # <<>>
  /\ Cardinality({c \in Caller : phase[c] = "running"}) < Threads
  /\ phase' = [phase EXCEPT ![Head(pool)] = "running"]
  /\ UNCHANGED <<pool, url, due, retries, nextSlot, lastSlot, lastGap>>

\* A free thread of the pool takes the oldest transfer.
StartTransfer ==
  /\ pool # <<>>
  /\ Cardinality({c \in Caller : phase[c] = "running"}) < Threads
  /\ phase' = [phase EXCEPT ![Head(pool)] = "running"]
  /\ pool' = Tail(pool)
  /\ UNCHANGED <<url, due, retries, nextSlot, lastSlot, lastGap>>

\* One count serves all kinds of error.
TriesAgain(c, error) == retries[c] < Tries[error]

\* The server answers, or the transfer fails: the pool's thread settles the
\* request or starts the wait for the next try.
TransferDone(c) ==
  /\ phase[c] = "running"
  /\ \/ /\ phase' = [phase EXCEPT ![c] = "value"]
        /\ UNCHANGED due
     \/ \E error \in Errors :
          IF TriesAgain(c, error)
          THEN /\ phase' = [phase EXCEPT ![c] = "backoff"]
               /\ due' = [due EXCEPT ![c] = RetryDelay]
          ELSE /\ phase' = [phase EXCEPT ![c] = "exception"]
               /\ UNCHANGED due
  /\ UNCHANGED <<url, retries, pool, nextSlot, lastSlot, lastGap>>

\* The caller has read the result and drops the task.
Drop(c) ==
  /\ phase[c] \in Settled
  /\ phase' = [phase EXCEPT ![c] = "empty"]
  /\ retries' = [retries EXCEPT ![c] = 0]
  /\ UNCHANGED <<url, due, pool, nextSlot, lastSlot, lastGap>>

\* Time passes, whether or not the dispatcher came to resume what is due.
HttpTick ==
  /\ due' = [c \in Caller |-> IF due[c] > 0 THEN due[c] - 1 ELSE 0]
  /\ nextSlot' = [h \in Hosts |-> IF nextSlot[h] >= 0 THEN nextSlot[h] - 1 ELSE -1]
  /\ lastSlot' = [h \in Hosts |-> IF lastSlot[h] > -lastGap[h] THEN lastSlot[h] - 1
                                                            ELSE -lastGap[h]]
  /\ UNCHANGED <<phase, url, retries, pool, lastGap>>

HttpNext ==
  \/ \E c \in Caller, e \in Endpoint : Ask(c, e)
  \/ \E c \in Caller : Resume(c) \/ TransferDone(c) \/ Drop(c)
  \/ StartTransfer
  \/ HttpTick

HttpSpec == HttpInit /\ [][HttpNext]_httpVars

-----------------------------------------------------------------------------
(* Properties *)

\* Every variable has its type: what waits for the pool is queued there once.
HttpTypeOK ==
  /\ phase \in [Caller -> {"empty"} \union UnderWay \union Settled]
  /\ url \in [Caller -> Endpoint]
  /\ due \in [Caller -> Nat]
  /\ retries \in [Caller -> Nat]
  /\ pool \in Seq(Caller)
  /\ \A c \in Caller : Cardinality({i \in DOMAIN pool : pool[i] = c}) =
                         IF phase[c] = "queued" THEN 1 ELSE 0
  /\ nextSlot \in [Hosts -> Int]
  /\ lastSlot \in [Hosts -> Int]
  /\ lastGap \in [Hosts -> 0 .. MaxInterval]

\* c gets a slot: a new request or a new try passes the throttle.
GetsSlot(c) ==
  /\ phase[c] \in {"empty", "backoff"}
  /\ phase'[c] \in {"throttled", "queued"}

\* GetMinRequestInterval: the slots given out for one host, to new requests and
\* to new tries, by any thread and in any order, are as far apart as the earlier
\* one asked for, and no transfer goes to the pool before its slot.  It is slots
\* that keep the distance: when the main thread comes late to resume several, or
\* the pool was full, their transfers follow each other more closely.
SlotsApart ==
  [][\A c \in Caller :
       /\ GetsSlot(c) =>
            LET h == HostOf[url'[c]] IN due'[c] - lastSlot[h] >= lastGap[h]
       /\ phase[c] # "queued" /\ phase'[c] = "queued" => due'[c] = 0]_httpVars

\* The request as the task its caller awaits.
taskState == [c \in Caller |-> IF phase[c] \in UnderWay THEN "running" ELSE phase[c]]
Task == INSTANCE Future WITH future <- taskState

\* A request is a future: it settles once, keeps its result until that is taken,
\* and does settle whatever mixture of errors the servers return.
EveryRequestSettles == Task!Spec
===============================================================================
