----------------------------- MODULE TaskRuntime -----------------------------
(***************************************************************************)
(* thread_pool::add_task and the task it returns: a job is queued for the  *)
(* threads of a pool; whoever holds the task awaits it, blocks on it or    *)
(* looks at it now and then; the last one to leave, a holder or the job    *)
(* itself, frees the coroutine's frame.  A step is what happens between    *)
(* two points where another thread may come in.                            *)
(***************************************************************************)
EXTENDS Naturals, Sequences, FiniteSets

CONSTANTS
  Thread,  \* the threads of the pool
  Job,     \* the coroutines given to it
  Holder,  \* the tasks held, copies of the one add_task returned
  JobOf,   \* the job of each
  How      \* "await", "block" or "poll": what its owner does with it

ASSUME TaskAssumption ==
  /\ Thread # {} /\ Job # {} /\ IsFiniteSet(Holder)
  /\ JobOf \in [Holder -> Job]
  /\ How \in [Holder -> {"await", "block", "poll"}]

VARIABLES
  tasks,     \* m_Tasks of the pool's dispatcher
  mode,      \* what each thread does: run_for, about to wait, wait, a job
  work,      \* the job each thread runs and where it is in it
  toResume,  \* the local waiters of set_state, on each thread
  state,     \* m_State of each job's promise
  waiters,   \* the handles in it while it is running
  refs,      \* m_RefCount
  final,     \* m_FinalSuspendHasRun
  frees,     \* how often the frame was freed
  pc         \* where the owner of each held task is

poolVars == <<tasks, mode, work, toResume>>
promiseVars == <<state, waiters, refs, final, frees>>
vars == <<poolVars, promiseVars, pc>>

HoldersOf(j) == {k \in Holder : JobOf[k] = j}
Ready(j) == state[j] \in {"value", "exception"}
Resting == [job |-> CHOOSE j \in Job : TRUE, at |-> "nowhere"]
Gone == {"freeing", "done"}

Init ==
  /\ tasks = <<>>
  /\ mode = [t \in Thread |-> "loop"]
  /\ work = [t \in Thread |-> Resting]
  /\ toResume = [t \in Thread |-> <<>>]
  /\ state = [j \in Job |-> "none"]
  /\ waiters = [j \in Job |-> <<>>]
  /\ refs = [j \in Job |-> 0]
  /\ final = [j \in Job |-> FALSE]
  /\ frees = [j \in Job |-> 0]
  /\ pc = [k \in Holder |-> "none"]

-----------------------------------------------------------------------------
(* The dispatcher of the pool *)

Sleepers == {t \in Thread : mode[t] = "waiting"}

\* Mutant of Notified: a task is pushed without a word.
NobodyNotified == {mode}

\* notify_one: one of the sleepers, if there is one.
Notified ==
  IF Sleepers = {} THEN {mode}
  ELSE {[mode EXCEPT ![t] = "loop"] : t \in Sleepers}

\* add_task: the coroutine is queued, its task goes to one holder.
AddTask(j, k) ==
  /\ state[j] = "none" /\ JobOf[k] = j
  /\ state' = [state EXCEPT ![j] = "running"]
  /\ refs' = [refs EXCEPT ![j] = 1]
  /\ pc' = [pc EXCEPT ![k] = "start"]
  /\ tasks' = Append(tasks, j)
  /\ mode' \in Notified
  /\ UNCHANGED <<work, toResume, waiters, final, frees>>

\* try_pop_task under the lock, then resume.
PopTask(t) ==
  /\ mode[t] = "loop" /\ tasks # <<>>
  /\ tasks' = Tail(tasks)
  /\ mode' = [mode EXCEPT ![t] = "working"]
  /\ work' = [work EXCEPT ![t] = [job |-> Head(tasks), at |-> "body"]]
  /\ UNCHANGED <<toResume, promiseVars, pc>>

\* run_for is over, or the look at m_Tasks without the lock found it empty, which
\* it may be no longer: wait_tasks_until looks again, under the lock.
LeaveLoop(t) ==
  /\ mode[t] = "loop"
  /\ mode' = [mode EXCEPT ![t] = IF tasks = <<>> THEN "waiting" ELSE "loop"]
  /\ UNCHANGED <<tasks, work, toResume, promiseVars, pc>>

-----------------------------------------------------------------------------
(* A job on its thread *)

At(t, place) == mode[t] = "working" /\ work[t].at = place
JobOn(t) == work[t].job

\* set_state: the result is stored and the waiters taken out under the lock.
SetState(t) ==
  LET j == JobOn(t)
  IN /\ At(t, "body")
     /\ \E result \in {"value", "exception"} : state' = [state EXCEPT ![j] = result]
     /\ toResume' = [toResume EXCEPT ![t] = waiters[j]]
     /\ waiters' = [waiters EXCEPT ![j] = <<>>]
     /\ work' = [work EXCEPT ![t].at = "resuming"]
     /\ UNCHANGED <<tasks, mode, refs, final, frees, pc>>

\* The waiters run on this thread, one after the other, each until it ends or
\* awaits something else, whether or not it has dropped the task by then.
ResumeWaiter(t) ==
  /\ At(t, "resuming") /\ toResume[t] # <<>>
  /\ pc' = [pc EXCEPT ![Head(toResume[t])] = "get"]
  /\ toResume' = [toResume EXCEPT ![t] = Tail(@)]
  /\ UNCHANGED <<tasks, mode, work, promiseVars>>

\* Mutant of SelfDestructs: final_suspend always suspends.
NeverSelfDestructs(j) == FALSE

\* final_suspend: with no task left nobody else will free the frame.
SelfDestructs(j) == refs[j] = 0

\* final_suspend, under the lock, up to its return.
FinalSuspend(t) ==
  LET j == JobOn(t)
  IN /\ At(t, "resuming") /\ toResume[t] = <<>>
     /\ final' = [final EXCEPT ![j] = TRUE]
     /\ work' = [work EXCEPT ![t].at = IF SelfDestructs(j) THEN "leaving" ELSE "suspending"]
     /\ UNCHANGED <<tasks, mode, toResume, state, waiters, refs, frees, pc>>

\* The coroutine looks at the awaiter final_suspend returned, which lives in its
\* frame, and suspends.  If a holder has freed the frame meanwhile, what it finds is
\* anything: it may as well go on to the end and free the frame again.
Suspend(t) ==
  LET j == JobOn(t)
  IN /\ At(t, "suspending")
     /\ frees' \in {frees} \union (IF frees[j] = 0 THEN {}
                                   ELSE {[frees EXCEPT ![j] = 2]})
     /\ mode' = [mode EXCEPT ![t] = "loop"]
     /\ work' = [work EXCEPT ![t] = Resting]
     /\ UNCHANGED <<tasks, toResume, state, waiters, refs, final, pc>>

\* The coroutine runs off its end and its frame is freed.
RunOff(t) ==
  /\ At(t, "leaving")
  /\ frees' = [frees EXCEPT ![JobOn(t)] = @ + 1]
  /\ mode' = [mode EXCEPT ![t] = "loop"]
  /\ work' = [work EXCEPT ![t] = Resting]
  /\ UNCHANGED <<tasks, toResume, state, waiters, refs, final, pc>>

-----------------------------------------------------------------------------
(* The owners of the task *)

\* Mutant of CopyTask: a copy that does not count.
CopyUncounted(k, from) ==
  /\ pc[k] = "none" /\ pc[from] = "start" /\ JobOf[k] = JobOf[from]
  /\ pc' = [pc EXCEPT ![k] = "start"]
  /\ UNCHANGED <<poolVars, promiseVars>>

\* A task is copied before its owner does anything else with it: add_ref.
CopyTask(k, from) ==
  /\ pc[k] = "none" /\ pc[from] = "start" /\ JobOf[k] = JobOf[from]
  /\ refs' = [refs EXCEPT ![JobOf[k]] = @ + 1]
  /\ pc' = [pc EXCEPT ![k] = "start"]
  /\ UNCHANGED <<poolVars, state, waiters, final, frees>>

\* await_ready, or the first look of wait(), without the lock.
LookReady(k) ==
  /\ pc[k] = "start" /\ How[k] # "poll"
  /\ pc' = [pc EXCEPT ![k] = IF Ready(JobOf[k]) THEN "get" ELSE "locking"]
  /\ UNCHANGED <<poolVars, promiseVars>>

\* Mutant of SeenReady: await_suspend relies on the look without the lock.
NotSeenReady(k) == FALSE

\* The second look, under the lock.
SeenReady(k) == Ready(JobOf[k])

\* await_suspend hands over the handle, or wait() waits on m_ValueReadyCV.
WaitReady(k) ==
  /\ pc[k] = "locking"
  /\ IF SeenReady(k)
     THEN pc' = [pc EXCEPT ![k] = "get"] /\ UNCHANGED waiters
     ELSE /\ pc' = [pc EXCEPT ![k] = IF How[k] = "await" THEN "suspended" ELSE "blocked"]
          /\ waiters' = [waiters EXCEPT ![JobOf[k]] = IF How[k] = "await" THEN Append(@, k) ELSE @]
  /\ UNCHANGED <<poolVars, state, refs, final, frees>>

\* m_ValueReadyCV was notified: the predicate is looked at again, under the lock.
WakeUp(k) ==
  /\ pc[k] = "blocked" /\ Ready(JobOf[k])
  /\ pc' = [pc EXCEPT ![k] = "get"]
  /\ UNCHANGED <<poolVars, promiseVars>>

\* is_ready in an update; the result is read in the same one.
PollReady(k) ==
  /\ pc[k] = "start" /\ How[k] = "poll" /\ Ready(JobOf[k])
  /\ pc' = [pc EXCEPT ![k] = "get"]
  /\ UNCHANGED <<poolVars, promiseVars>>

\* Mutant of FreesFrame: the last task frees the frame, running or not.
LastTaskFrees(j) == refs[j] = 1

\* release_promise_ref: remove_ref() && final_suspend_has_run().
FreesFrame(j) == refs[j] = 1 /\ final[j]

\* The task is dropped: after its result was read or, by one who only polls, before.
Release(k) ==
  LET j == JobOf[k]
  IN /\ pc[k] = "get" \/ (pc[k] = "start" /\ How[k] = "poll")
     /\ refs' = [refs EXCEPT ![j] = @ - 1]
     /\ pc' = [pc EXCEPT ![k] = IF FreesFrame(j) THEN "freeing" ELSE "done"]
     /\ UNCHANGED <<poolVars, state, waiters, final, frees>>

\* freeFunc, after the lock was given back.
Free(k) ==
  /\ pc[k] = "freeing"
  /\ frees' = [frees EXCEPT ![JobOf[k]] = @ + 1]
  /\ pc' = [pc EXCEPT ![k] = "done"]
  /\ UNCHANGED <<poolVars, state, waiters, refs, final>>

-----------------------------------------------------------------------------

RunJob(t) ==
  SetState(t) \/ ResumeWaiter(t) \/ FinalSuspend(t) \/ Suspend(t) \/ RunOff(t)

Own(k) == LookReady(k) \/ WaitReady(k) \/ WakeUp(k) \/ PollReady(k) \/ Release(k) \/ Free(k)

Next ==
  \/ \E j \in Job, k \in Holder : AddTask(j, k)
  \/ \E t \in Thread : PopTask(t) \/ LeaveLoop(t) \/ RunJob(t)
  \/ \E k, from \in Holder : CopyTask(k, from)
  \/ \E k \in Holder : Own(k)

\* Threads run.  A sleeper wakes when notified only: that it also looks again every
\* second is not relied on.  Nobody has to add a task or to drop one unread.
Fairness ==
  /\ \A t \in Thread : WF_vars(PopTask(t)) /\ WF_vars(RunJob(t))
  /\ \A k \in Holder : WF_vars(LookReady(k) \/ WaitReady(k) \/ WakeUp(k) \/ PollReady(k))

Spec == Init /\ [][Next]_vars /\ Fairness

-----------------------------------------------------------------------------
(* Properties *)

\* Every variable has its type: no frame is counted on by fewer than hold it.
TypeOK ==
  /\ tasks \in Seq(Job)
  /\ mode \in [Thread -> {"loop", "waiting", "working"}]
  /\ work \in [Thread -> [job : Job,
                          at : {"nowhere", "body", "resuming", "leaving", "suspending"}]]
  /\ toResume \in [Thread -> Seq(Holder)]
  /\ state \in [Job -> {"none", "running", "value", "exception"}]
  /\ waiters \in [Job -> Seq(Holder)]
  /\ refs \in [Job -> 0 .. Cardinality(Holder)]
  /\ final \in [Job -> BOOLEAN]
  /\ frees \in [Job -> 0 .. 2]
  /\ pc \in [Holder -> {"none", "start", "locking", "suspended", "blocked", "get"} \union Gone]

\* dispatcher.inl, add_task and wait_tasks_until: no queued task has to wait for the
\* second after which a sleeping thread looks again, although the queue is read
\* without its lock and one notification may stand for several tasks.
NoTaskSleptOn == tasks # <<>> => Sleepers # Thread

\* release_promise_ref and final_suspend: nobody who still needs the frame finds it
\* freed, neither a holder nor the coroutine before its final suspension.
FrameInUseIsThere ==
  /\ \A k \in Holder : pc[k] \notin Gone \union {"none"} => frees[JobOf[k]] = 0
  /\ \A t \in Thread : At(t, "body") \/ At(t, "resuming") => frees[JobOn(t)] = 0

\* The same code never leaves the frame to nobody: once the coroutine has suspended
\* for good and the last task is dropped it has been freed.
FrameIsFreed ==
  \A j \in Job :
    (/\ final[j]
     /\ \A t \in Thread : work[t].at # "nowhere" => JobOn(t) # j
     /\ \A k \in HoldersOf(j) : pc[k] = "done") => frees[j] > 0

\* What each holder sees of its task.
taskState ==
  [k \in Holder |-> CASE pc[k] \in Gone \union {"none"} -> "empty"
                      [] pc[k] = "get" -> state[JobOf[k]]
                      [] OTHER -> "running"]
Held == INSTANCE Future WITH Caller <- Holder, future <- taskState

\* Whoever awaits a task or blocks on it, and attaches itself at whatever moment of
\* the job's end, gets the job's result, once: every held task is a future.
EveryHolderIsAnswered == Held!Spec
===============================================================================
