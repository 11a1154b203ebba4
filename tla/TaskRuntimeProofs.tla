-------------------------- MODULE TaskRuntimeProofs --------------------------
(***************************************************************************)
(* For any threads, jobs and holders of tasks: no queued task is slept on, *)
(* a frame in use is there, a frame nobody uses is freed, and every held   *)
(* task does only what a future may do.                                    *)
(***************************************************************************)
EXTENDS TaskRuntime, FiniteSetTheorems, TLAPS

-----------------------------------------------------------------------------
(* Types *)

HeldPlaces == {"start", "locking", "suspended", "blocked", "get"}

\* The types, with counts that are any numbers; that they are small follows later.
Types ==
  /\ tasks \in Seq(Job)
  /\ mode \in [Thread -> {"loop", "waiting", "working"}]
  /\ work \in [Thread -> [job : Job,
                          at : {"nowhere", "body", "resuming", "leaving", "suspending"}]]
  /\ toResume \in [Thread -> Seq(Holder)]
  /\ state \in [Job -> {"none", "running", "value", "exception"}]
  /\ waiters \in [Job -> Seq(Holder)]
  /\ refs \in [Job -> Int]
  /\ final \in [Job -> BOOLEAN]
  /\ frees \in [Job -> Nat]
  /\ pc \in [Holder -> {"none"} \union HeldPlaces \union Gone]

LEMMA RestingType == Resting \in [job : Job, at : {"nowhere"}]
<1>1. (CHOOSE j \in Job : TRUE) \in Job
  BY TaskAssumption, Zenon DEF TaskAssumption
<1> QED
  BY <1>1 DEF Resting

LEMMA InitTypes == Init => Types
  BY RestingType DEF Init, Types, HeldPlaces, Gone

\* A thread's step.
LEMMA ThreadTypes ==
  ASSUME Types, NEW t \in Thread, PopTask(t) \/ LeaveLoop(t) \/ RunJob(t)
  PROVE Types'
<1> USE DEF Types
<1>0. work[t].job \in Job
  OBVIOUS
<1>1. CASE PopTask(t)
  <2>1. Head(tasks) \in Job /\ Tail(tasks) \in Seq(Job)
    BY <1>1 DEF PopTask
  <2> QED
    BY <1>1, <2>1 DEF PopTask, promiseVars
<1>2. CASE LeaveLoop(t)
  BY <1>2 DEF LeaveLoop, promiseVars
<1>3. CASE SetState(t)
  <2>1. PICK result \in {"value", "exception"} : state' = [state EXCEPT ![JobOn(t)] = result]
    BY <1>3 DEF SetState
  <2>2. work' = [work EXCEPT ![t].at = "resuming"]
    BY <1>3 DEF SetState
  <2>3. toResume' = [toResume EXCEPT ![t] = waiters[work[t].job]]
    BY <1>3 DEF SetState, JobOn
  <2>4. waiters' = [waiters EXCEPT ![work[t].job] = <<>>]
    BY <1>3 DEF SetState, JobOn
  <2>5. UNCHANGED <<tasks, mode, refs, final, frees, pc>>
    BY <1>3 DEF SetState
  <2>a. state' \in [Job -> {"none", "running", "value", "exception"}]
    BY <2>1
  <2>b. work' \in [Thread -> [job : Job,
               at : {"nowhere", "body", "resuming", "leaving", "suspending"}]]
    BY <2>2
  <2>c. toResume' \in [Thread -> Seq(Holder)]
    BY <1>0, <2>3
  <2>d. waiters' \in [Job -> Seq(Holder)]
    BY <2>4
  <2> QED
    BY <2>5, <2>a, <2>b, <2>c, <2>d
<1>4. CASE ResumeWaiter(t)
  <2>1. Head(toResume[t]) \in Holder /\ Tail(toResume[t]) \in Seq(Holder)
    BY <1>4 DEF ResumeWaiter
  <2> QED
    BY <1>4, <2>1 DEF ResumeWaiter, promiseVars, HeldPlaces
<1>5. CASE FinalSuspend(t)
  BY <1>5 DEF FinalSuspend, JobOn
<1>6. CASE Suspend(t) \/ RunOff(t)
  <2>2. frees' \in [Job -> Nat]
    <3>1. CASE Suspend(t)
      <4>1. frees' = frees \/ frees' = [frees EXCEPT ![JobOn(t)] = 2]
        BY <3>1, Zenon DEF Suspend
      <4>2. [frees EXCEPT ![JobOn(t)] = 2] \in [Job -> Nat]
        OBVIOUS
      <4> QED
        BY <4>1, <4>2
    <3>2. CASE RunOff(t)
      BY <1>0, <3>2 DEF RunOff, JobOn
    <3> QED
      BY <1>6, <3>1, <3>2
  <2> QED
    <3>1. work' \in [Thread -> [job : Job,
                 at : {"nowhere", "body", "resuming", "leaving", "suspending"}]]
      BY <1>6, RestingType DEF Suspend, RunOff
    <3>2. mode' \in [Thread -> {"loop", "waiting", "working"}]
      BY <1>6 DEF Suspend, RunOff
    <3> QED
      BY <1>6, <2>2, <3>1, <3>2 DEF Suspend, RunOff
<1> QED
  BY <1>1, <1>2, <1>3, <1>4, <1>5, <1>6 DEF RunJob

\* A holder's step.
LEMMA HolderTypes ==
  ASSUME Types, NEW k \in Holder,
         \/ \E j \in Job : AddTask(j, k)
         \/ \E from \in Holder : CopyTask(k, from)
         \/ Own(k)
  PROVE Types'
<1> USE DEF Types, HeldPlaces, Gone
<1>0. JobOf[k] \in Job
  BY TaskAssumption DEF TaskAssumption
<1>1. ASSUME NEW j \in Job, AddTask(j, k) PROVE Types'
  <2>1. mode' \in [Thread -> {"loop", "waiting", "working"}]
    BY <1>1 DEF AddTask, Notified
  <2>2. tasks' \in Seq(Job)
    BY <1>1 DEF AddTask
  <2> QED
    BY <1>1, <2>1, <2>2 DEF AddTask
<1>2. ASSUME NEW from \in Holder, CopyTask(k, from) PROVE Types'
  BY <1>0, <1>2 DEF CopyTask, poolVars
<1>3. CASE LookReady(k) \/ WakeUp(k) \/ PollReady(k)
  BY <1>3 DEF LookReady, WakeUp, PollReady, poolVars, promiseVars
<1>4. CASE WaitReady(k)
  <2>1. Append(waiters[JobOf[k]], k) \in Seq(Holder)
    BY <1>0
  <2>2. waiters' \in [Job -> Seq(Holder)]
    BY <1>0, <1>4, <2>1 DEF WaitReady
  <2>3. pc' \in [Holder -> {"none"} \union HeldPlaces \union Gone]
    BY <1>4 DEF WaitReady
  <2> QED
    BY <1>4, <2>2, <2>3 DEF WaitReady, poolVars
<1>5. CASE Release(k) \/ Free(k)
  <2>1. refs' \in [Job -> Int] /\ frees' \in [Job -> Nat]
    <3>1. CASE Release(k)
      BY <1>0, <3>1 DEF Release
    <3>2. CASE Free(k)
      BY <1>0, <3>2 DEF Free
    <3> QED
      BY <1>5, <3>1, <3>2
  <2>2. pc' \in [Holder -> {"none"} \union HeldPlaces \union Gone]
    BY <1>5 DEF Release, Free
  <2> QED
    BY <1>5, <2>1, <2>2 DEF Release, Free, poolVars
<1> QED
  BY <1>1, <1>2, <1>3, <1>4, <1>5 DEF Own

LEMMA NextTypes == Types /\ [Next]_vars => Types'
<1>1. UNCHANGED vars /\ Types => Types'
  BY DEF vars, poolVars, promiseVars, Types
<1> QED
  BY <1>1, ThreadTypes, HolderTypes DEF Next

-----------------------------------------------------------------------------
(* The queue of the pool *)

\* dispatcher.inl: a thread falls asleep only on an empty queue, whoever fills it
\* wakes one of the sleepers, and a thread that is woken or at work is not asleep.
\* No fact about the jobs is needed.
THEOREM NoTaskEverSleptOn == Spec => []NoTaskSleptOn
<1>1. Init => NoTaskSleptOn
  BY DEF Init, NoTaskSleptOn
<1>2. Types /\ NoTaskSleptOn /\ [Next]_vars => NoTaskSleptOn'
  <2> SUFFICES ASSUME Types, NoTaskSleptOn, [Next]_vars PROVE NoTaskSleptOn'
    OBVIOUS
  <2>0. mode \in [Thread -> {"loop", "waiting", "working"}]
    BY DEF Types
  <2>1. ASSUME NEW j \in Job, NEW k \in Holder, AddTask(j, k) PROVE Sleepers' # Thread
    <3>1. CASE Sleepers = {}
      BY <2>1, <3>1, TaskAssumption DEF AddTask, Notified, TaskAssumption, Sleepers
    <3>2. CASE Sleepers # {}
      <4>1. PICK t \in Sleepers : mode' = [mode EXCEPT ![t] = "loop"]
        BY <2>1, <3>2 DEF AddTask, Notified
      <4>2. t \in Thread /\ t \notin Sleepers'
        BY <2>0, <4>1 DEF Sleepers
      <4> QED
        BY <4>2
    <3> QED
      BY <3>1, <3>2
  <2>2. ASSUME NEW t \in Thread, PopTask(t) \/ RunJob(t)
        PROVE Sleepers' \subseteq Sleepers /\ t \notin Sleepers'
    BY <2>0, <2>2 DEF PopTask, RunJob, SetState, ResumeWaiter, FinalSuspend, Suspend,
                      RunOff, At, Sleepers
  <2>3. ASSUME NEW t \in Thread, LeaveLoop(t) PROVE NoTaskSleptOn'
    BY <2>0, <2>3 DEF LeaveLoop, NoTaskSleptOn, Sleepers
  <2>4. CASE \/ \E k, from \in Holder : CopyTask(k, from)
             \/ \E k \in Holder : Own(k)
             \/ UNCHANGED vars
    BY <2>4 DEF CopyTask, Own, LookReady, WaitReady, WakeUp, PollReady, Release, Free,
                vars, poolVars, NoTaskSleptOn, Sleepers
  <2> QED
    BY <2>1, <2>2, <2>3, <2>4 DEF Next, NoTaskSleptOn
<1> QED
  BY <1>1, <1>2, InitTypes, NextTypes, PTL DEF Spec

-----------------------------------------------------------------------------
(* Where a job is *)

Busy(t) == mode[t] = "working"

\* A job is in the queue once or on one thread, never both.
Places ==
  /\ \A m, n \in 1 .. Len(tasks) : tasks[m] = tasks[n] => m = n
  /\ \A t \in Thread, m \in 1 .. Len(tasks) : Busy(t) => JobOn(t) # tasks[m]
  /\ \A t, u \in Thread : Busy(t) /\ Busy(u) /\ JobOn(t) = JobOn(u) => t = u

\* How far its promise is then.
Stages ==
  /\ \A m \in 1 .. Len(tasks) : state[tasks[m]] = "running"
  /\ \A t \in Thread : ~Busy(t) <=> work[t].at = "nowhere"
  /\ \A t \in Thread : At(t, "body") => state[JobOn(t)] = "running"
  /\ \A t \in Thread : Busy(t) /\ ~At(t, "body") => Ready(JobOn(t))
  /\ \A t \in Thread : At(t, "resuming") => ~final[JobOn(t)]
  /\ \A t \in Thread : At(t, "leaving") \/ At(t, "suspending") => final[JobOn(t)]
  /\ \A j \in Job : final[j] => Ready(j)

LEMMA InitStages == Init => Places /\ Stages
  BY DEF Init, Places, Stages, Busy, At, Resting

LEMMA ThreadPlaces ==
  ASSUME Types, Places, NEW t \in Thread, PopTask(t) \/ LeaveLoop(t) \/ RunJob(t)
  PROVE Places'
<1> USE DEF Places, Busy, JobOn
<1>1. CASE PopTask(t)
  <2>1. /\ Len(tasks') = Len(tasks) - 1 /\ Len(tasks) \in Nat \ {0}
        /\ \A m \in 1 .. Len(tasks') : tasks'[m] = tasks[m + 1]
        /\ Head(tasks) = tasks[1]
    BY <1>1 DEF PopTask, Types
  <2>2. /\ mode' = [mode EXCEPT ![t] = "working"]
        /\ work' = [work EXCEPT ![t] = [job |-> tasks[1], at |-> "body"]]
    BY <1>1, <2>1 DEF PopTask
  <2>3. ASSUME NEW u \in Thread, Busy(u)'
        PROVE (u = t /\ JobOn(u)' = tasks[1]) \/ (u # t /\ Busy(u) /\ JobOn(u)' = JobOn(u))
    BY <2>2, <2>3 DEF Types
  <2>4. \A m \in 1 .. Len(tasks') : m + 1 \in 1 .. Len(tasks) /\ m + 1 # 1
    BY <2>1
  <2>5. 1 \in 1 .. Len(tasks)
    BY <2>1
  <2>6. \A m, n \in 1 .. Len(tasks') : tasks'[m] = tasks'[n] => m = n
    BY <2>1, <2>4
  <2>7. \A u \in Thread, m \in 1 .. Len(tasks') : Busy(u)' => JobOn(u)' # tasks'[m]
    BY <2>1, <2>3, <2>4, <2>5
  <2>8. \A u, v \in Thread : Busy(u)' /\ Busy(v)' /\ JobOn(u)' = JobOn(v)' => u = v
    BY <2>3, <2>5
  <2> QED
    BY <2>6, <2>7, <2>8
<1>2. CASE LeaveLoop(t)
  BY <1>2 DEF LeaveLoop, Types
<1>3. CASE RunJob(t)
  <2>1. tasks' = tasks
    BY <1>3 DEF RunJob, SetState, ResumeWaiter, FinalSuspend, Suspend, RunOff
  <2>2. \A u \in Thread : Busy(u)' => Busy(u) /\ JobOn(u)' = JobOn(u)
    BY <1>3 DEF RunJob, SetState, ResumeWaiter, FinalSuspend, Suspend, RunOff, At, Types
  <2> QED
    BY <2>1, <2>2
<1> QED
  BY <1>1, <1>2, <1>3

LEMMA HolderPlaces ==
  ASSUME Types, Places, Stages, NEW k \in Holder,
         \/ \E j \in Job : AddTask(j, k)
         \/ \E from \in Holder : CopyTask(k, from)
         \/ Own(k)
  PROVE Places'
<1> USE DEF Places, Busy, JobOn
<1>1. ASSUME NEW j \in Job, AddTask(j, k) PROVE Places'
  <2>1. /\ Len(tasks') = Len(tasks) + 1 /\ Len(tasks) \in Nat
        /\ \A m \in 1 .. Len(tasks) : tasks'[m] = tasks[m]
        /\ tasks'[Len(tasks) + 1] = j
    BY <1>1 DEF AddTask, Types
  <2>2. \A t \in Thread : Busy(t)' => Busy(t) /\ JobOn(t)' = JobOn(t)
    BY <1>1 DEF AddTask, Notified, Sleepers, Types
  <2>3. \A m \in 1 .. Len(tasks) : tasks[m] # j
    BY <1>1 DEF AddTask, Stages
  <2>4. \A t \in Thread : Busy(t) => JobOn(t) # j
    BY <1>1 DEF AddTask, Stages, Ready
  <2> QED
    BY <2>1, <2>2, <2>3, <2>4
<1>2. (\E from \in Holder : CopyTask(k, from)) \/ Own(k) => UNCHANGED poolVars
  BY DEF CopyTask, Own, LookReady, WaitReady, WakeUp, PollReady, Release, Free, promiseVars
<1> QED
  BY <1>1, <1>2 DEF poolVars

LEMMA ThreadStages ==
  ASSUME Types, Places, Stages, NEW t \in Thread, PopTask(t) \/ LeaveLoop(t) \/ RunJob(t)
  PROVE Stages'
<1>1. CASE PopTask(t)
  <2>1. /\ Len(tasks') = Len(tasks) - 1 /\ Len(tasks) \in Nat \ {0}
        /\ \A m \in 1 .. Len(tasks') : tasks'[m] = tasks[m + 1]
        /\ Head(tasks) = tasks[1]
    BY <1>1 DEF PopTask, Types
  <2>2. /\ mode' = [mode EXCEPT ![t] = "working"]
        /\ work' = [work EXCEPT ![t] = [job |-> tasks[1], at |-> "body"]]
        /\ UNCHANGED <<state, final>>
    BY <1>1, <2>1 DEF PopTask, promiseVars
  <2>3. 1 \in 1 .. Len(tasks) /\ \A m \in 1 .. Len(tasks') : m + 1 \in 1 .. Len(tasks)
    BY <2>1
  <2>4. \A m \in 1 .. Len(tasks') : state'[tasks'[m]] = "running"
    BY <2>1, <2>2, <2>3 DEF Stages
  <2>5. \A u \in Thread \ {t} : UNCHANGED <<mode[u], work[u]>>
    BY <2>2 DEF Types
  <2>6. mode'[t] = "working" /\ work'[t] = [job |-> tasks[1], at |-> "body"]
    BY <2>2 DEF Types
  <2> QED
    BY <2>2, <2>3, <2>4, <2>5, <2>6 DEF Stages, Busy, At, JobOn, Ready
<1>2. CASE LeaveLoop(t)
  <2>1. \A u \in Thread : Busy(u)' <=> Busy(u)
    BY <1>2 DEF LeaveLoop, Busy, Types
  <2> QED
    BY <1>2, <2>1 DEF LeaveLoop, promiseVars, Stages, Busy, At, JobOn, Ready
<1>3. ASSUME RunJob(t), UNCHANGED <<state, final>>,
             \A u \in Thread \ {t} : UNCHANGED <<mode[u], work[u]>>,
             \/ UNCHANGED <<mode[t], work[t]>>
             \/ mode'[t] = "loop" /\ work'[t] = Resting
      PROVE Stages'
  <2>1. tasks' = tasks
    BY <1>3 DEF RunJob, SetState, ResumeWaiter, FinalSuspend, Suspend, RunOff
  <2> QED
    BY <1>3, <2>1 DEF Stages, Busy, At, JobOn, Ready, Resting
<1>4. CASE SetState(t)
  <2>1. PICK j \in Job : j = JobOn(t)
    BY DEF Types, JobOn
  <2>2. PICK result \in {"value", "exception"} : state' = [state EXCEPT ![j] = result]
    BY <1>4, <2>1 DEF SetState
  <2>3. Ready(j)' /\ \A i \in Job \ {j} : state'[i] = state[i]
    BY <2>1, <2>2 DEF Types, Ready
  <2>4. /\ work'[t].at = "resuming" /\ JobOn(t)' = j
        /\ \A u \in Thread \ {t} : work'[u] = work[u]
    BY <1>4, <2>1 DEF SetState, Types, JobOn
  <2>5. /\ At(t, "body") /\ UNCHANGED <<tasks, mode, final>>
        /\ state[j] = "running"
    BY <1>4, <2>1 DEF SetState, Stages
  <2>6. \A m \in 1 .. Len(tasks) : tasks[m] \in Job \ {j}
    BY <2>1, <2>5 DEF Places, At, Busy, Types
  <2>7. \A u \in Thread \ {t} : Busy(u) => JobOn(u) \in Job \ {j}
    BY <2>1, <2>5 DEF Places, At, Busy, Types, JobOn
  <2>8. ~final[j]
    BY <2>1, <2>5 DEF Stages, Ready
  <2> QED
    BY <2>1, <2>3, <2>4, <2>5, <2>6, <2>7, <2>8 DEF Stages, At, Busy, JobOn, Ready
<1>5. CASE ResumeWaiter(t)
  BY <1>3, <1>5 DEF ResumeWaiter, promiseVars, RunJob
<1>6. CASE FinalSuspend(t)
  <2>1. PICK j \in Job : j = JobOn(t)
    BY DEF Types, JobOn
  <2>2. final'[j] = TRUE /\ \A i \in Job \ {j} : final'[i] = final[i]
    BY <1>6, <2>1 DEF FinalSuspend, Types
  <2>3. /\ work'[t].at \in {"leaving", "suspending"} /\ JobOn(t)' = j
        /\ \A u \in Thread \ {t} : work'[u] = work[u]
    BY <1>6, <2>1 DEF FinalSuspend, Types, JobOn
  <2>4. At(t, "resuming") /\ UNCHANGED <<tasks, mode, state>> /\ Ready(j)
    BY <1>6, <2>1 DEF FinalSuspend, Stages, At, Busy
  <2>5. \A u \in Thread \ {t} : Busy(u) => JobOn(u) \in Job \ {j}
    BY <2>1, <2>4 DEF Places, At, Busy, Types, JobOn
  <2> QED
    BY <2>1, <2>2, <2>3, <2>4, <2>5 DEF Stages, At, Busy, JobOn, Ready
<1>7. CASE Suspend(t) \/ RunOff(t)
  <2>1. /\ mode' = [mode EXCEPT ![t] = "loop"] /\ work' = [work EXCEPT ![t] = Resting]
        /\ UNCHANGED <<state, final>>
    BY <1>7 DEF Suspend, RunOff
  <2> QED
    BY <1>3, <1>7, <2>1 DEF Types, RunJob
<1> QED
  BY <1>1, <1>2, <1>4, <1>5, <1>6, <1>7 DEF RunJob

LEMMA HolderStages ==
  ASSUME Types, Stages, NEW k \in Holder,
         \/ \E j \in Job : AddTask(j, k)
         \/ \E from \in Holder : CopyTask(k, from)
         \/ Own(k)
  PROVE Stages'
<1>1. ASSUME NEW j \in Job, AddTask(j, k) PROVE Stages'
  <2>1. /\ Len(tasks') = Len(tasks) + 1 /\ Len(tasks) \in Nat
        /\ \A m \in 1 .. Len(tasks) : tasks'[m] = tasks[m]
        /\ tasks'[Len(tasks) + 1] = j
    BY <1>1 DEF AddTask, Types
  <2>2. state'[j] = "running" /\ \A i \in Job \ {j} : state'[i] = state[i]
    BY <1>1 DEF AddTask, Types
  <2>3. \A t \in Thread : Busy(t)' <=> Busy(t)
    BY <1>1 DEF AddTask, Notified, Sleepers, Types, Busy
  <2>4. \A t \in Thread : Busy(t) => JobOn(t) \in Job \ {j}
    BY <1>1 DEF AddTask, Stages, Ready, Types, JobOn
  <2>5. UNCHANGED <<work, final>> /\ ~final[j]
    BY <1>1 DEF AddTask, Stages, Ready
  <2>6. \A m \in 1 .. Len(tasks') : state'[tasks'[m]] = "running"
    <3>1. \A m \in 1 .. Len(tasks) : tasks[m] \in Job /\ state[tasks[m]] = "running"
      BY DEF Stages, Types
    <3>2. \A m \in 1 .. Len(tasks') : m \in 1 .. Len(tasks) \/ m = Len(tasks) + 1
      BY <2>1
    <3> QED
      BY <2>1, <2>2, <3>1, <3>2
  <2> QED
    BY <2>2, <2>3, <2>4, <2>5, <2>6 DEF Stages, At, Busy, JobOn, Ready
<1>2. (\E from \in Holder : CopyTask(k, from)) \/ Own(k) => UNCHANGED <<poolVars, state, final>>
  BY DEF CopyTask, Own, LookReady, WaitReady, WakeUp, PollReady, Release, Free, promiseVars
<1> QED
  BY <1>1, <1>2 DEF poolVars, Stages, At, Busy, JobOn, Ready

-----------------------------------------------------------------------------
(* Who waits for a job *)

\* A suspended holder's handle is in one place, its job's promise or the thread
\* that resumes it, and there once.
Handles ==
  /\ \A j \in Job : \A i \in 1 .. Len(waiters[j]) :
       JobOf[waiters[j][i]] = j /\ pc[waiters[j][i]] = "suspended"
  /\ \A j \in Job : \A i, n \in 1 .. Len(waiters[j]) : waiters[j][i] = waiters[j][n] => i = n
  /\ \A j \in Job : Ready(j) => waiters[j] = <<>>
  /\ \A t \in Thread : \A i \in 1 .. Len(toResume[t]) :
       /\ At(t, "resuming")
       /\ JobOf[toResume[t][i]] = JobOn(t) /\ pc[toResume[t][i]] = "suspended"
  /\ \A t \in Thread : \A i, n \in 1 .. Len(toResume[t]) : toResume[t][i] = toResume[t][n] => i = n

\* Nobody holds a task of a job that was not added, nor a result it has not got.
Started ==
  \A k \in Holder :
    /\ pc[k] # "none" => state[JobOf[k]] # "none"
    /\ pc[k] = "get" => Ready(JobOf[k])

LEMMA InitHandles == Init => Handles /\ Started
  BY DEF Init, Handles, Started, Ready

LEMMA ThreadHandles ==
  ASSUME Types, Places, Stages, Handles, Started,
         NEW t \in Thread, PopTask(t) \/ LeaveLoop(t) \/ RunJob(t)
  PROVE Handles' /\ Started'
<1>0. \A k \in Holder : JobOf[k] \in Job
  BY TaskAssumption DEF TaskAssumption
<1>1. ASSUME UNCHANGED <<toResume, waiters, state, pc>>, toResume[t] = <<>>,
             \A u \in Thread \ {t} : UNCHANGED <<mode[u], work[u]>>
      PROVE Handles' /\ Started'
  <2>1. \A u \in Thread : \A i \in 1 .. Len(toResume[u]) : u # t
    BY <1>1
  <2> QED
    BY <1>1, <2>1 DEF Handles, Started, At, JobOn, Ready
<1>2. ~At(t, "resuming") => toResume[t] = <<>>
  <2>1. toResume[t] \in Seq(Holder) /\ (toResume[t] # <<>> => 1 \in 1 .. Len(toResume[t]))
    BY DEF Types
  <2> QED
    BY <2>1 DEF Handles
<1>3. CASE PopTask(t) \/ LeaveLoop(t) \/ Suspend(t) \/ RunOff(t)
  <2>1. ~At(t, "resuming") /\ UNCHANGED <<toResume, waiters, state, pc>>
    BY <1>3 DEF PopTask, LeaveLoop, Suspend, RunOff, At, promiseVars
  <2>2. \A u \in Thread \ {t} : UNCHANGED <<mode[u], work[u]>>
    BY <1>3 DEF PopTask, LeaveLoop, Suspend, RunOff, Types
  <2> QED
    BY <1>1, <1>2, <2>1, <2>2
<1>4. CASE FinalSuspend(t)
  BY <1>1, <1>4 DEF FinalSuspend, Types
<1>5. CASE SetState(t)
  <2>1. PICK j \in Job : j = JobOn(t)
    BY DEF Types, JobOn
  <2>2. PICK result \in {"value", "exception"} : state' = [state EXCEPT ![j] = result]
    BY <1>5, <2>1 DEF SetState
  <2>3. Ready(j)' /\ \A i \in Job \ {j} : state'[i] = state[i]
    BY <2>1, <2>2 DEF Types, Ready
  <2>4. /\ waiters'[j] = <<>>
        /\ \A i \in Job \ {j} : waiters'[i] = waiters[i]
        /\ toResume'[t] = waiters[j]
        /\ \A u \in Thread \ {t} : toResume'[u] = toResume[u]
    BY <1>5, <2>1 DEF SetState, Types
  <2>5. /\ At(t, "resuming")' /\ JobOn(t)' = j
        /\ \A u \in Thread \ {t} : UNCHANGED <<mode[u], work[u]>>
    BY <1>5, <2>1 DEF SetState, Types, JobOn, At
  <2>6. pc' = pc
    BY <1>5 DEF SetState
  <2>7. Handles'
    BY <2>3, <2>4, <2>5, <2>6 DEF Handles, At, JobOn, Ready
  <2>8. Started'
    BY <1>0, <2>3, <2>6 DEF Started, Ready
  <2> QED
    BY <2>7, <2>8
<1>6. CASE ResumeWaiter(t)
  <2>1. PICK k \in Holder : k = Head(toResume[t])
    BY <1>6 DEF ResumeWaiter, Types
  <2>2. /\ Len(toResume'[t]) = Len(toResume[t]) - 1 /\ Len(toResume[t]) \in Nat \ {0}
        /\ \A i \in 1 .. Len(toResume'[t]) : toResume'[t][i] = toResume[t][i + 1]
        /\ k = toResume[t][1]
    BY <1>6, <2>1 DEF ResumeWaiter, Types
  <2>3. /\ At(t, "resuming") /\ UNCHANGED <<tasks, mode, work, promiseVars>>
        /\ \A u \in Thread \ {t} : toResume'[u] = toResume[u]
        /\ pc'[k] = "get" /\ \A l \in Holder \ {k} : pc'[l] = pc[l]
    BY <1>6, <2>1 DEF ResumeWaiter, Types
  <2>4. 1 \in 1 .. Len(toResume[t]) /\ \A i \in 1 .. Len(toResume'[t]) : i + 1 \in 2 .. Len(toResume[t])
    BY <2>2
  <2>5. JobOf[k] = JobOn(t) /\ pc[k] = "suspended" /\ Ready(JobOn(t))
    BY <2>2, <2>3, <2>4 DEF Handles, Stages, At, Busy
  <2>6. \A j \in Job : \A i \in 1 .. Len(waiters[j]) : waiters[j][i] \in Holder \ {k}
    <3> SUFFICES ASSUME NEW j \in Job, NEW i \in 1 .. Len(waiters[j]), waiters[j][i] = k
                 PROVE FALSE
      BY DEF Types
    <3>1. Ready(j)
      BY <2>5 DEF Handles
    <3> QED
      BY <3>1 DEF Handles
  <2>7. \A u \in Thread \ {t} : \A i \in 1 .. Len(toResume[u]) : toResume[u][i] \in Holder \ {k}
    <3> SUFFICES ASSUME NEW u \in Thread \ {t}, NEW i \in 1 .. Len(toResume[u]), toResume[u][i] = k
                 PROVE FALSE
      BY DEF Types
    <3> QED
      BY <2>3, <2>5 DEF Handles, Places, At, Busy
  <2>8. \A i \in 1 .. Len(toResume'[t]) : toResume'[t][i] \in Holder \ {k}
    <3> SUFFICES ASSUME NEW i \in 1 .. Len(toResume'[t]) PROVE toResume[t][i + 1] \in Holder \ {k}
      BY <2>2
    <3>1. i + 1 \in 1 .. Len(toResume[t]) /\ i + 1 # 1
      BY <2>2
    <3> QED
      BY <2>2, <2>4, <3>1 DEF Handles, Types
  <2>9. \A i \in 1 .. Len(toResume'[t]) :
          JobOf[toResume'[t][i]] = JobOn(t) /\ pc[toResume'[t][i]] = "suspended"
    BY <2>2, <2>4 DEF Handles
  <2>10. \A i, n \in 1 .. Len(toResume'[t]) : toResume'[t][i] = toResume'[t][n] => i = n
    BY <2>2, <2>4 DEF Handles
  <2>11. Handles'
    BY <2>3, <2>6, <2>7, <2>8, <2>9, <2>10 DEF Handles, At, JobOn, Ready, promiseVars
  <2>12. Started'
    BY <2>3, <2>5 DEF Started, Ready, promiseVars
  <2> QED
    BY <2>11, <2>12
<1> QED
  BY <1>3, <1>4, <1>5, <1>6 DEF RunJob

LEMMA HolderHandles ==
  ASSUME Types, Stages, Handles, Started, NEW k \in Holder,
         \/ \E j \in Job : AddTask(j, k)
         \/ \E from \in Holder : CopyTask(k, from)
         \/ Own(k)
  PROVE Handles' /\ Started'
<1>0. \A l \in Holder : JobOf[l] \in Job
  BY TaskAssumption DEF TaskAssumption
<1>1. ASSUME UNCHANGED <<toResume, waiters>>, pc[k] # "suspended",
             \A j \in Job : Ready(j)' <=> Ready(j),
             \A t \in Thread : At(t, "resuming") => At(t, "resuming")' /\ UNCHANGED JobOn(t),
             \A l \in Holder \ {k} : pc'[l] = pc[l]
      PROVE Handles'
  <2>1. \A j \in Job : \A i \in 1 .. Len(waiters[j]) : waiters[j][i] \in Holder \ {k}
    BY <1>1 DEF Handles, Types
  <2>2. \A t \in Thread : \A i \in 1 .. Len(toResume[t]) : toResume[t][i] \in Holder \ {k}
    BY <1>1 DEF Handles, Types
  <2> QED
    BY <1>1, <2>1, <2>2 DEF Handles
<1>2. ASSUME NEW j \in Job, AddTask(j, k) PROVE Handles' /\ Started'
  <2>1. pc[k] = "none" /\ JobOf[k] = j /\ UNCHANGED <<toResume, waiters, work>>
    BY <1>2 DEF AddTask, Started
  <2>2. \A l \in Holder \ {k} : pc'[l] = pc[l]
    BY <1>2 DEF AddTask, Types
  <2>3. \A i \in Job : /\ Ready(i)' <=> Ready(i)
                     /\ (state[i] # "none" => state'[i] # "none")
    BY <1>2 DEF AddTask, Types, Ready
  <2>4. \A t \in Thread : Busy(t)' <=> Busy(t)
    BY <1>2 DEF AddTask, Notified, Sleepers, Types, Busy
  <2>5. pc'[k] = "start" /\ state'[j] = "running"
    BY <1>2 DEF AddTask, Types
  <2>6. Handles'
    BY <1>1, <2>1, <2>2, <2>3, <2>4 DEF At, Busy, JobOn
  <2> QED
    BY <1>0, <2>1, <2>2, <2>3, <2>5, <2>6 DEF Started
<1>3. ASSUME UNCHANGED <<poolVars, state, waiters>>, pc[k] # "suspended",
             \A l \in Holder \ {k} : pc'[l] = pc[l],
             state[JobOf[k]] # "none", pc'[k] = "get" => Ready(JobOf[k])
      PROVE Handles' /\ Started'
  <2>1. Handles'
    BY <1>1, <1>3 DEF poolVars, At, JobOn, Ready
  <2> QED
    BY <1>3, <2>1 DEF Started, Ready
<1>4. ASSUME NEW from \in Holder, CopyTask(k, from) PROVE Handles' /\ Started'
  BY <1>3, <1>4 DEF CopyTask, Started, Types
<1>5. CASE LookReady(k) \/ WakeUp(k) \/ PollReady(k) \/ Release(k) \/ Free(k)
  BY <1>3, <1>5 DEF LookReady, WakeUp, PollReady, Release, Free, Started, Types, promiseVars, Gone
<1>6. CASE WaitReady(k)
  <2>1. CASE /\ UNCHANGED waiters
             /\ \/ pc' = [pc EXCEPT ![k] = "get"] /\ Ready(JobOf[k])
                \/ pc' = [pc EXCEPT ![k] = "blocked"]
    BY <1>3, <1>6, <2>1 DEF WaitReady, Started, Types
  <2>2. CASE /\ ~Ready(JobOf[k]) /\ pc' = [pc EXCEPT ![k] = "suspended"]
             /\ waiters' = [waiters EXCEPT ![JobOf[k]] = Append(@, k)]
    <3>1. PICK j \in Job : j = JobOf[k]
      BY <1>0
    <3>2. /\ Len(waiters'[j]) = Len(waiters[j]) + 1 /\ Len(waiters[j]) \in Nat
          /\ \A i \in 1 .. Len(waiters[j]) : waiters'[j][i] = waiters[j][i]
          /\ waiters'[j][Len(waiters[j]) + 1] = k
          /\ \A i \in Job \ {j} : waiters'[i] = waiters[i]
      BY <2>2, <3>1 DEF Types
    <3>3. /\ pc[k] = "locking" /\ pc'[k] = "suspended" /\ ~Ready(j)
          /\ \A l \in Holder \ {k} : pc'[l] = pc[l]
          /\ UNCHANGED <<poolVars, state>>
      BY <1>6, <2>2, <3>1 DEF WaitReady, Types
    <3>4. ASSUME NEW i \in Job, NEW n \in 1 .. Len(waiters[i])
          PROVE waiters[i][n] \in Holder \ {k}
      <4>1. waiters[i][n] \in Holder
        BY DEF Types
      <4>2. pc[waiters[i][n]] = "suspended"
        BY DEF Handles
      <4> QED
        BY <3>3, <4>1, <4>2
    <3>5. ASSUME NEW t \in Thread, NEW n \in 1 .. Len(toResume[t])
          PROVE toResume[t][n] \in Holder \ {k}
      <4>1. toResume[t][n] \in Holder
        BY DEF Types
      <4>2. pc[toResume[t][n]] = "suspended"
        BY DEF Handles
      <4> QED
        BY <3>3, <4>1, <4>2
    <3>6. \A n \in 1 .. Len(waiters'[j]) : n \in 1 .. Len(waiters[j]) \/ n = Len(waiters[j]) + 1
      BY <3>2
    <3>7. ASSUME NEW n \in 1 .. Len(waiters'[j])
          PROVE JobOf[waiters'[j][n]] = j /\ pc'[waiters'[j][n]] = "suspended"
      <4>1. CASE n \in 1 .. Len(waiters[j])
        <5>1. waiters'[j][n] = waiters[j][n] /\ waiters[j][n] \in Holder \ {k}
          BY <3>2, <3>4, <4>1
        <5>2. JobOf[waiters[j][n]] = j /\ pc[waiters[j][n]] = "suspended"
          BY <4>1 DEF Handles
        <5> QED
          BY <3>3, <5>1, <5>2
      <4>2. CASE n = Len(waiters[j]) + 1
        BY <3>1, <3>2, <3>3, <4>2
      <4> QED
        BY <3>6, <4>1, <4>2
    <3>8. \A i, n \in 1 .. Len(waiters'[j]) : waiters'[j][i] = waiters'[j][n] => i = n
      BY <3>2, <3>4, <3>6 DEF Handles
    <3>9. Handles'
      <4>1. ASSUME NEW i \in Job \ {j}, NEW n \in 1 .. Len(waiters'[i])
            PROVE JobOf[waiters'[i][n]] = i /\ pc'[waiters'[i][n]] = "suspended"
        BY <3>2, <3>3, <3>4 DEF Handles
      <4>2. \A i \in Job \ {j} : \A m, n \in 1 .. Len(waiters'[i]) :
              waiters'[i][m] = waiters'[i][n] => m = n
        BY <3>2 DEF Handles
      <4>3. \A i \in Job : Ready(i)' => waiters'[i] = <<>>
        BY <3>2, <3>3 DEF Handles, Ready
      <4>4. ASSUME NEW t \in Thread, NEW n \in 1 .. Len(toResume'[t])
            PROVE /\ At(t, "resuming")'
                  /\ JobOf[toResume'[t][n]] = JobOn(t)' /\ pc'[toResume'[t][n]] = "suspended"
        BY <3>3, <3>5 DEF Handles, poolVars, At, JobOn
      <4>5. \A t \in Thread : \A i, n \in 1 .. Len(toResume'[t]) :
              toResume'[t][i] = toResume'[t][n] => i = n
        BY <3>3 DEF Handles, poolVars
      <4> QED
        BY <3>7, <3>8, <4>1, <4>2, <4>3, <4>4, <4>5 DEF Handles
    <3> QED
      BY <3>1, <3>3, <3>9 DEF Started, Ready
  <2>3. CASE SeenReady(k) \/ How[k] # "await"
    BY <1>6, <2>1, <2>3 DEF WaitReady, SeenReady, Types
  <2>4. CASE ~SeenReady(k) /\ How[k] = "await"
    BY <1>6, <2>2, <2>4 DEF WaitReady, SeenReady
  <2> QED
    BY <2>3, <2>4
<1> QED
  BY <1>2, <1>4, <1>5, <1>6 DEF Own

-----------------------------------------------------------------------------
(* How many hold a job's task *)

Users(j) == {k \in HoldersOf(j) : pc[k] \in HeldPlaces}

\* The reference count is their number.
Counts == \A j \in Job : refs[j] = Cardinality(Users(j))

LEMMA UsersFinite ==
  ASSUME NEW j \in Job
  PROVE IsFiniteSet(Users(j)) /\ Cardinality(Users(j)) \in 0 .. Cardinality(Holder)
<1>1. Users(j) \in SUBSET Holder
  BY DEF Users, HoldersOf
<1>2. IsFiniteSet(Users(j)) /\ Cardinality(Users(j)) <= Cardinality(Holder)
  BY <1>1, FS_Subset, TaskAssumption DEF TaskAssumption
<1> QED
  BY <1>2, FS_CardinalityType, TaskAssumption DEF TaskAssumption

\* Whoever holds a task is counted.
LEMMA HolderCounted ==
  ASSUME Counts, NEW k \in Holder, pc[k] \in HeldPlaces
  PROVE refs[JobOf[k]] \in Nat \ {0}
<1>1. JobOf[k] \in Job /\ k \in Users(JobOf[k])
  BY TaskAssumption DEF TaskAssumption, Users, HoldersOf
<1> QED
  BY <1>1, UsersFinite, FS_EmptySet DEF Counts

LEMMA InitCounts == Init => Counts
<1> SUFFICES ASSUME Init, NEW j \in Job PROVE refs[j] = Cardinality(Users(j))
  BY DEF Counts
<1>1. Users(j) = {} /\ refs[j] = 0
  BY DEF Init, Users, HoldersOf, HeldPlaces
<1> QED
  BY <1>1, FS_EmptySet

LEMMA SameCounts ==
  ASSUME Counts, refs' = refs,
         \A k \in Holder : pc[k] \in HeldPlaces <=> pc'[k] \in HeldPlaces
  PROVE Counts'
<1>1. ASSUME NEW j \in Job PROVE Users(j)' = Users(j)
  BY DEF Users, HoldersOf
<1> QED
  BY <1>1 DEF Counts

LEMMA ThreadCounts ==
  ASSUME Types, Handles, Counts, NEW t \in Thread, PopTask(t) \/ LeaveLoop(t) \/ RunJob(t)
  PROVE Counts'
<1>1. refs' = refs
  BY DEF PopTask, LeaveLoop, RunJob, SetState, ResumeWaiter, FinalSuspend, Suspend, RunOff,
         promiseVars
<1>2. CASE ~ResumeWaiter(t)
  <2>1. pc' = pc
    BY <1>2 DEF PopTask, LeaveLoop, RunJob, SetState, FinalSuspend, Suspend, RunOff
  <2> QED
    BY <1>1, <2>1, SameCounts
<1>3. CASE ResumeWaiter(t)
  <2>1. toResume[t] \in Seq(Holder) /\ toResume[t] # <<>>
    BY <1>3 DEF ResumeWaiter, Types
  <2>2. PICK k \in Holder : k = Head(toResume[t]) /\ k = toResume[t][1]
    BY <2>1
  <2>3. 1 \in 1 .. Len(toResume[t])
    BY <2>1
  <2>4. pc[k] = "suspended"
    BY <2>2, <2>3 DEF Handles
  <2>5. pc' = [pc EXCEPT ![k] = "get"]
    BY <1>3, <2>2 DEF ResumeWaiter
  <2>6. \A l \in Holder : pc[l] \in HeldPlaces <=> pc'[l] \in HeldPlaces
    BY <2>4, <2>5 DEF HeldPlaces, Types
  <2> QED
    BY <1>1, <2>6, SameCounts
<1> QED
  BY <1>2, <1>3

LEMMA HolderCounts ==
  ASSUME Types, Started, Counts, NEW k \in Holder,
         \/ \E j \in Job : AddTask(j, k)
         \/ \E from \in Holder : CopyTask(k, from)
         \/ Own(k)
  PROVE Counts'
<1>0. PICK j \in Job : j = JobOf[k]
  BY TaskAssumption DEF TaskAssumption
<1>1. ASSUME \A l \in Holder \ {k} : pc'[l] = pc[l],
             \A i \in Job \ {j} : refs'[i] = refs[i],
             refs'[j] = Cardinality(Users(j)')
      PROVE Counts'
  <2>1. ASSUME NEW i \in Job \ {j} PROVE Users(i)' = Users(i)
    BY <1>0, <1>1 DEF Users, HoldersOf
  <2> QED
    BY <1>1, <2>1 DEF Counts
<1>2. ASSUME NEW i \in Job, AddTask(i, k) PROVE Counts'
  <2>1. i = j /\ state[j] = "none"
    BY <1>0, <1>2 DEF AddTask
  <2>2. pc' = [pc EXCEPT ![k] = "start"] /\ refs' = [refs EXCEPT ![j] = 1]
    BY <1>2, <2>1 DEF AddTask
  <2>3. \A l \in HoldersOf(j) : pc[l] = "none"
    BY <2>1 DEF Started, HoldersOf
  <2>4. Users(j)' = {k}
    BY <1>0, <2>2, <2>3 DEF Users, HoldersOf, HeldPlaces, Types
  <2>5. Cardinality({k}) = 1
    BY FS_Singleton
  <2> QED
    BY <1>1, <2>2, <2>4, <2>5 DEF Types
<1>3. ASSUME NEW from \in Holder, CopyTask(k, from) PROVE Counts'
  <2>1. /\ pc[k] = "none" /\ pc' = [pc EXCEPT ![k] = "start"]
        /\ refs' = [refs EXCEPT ![j] = @ + 1]
    BY <1>0, <1>3 DEF CopyTask
  <2>2. Users(j)' = Users(j) \cup {k} /\ k \notin Users(j)
    BY <1>0, <2>1 DEF Users, HoldersOf, HeldPlaces, Types
  <2>3. Cardinality(Users(j) \cup {k}) = Cardinality(Users(j)) + 1
    BY <2>2, UsersFinite, FS_AddElement
  <2> QED
    BY <1>1, <2>1, <2>2, <2>3 DEF Types, Counts
<1>4. CASE Release(k)
  <2>1. /\ pc[k] \in {"get", "start"} /\ pc'[k] \in Gone
        /\ \A l \in Holder \ {k} : pc'[l] = pc[l]
        /\ refs' = [refs EXCEPT ![j] = @ - 1]
    BY <1>0, <1>4 DEF Release, Gone, Types
  <2>2. Users(j)' = Users(j) \ {k} /\ k \in Users(j)
    BY <1>0, <2>1 DEF Users, HoldersOf, HeldPlaces, Gone
  <2>3. Cardinality(Users(j) \ {k}) = Cardinality(Users(j)) - 1
    BY <2>2, UsersFinite, FS_RemoveElement
  <2> QED
    BY <1>1, <2>1, <2>2, <2>3 DEF Types, Counts
<1>5. CASE LookReady(k) \/ WaitReady(k) \/ WakeUp(k) \/ PollReady(k) \/ Free(k)
  <2>1. refs' = refs
    BY <1>5 DEF LookReady, WaitReady, WakeUp, PollReady, Free, promiseVars
  <2>2. \A l \in Holder : pc[l] \in HeldPlaces <=> pc'[l] \in HeldPlaces
    BY <1>5 DEF LookReady, WaitReady, WakeUp, PollReady, Free, HeldPlaces, Types
  <2> QED
    BY <2>1, <2>2, SameCounts
<1> QED
  BY <1>2, <1>3, <1>4, <1>5 DEF Own

-----------------------------------------------------------------------------
(* Who frees a frame *)

Leaving(t, j) == At(t, "leaving") /\ JobOn(t) = j
Freeing(k, j) == pc[k] = "freeing" /\ JobOf[k] = j

\* A frame is freed when the coroutine has suspended for good and nobody holds its
\* task, and then there is one who frees it until it is freed.
Frames ==
  /\ \A j \in Job : frees[j] > 0 => final[j] /\ refs[j] = 0
  /\ \A j \in Job : frees[j] <= 2
  /\ \A j \in Job, k \in Holder : Freeing(k, j) => final[j] /\ refs[j] = 0 /\ frees[j] = 0
  /\ \A j \in Job, t \in Thread : Leaving(t, j) => refs[j] = 0 /\ frees[j] = 0
  /\ \A j \in Job, k, l \in Holder : Freeing(k, j) /\ Freeing(l, j) => k = l
  /\ \A j \in Job, k \in Holder, t \in Thread : ~(Freeing(k, j) /\ Leaving(t, j))
  /\ \A j \in Job : final[j] /\ refs[j] = 0 /\ frees[j] = 0 =>
       (\E k \in Holder : Freeing(k, j)) \/ (\E t \in Thread : Leaving(t, j))

LEMMA InitFrames == Init => Frames
  BY DEF Init, Frames, Freeing, Leaving, At

\* Steps of a thread that free nothing and decide nothing.
LEMMA SameFrames ==
  ASSUME Frames, UNCHANGED <<refs, final, frees>>,
         \A j \in Job, k \in Holder : Freeing(k, j)' <=> Freeing(k, j),
         \A j \in Job, t \in Thread : Leaving(t, j)' <=> Leaving(t, j)
  PROVE Frames'
  BY DEF Frames

LEMMA ThreadFrames ==
  ASSUME Types, Places, Stages, Handles, Frames,
         NEW t \in Thread, PopTask(t) \/ LeaveLoop(t) \/ RunJob(t)
  PROVE Frames'
<1>0. PICK j \in Job : j = JobOn(t)
  BY DEF Types, JobOn
<1>1. \A i \in Job, k \in Holder : Freeing(k, i)' <=> Freeing(k, i)
  <2>1. CASE ResumeWaiter(t)
    <3>1. toResume[t] \in Seq(Holder) /\ toResume[t] # <<>>
      BY <2>1 DEF ResumeWaiter, Types
    <3>2. PICK k \in Holder : k = Head(toResume[t]) /\ k = toResume[t][1]
      BY <3>1
    <3>3. pc[k] = "suspended"
      BY <3>1, <3>2 DEF Handles
    <3>4. pc' = [pc EXCEPT ![k] = "get"]
      BY <2>1, <3>2 DEF ResumeWaiter
    <3> QED
      BY <3>3, <3>4 DEF Types, Freeing
  <2>2. CASE ~ResumeWaiter(t)
    <3>1. pc' = pc
      BY <2>2 DEF PopTask, LeaveLoop, RunJob, SetState, FinalSuspend, Suspend, RunOff
    <3> QED
      BY <3>1 DEF Freeing
  <2> QED
    BY <2>1, <2>2
<1>2. \A i \in Job, u \in Thread \ {t} : Leaving(u, i)' <=> Leaving(u, i)
  <2>1. \A u \in Thread \ {t} : UNCHANGED <<mode[u], work[u]>>
    BY DEF PopTask, LeaveLoop, RunJob, SetState, ResumeWaiter, FinalSuspend, Suspend, RunOff, Types
  <2> QED
    BY <2>1 DEF Leaving, At, JobOn
<1>3. CASE PopTask(t) \/ LeaveLoop(t) \/ SetState(t) \/ ResumeWaiter(t)
  <2>1. UNCHANGED <<refs, final, frees>>
    BY <1>3 DEF PopTask, LeaveLoop, SetState, ResumeWaiter, promiseVars
  <2>2. ~At(t, "leaving") /\ ~At(t, "leaving")'
    BY <1>3 DEF PopTask, LeaveLoop, SetState, ResumeWaiter, At, Types
  <2> QED
    BY <1>1, <1>2, <2>1, <2>2, SameFrames DEF Leaving
<1>4. CASE FinalSuspend(t)
  <2>1. /\ final'[j] = TRUE /\ \A i \in Job \ {j} : final'[i] = final[i]
        /\ UNCHANGED <<refs, frees>>
    BY <1>0, <1>4 DEF FinalSuspend, Types
  <2>2. ~final[j] /\ ~At(t, "leaving")
    BY <1>0, <1>4 DEF FinalSuspend, Stages, At
  <2>3. \A i \in Job : Leaving(t, i)' <=> i = j /\ refs[j] = 0
    BY <1>0, <1>4 DEF FinalSuspend, SelfDestructs, Leaving, At, JobOn, Types
  <2>4. frees[j] = 0 /\ \A k \in Holder : ~Freeing(k, j)
    BY <2>2 DEF Frames, Types
  <2> QED
    BY <1>1, <1>2, <2>1, <2>2, <2>3, <2>4 DEF Frames, Leaving
<1>5. CASE Suspend(t)
  <2>1. ~At(t, "leaving") /\ ~At(t, "leaving")' /\ UNCHANGED <<refs, final>>
    BY <1>5 DEF Suspend, At, Types
  <2>2. CASE frees' = frees
    BY <1>1, <1>2, <2>1, <2>2, SameFrames DEF Leaving
  <2>3. CASE frees[j] # 0 /\ frees' = [frees EXCEPT ![j] = 2]
    <3>1. \A i \in Job : frees'[i] = IF i = j THEN 2 ELSE frees[i]
      BY <2>3 DEF Types
    <3>2. /\ final[j] /\ refs[j] = 0
          /\ \A k \in Holder : ~Freeing(k, j)
          /\ \A u \in Thread : ~Leaving(u, j)
      BY <2>3 DEF Frames, Types
    <3> QED
      BY <1>1, <1>2, <2>1, <3>1, <3>2 DEF Frames, Leaving
  <2> QED
    BY <1>0, <1>5, <2>2, <2>3, Zenon DEF Suspend
<1>6. CASE RunOff(t)
  <2>1. Leaving(t, j) /\ ~At(t, "leaving")' /\ UNCHANGED <<refs, final>>
    BY <1>0, <1>6 DEF RunOff, Leaving, At, Types
  <2>2. final[j] /\ refs[j] = 0 /\ frees[j] = 0
    BY <1>0, <2>1 DEF Frames, Stages, Leaving
  <2>3. \A i \in Job : frees'[i] = IF i = j THEN 1 ELSE frees[i]
    BY <1>0, <1>6, <2>2 DEF RunOff, Types
  <2>4. \A u \in Thread \ {t} : ~Leaving(u, j)
    BY <2>1 DEF Places, Leaving, At, Busy
  <2>5. \A k \in Holder : ~Freeing(k, j)
    BY <2>1 DEF Frames
  <2> QED
    BY <1>0, <1>1, <1>2, <2>1, <2>2, <2>3, <2>4, <2>5 DEF Frames, Leaving
<1> QED
  BY <1>3, <1>4, <1>5, <1>6 DEF RunJob

LEMMA HolderFrames ==
  ASSUME Types, Stages, Counts, Frames, NEW k \in Holder,
         \/ \E j \in Job : AddTask(j, k)
         \/ \E from \in Holder : CopyTask(k, from)
         \/ Own(k)
  PROVE Frames'
<1>0. PICK j \in Job : j = JobOf[k]
  BY TaskAssumption DEF TaskAssumption
<1>1. \A i \in Job, t \in Thread : Leaving(t, i)' <=> Leaving(t, i)
  <2>1. \A t \in Thread : (Busy(t)' <=> Busy(t)) /\ work'[t] = work[t]
    BY DEF AddTask, Notified, Sleepers, CopyTask, Own, LookReady, WaitReady, WakeUp, PollReady,
           Release, Free, poolVars, Busy, Types
  <2> QED
    BY <2>1 DEF Leaving, At, JobOn, Busy
<1>2. \A i \in Job, l \in Holder \ {k} : Freeing(l, i)' <=> Freeing(l, i)
  BY DEF AddTask, CopyTask, Own, LookReady, WaitReady, WakeUp, PollReady, Release, Free, Freeing,
         Types
<1>3. ASSUME pc[k] # "freeing", pc'[k] # "freeing", UNCHANGED <<final, frees>>,
             \A i \in Job \ {j} : refs'[i] = refs[i],
             ~final[j] \/ refs'[j] = refs[j] \/ (refs[j] # 0 /\ refs'[j] # 0)
      PROVE Frames'
  <2>1. \A i \in Job, l \in Holder : Freeing(l, i)' <=> Freeing(l, i)
    BY <1>2, <1>3 DEF Freeing
  <2>2. refs' [j] = refs[j] \/ /\ ~(final[j] /\ (refs[j] = 0 \/ refs'[j] = 0)) /\ frees[j] = 0
                               /\ \A l \in Holder : ~Freeing(l, j)
                               /\ \A t \in Thread : ~Leaving(t, j)
    BY <1>3 DEF Frames, Stages, Leaving, Types
  <2> QED
    BY <1>1, <1>3, <2>1, <2>2 DEF Frames
<1>4. ASSUME NEW i \in Job, AddTask(i, k) PROVE Frames'
  <2>1. i = j /\ ~final[j]
    BY <1>0, <1>4 DEF AddTask, Stages, Ready
  <2>2. pc[k] # "freeing"
    BY <1>0, <2>1 DEF Frames, Freeing
  <2> QED
    BY <1>3, <1>4, <2>1, <2>2 DEF AddTask, Types
<1>5. ASSUME NEW from \in Holder, CopyTask(k, from) PROVE Frames'
  <2>1. refs[j] \in Nat \ {0}
    BY <1>0, <1>5, HolderCounted DEF CopyTask, HeldPlaces
  <2>2. refs' = [refs EXCEPT ![j] = @ + 1] /\ pc[k] = "none" /\ pc' = [pc EXCEPT ![k] = "start"]
    BY <1>0, <1>5 DEF CopyTask
  <2> QED
    BY <1>3, <1>5, <2>1, <2>2 DEF CopyTask, Types
<1>6. CASE LookReady(k) \/ WaitReady(k) \/ WakeUp(k) \/ PollReady(k)
  <2>1. UNCHANGED <<refs, final, frees>>
    BY <1>6 DEF LookReady, WaitReady, WakeUp, PollReady, promiseVars
  <2>2. pc[k] # "freeing" /\ pc'[k] # "freeing"
    BY <1>6 DEF LookReady, WaitReady, WakeUp, PollReady, Types
  <2> QED
    BY <1>3, <2>1, <2>2
<1>7. CASE Release(k)
  <2>1. pc[k] \in {"get", "start"} /\ UNCHANGED <<final, frees>>
    BY <1>7 DEF Release
  <2>2. refs[j] \in Nat \ {0}
    BY <1>0, <2>1, HolderCounted DEF HeldPlaces
  <2>3. refs'[j] = refs[j] - 1 /\ \A i \in Job \ {j} : refs'[i] = refs[i]
    BY <1>0, <1>7 DEF Release, Types
  <2>4. pc'[k] = IF FreesFrame(j) THEN "freeing" ELSE "done"
    BY <1>0, <1>7 DEF Release, Types
  <2>5. CASE ~FreesFrame(j)
    BY <1>3, <2>1, <2>2, <2>3, <2>4, <2>5 DEF FreesFrame
  <2>6. CASE FreesFrame(j)
    <3>1. refs[j] = 1 /\ refs'[j] = 0 /\ final[j] /\ frees[j] = 0
      <4>1. refs[j] = 1 /\ final[j]
        BY <2>6 DEF FreesFrame
      <4>2. ~(frees[j] > 0) /\ frees[j] \in Nat
        BY <4>1 DEF Frames, Types
      <4> QED
        BY <2>3, <4>1, <4>2
    <3>2. /\ \A i \in Job : Freeing(k, i)' <=> i = j
          /\ \A i \in Job : ~Freeing(k, i)
      BY <1>0, <2>1, <2>4, <2>6 DEF Freeing
    <3>3. /\ \A l \in Holder : ~Freeing(l, j)
          /\ \A t \in Thread : ~Leaving(t, j)
      BY <3>1 DEF Frames
    <3> QED
      BY <1>1, <1>2, <2>1, <2>3, <3>1, <3>2, <3>3 DEF Frames
  <2> QED
    BY <2>5, <2>6
<1>8. CASE Free(k)
  <2>1. Freeing(k, j) /\ pc'[k] = "done" /\ UNCHANGED <<refs, final>>
    BY <1>0, <1>8 DEF Free, Freeing, Types
  <2>2. final[j] /\ refs[j] = 0 /\ frees[j] = 0
    BY <2>1 DEF Frames
  <2>3. \A i \in Job : frees'[i] = IF i = j THEN 1 ELSE frees[i]
    BY <1>0, <1>8, <2>2 DEF Free, Types
  <2>4. /\ \A l \in Holder \ {k} : ~Freeing(l, j)
        /\ \A t \in Thread : ~Leaving(t, j)
    BY <2>1 DEF Frames
  <2>5. \A i \in Job : ~Freeing(k, i)' /\ (Freeing(k, i) => i = j)
    BY <1>0, <2>1 DEF Freeing
  <2> QED
    BY <1>1, <1>2, <2>1, <2>2, <2>3, <2>4, <2>5 DEF Frames
<1> QED
  BY <1>4, <1>5, <1>6, <1>7, <1>8 DEF Own

-----------------------------------------------------------------------------
(* The theorems *)

IInv == Types /\ Places /\ Stages /\ Handles /\ Started /\ Counts /\ Frames

LEMMA InitInv == Init => IInv
  BY InitTypes, InitStages, InitHandles, InitCounts, InitFrames DEF IInv

LEMMA NextInv == IInv /\ [Next]_vars => IInv'
<1> SUFFICES ASSUME IInv, [Next]_vars PROVE IInv'
  OBVIOUS
<1>1. Types'
  BY NextTypes DEF IInv
<1>2. ASSUME NEW t \in Thread, PopTask(t) \/ LeaveLoop(t) \/ RunJob(t) PROVE IInv'
  BY <1>1, <1>2, ThreadPlaces, ThreadStages, ThreadHandles, ThreadCounts, ThreadFrames DEF IInv
<1>3. ASSUME NEW k \in Holder,
             \/ \E j \in Job : AddTask(j, k)
             \/ \E from \in Holder : CopyTask(k, from)
             \/ Own(k)
      PROVE IInv'
  BY <1>1, <1>3, HolderPlaces, HolderStages, HolderHandles, HolderCounts, HolderFrames DEF IInv
<1>4. CASE UNCHANGED vars
  <2>1. Places' /\ Stages' /\ Handles' /\ Started'
    BY <1>4 DEF vars, poolVars, promiseVars, IInv, Places, Stages, Handles, Started, Busy, At,
                JobOn, Ready
  <2>2. Counts'
    BY <1>4, SameCounts DEF vars, promiseVars, IInv
  <2>3. Frames'
    BY <1>4, SameFrames DEF vars, poolVars, promiseVars, IInv, Freeing, Leaving, At, JobOn
  <2> QED
    BY <1>1, <2>1, <2>2, <2>3 DEF IInv
<1> QED
  BY <1>2, <1>3, <1>4 DEF Next

LEMMA AlwaysIInv == Spec => []IInv
  BY InitInv, NextInv, PTL DEF Spec

\* promise.hpp: every count and every queue is what its type says, and no frame is
\* held by more than hold it.
THEOREM TypeCorrect == Spec => []TypeOK
<1>1. IInv => TypeOK
  <2> SUFFICES ASSUME IInv PROVE TypeOK
    OBVIOUS
  <2>1. refs \in [Job -> 0 .. Cardinality(Holder)]
    <3>1. \A j \in Job : refs[j] \in 0 .. Cardinality(Holder)
      BY UsersFinite DEF IInv, Counts
    <3> QED
      BY <3>1 DEF IInv, Types
  <2>2. frees \in [Job -> 0 .. 2]
    BY DEF IInv, Types, Frames
  <2> QED
    BY <2>1, <2>2 DEF TypeOK, IInv, Types, HeldPlaces
<1> QED
  BY <1>1, AlwaysIInv, PTL

\* release_promise_ref and final_suspend: nobody who still needs a frame finds it
\* freed, however many hold its task and whenever they come and go.
THEOREM FrameInUseAlwaysThere == Spec => []FrameInUseIsThere
<1>1. IInv => FrameInUseIsThere
  <2> SUFFICES ASSUME IInv PROVE FrameInUseIsThere
    OBVIOUS
  <2>1. ASSUME NEW k \in Holder, pc[k] \notin Gone \union {"none"} PROVE frees[JobOf[k]] = 0
    <3>1. PICK j \in Job : j = JobOf[k]
      BY TaskAssumption DEF TaskAssumption
    <3>2. refs[j] \in Nat \ {0}
      BY <2>1, <3>1, HolderCounted DEF IInv, Types
    <3>3. ~(frees[j] > 0) /\ frees[j] \in Nat
      BY <3>2 DEF IInv, Frames, Types
    <3> QED
      BY <3>1, <3>3
  <2>2. ASSUME NEW t \in Thread, At(t, "body") \/ At(t, "resuming") PROVE frees[JobOn(t)] = 0
    <3>1. PICK j \in Job : j = JobOn(t)
      BY DEF IInv, Types, JobOn
    <3>2. ~final[j]
      BY <2>2, <3>1 DEF IInv, Stages, Ready
    <3>3. ~(frees[j] > 0) /\ frees[j] \in Nat
      BY <3>2 DEF IInv, Frames, Types
    <3> QED
      BY <3>1, <3>3
  <2> QED
    BY <2>1, <2>2 DEF FrameInUseIsThere
<1> QED
  BY <1>1, AlwaysIInv, PTL

\* The same code never leaves a frame to nobody.
THEOREM FrameAlwaysFreed == Spec => []FrameIsFreed
<1>1. IInv => FrameIsFreed
  <2> SUFFICES ASSUME IInv, NEW j \in Job, final[j],
                      \A t \in Thread : work[t].at # "nowhere" => JobOn(t) # j,
                      \A k \in HoldersOf(j) : pc[k] = "done"
               PROVE frees[j] > 0
    BY DEF FrameIsFreed
  <2>1. Users(j) = {}
    BY DEF Users, HeldPlaces
  <2>2. refs[j] = 0
    BY <2>1, FS_EmptySet DEF IInv, Counts
  <2>3. \A k \in Holder : ~Freeing(k, j)
    BY DEF Freeing, HoldersOf
  <2>4. \A t \in Thread : ~Leaving(t, j)
    BY DEF Leaving, At
  <2>5. frees[j] # 0 /\ frees[j] \in Nat
    BY <2>2, <2>3, <2>4 DEF IInv, Frames, Types
  <2> QED
    BY <2>5
<1> QED
  BY <1>1, AlwaysIInv, PTL

-----------------------------------------------------------------------------
(* A held task is a future *)

\* What a holder sees, place by place, before a step and after it.
LEMMA Seen ==
  ASSUME NEW k \in Holder
  PROVE /\ pc[k] \in Gone \union {"none"} => taskState[k] = "empty"
        /\ pc[k] = "get" => taskState[k] = state[JobOf[k]]
        /\ pc[k] \in HeldPlaces \ {"get"} => taskState[k] = "running"
        /\ pc'[k] \in Gone \union {"none"} => taskState'[k] = "empty"
        /\ pc'[k] = "get" => taskState'[k] = state'[JobOf[k]]
        /\ pc'[k] \in HeldPlaces \ {"get"} => taskState'[k] = "running"
  BY DEF taskState, Gone, HeldPlaces

\* The futures of all after a step, when only one holder's may change.
LEMMA OneFuture ==
  ASSUME NEW k \in Holder, \A l \in Holder \ {k} : taskState'[l] = taskState[l]
  PROVE /\ taskState' = [taskState EXCEPT ![k] = taskState'[k]]
        /\ taskState'[k] = taskState[k] => taskState' = taskState
<1>1. taskState = [l \in Holder |-> taskState[l]] /\ taskState' = [l \in Holder |-> taskState'[l]]
  BY DEF taskState
<1> HIDE DEF taskState
<1> QED
  BY <1>1

\* A holder's future is not affected by what does not change its place or its job.
LEMMA OtherFuture ==
  ASSUME Types, Started, NEW k \in Holder, pc'[k] = pc[k],
         state'[JobOf[k]] = state[JobOf[k]] \/ ~Ready(JobOf[k])
  PROVE taskState'[k] = taskState[k]
<1>1. pc[k] \in Gone \union {"none"} \/ pc[k] = "get" \/ pc[k] \in HeldPlaces \ {"get"}
  BY DEF Types
<1>2. pc[k] = "get" => state'[JobOf[k]] = state[JobOf[k]]
  BY DEF Started
<1> QED
  BY <1>1, <1>2, Seen

LEMMA StepsOfFutures == IInv /\ [Next]_vars => [Held!Next]_taskState
<1> SUFFICES ASSUME IInv, [Next]_vars PROVE [Held!Next]_taskState
  OBVIOUS
<1> USE DEF IInv
<1>0. \A k \in Holder : JobOf[k] \in Job
  BY TaskAssumption DEF TaskAssumption
\* Steps that are no step of any future.
<1>1. ASSUME \A k \in Holder : taskState'[k] = taskState[k] PROVE taskState' = taskState
  <2>1. CASE Holder = {}
    BY <2>1 DEF taskState
  <2>2. CASE Holder # {}
    BY <1>1, <2>2, OneFuture
  <2> QED
    BY <2>1, <2>2
<1>2. ASSUME NEW t \in Thread, PopTask(t) \/ LeaveLoop(t) \/ FinalSuspend(t) \/ Suspend(t)
                               \/ RunOff(t)
      PROVE taskState' = taskState
  BY <1>2 DEF PopTask, LeaveLoop, FinalSuspend, Suspend, RunOff, promiseVars, taskState
<1>3. ASSUME NEW t \in Thread, SetState(t) PROVE taskState' = taskState
  <2>1. PICK j \in Job : j = JobOn(t)
    BY DEF Types, JobOn
  <2>2. PICK result \in {"value", "exception"} : state' = [state EXCEPT ![j] = result]
    BY <1>3, <2>1 DEF SetState
  <2>3. ~Ready(j) /\ pc' = pc
    BY <1>3, <2>1 DEF SetState, Stages, Ready
  <2>4. ASSUME NEW k \in Holder PROVE taskState'[k] = taskState[k]
    <3>1. state'[JobOf[k]] = state[JobOf[k]] \/ ~Ready(JobOf[k])
      BY <1>0, <2>2, <2>3 DEF Types
    <3> QED
      BY <2>3, <3>1, OtherFuture
  <2> QED
    BY <1>1, <2>4
\* Steps of one holder's future.
<1>4. ASSUME NEW k \in Holder, pc' = [pc EXCEPT ![k] = pc'[k]], state' = state
      PROVE /\ taskState' = [taskState EXCEPT ![k] = taskState'[k]]
            /\ taskState'[k] = taskState[k] => taskState' = taskState
  <2>1. ASSUME NEW l \in Holder \ {k} PROVE taskState'[l] = taskState[l]
    BY <1>4, OtherFuture DEF Types
  <2> QED
    BY <2>1, OneFuture
<1>5. ASSUME NEW k \in Holder, pc[k] \in HeldPlaces \ {"get"}, pc' = [pc EXCEPT ![k] = "get"],
             state' = state, Ready(JobOf[k])
      PROVE Held!Settle(k)
  <2>1. taskState[k] = "running" /\ taskState'[k] \in {"value", "exception"}
    BY <1>5, Seen DEF Types, Ready
  <2>2. taskState' = [taskState EXCEPT ![k] = taskState'[k]]
    BY <1>4, <1>5 DEF Types
  <2> QED
    BY <2>1, <2>2 DEF Held!Settle
<1>6. ASSUME NEW t \in Thread, ResumeWaiter(t) PROVE Held!Next
  <2>1. toResume[t] \in Seq(Holder) /\ toResume[t] # <<>>
    BY <1>6 DEF ResumeWaiter, Types
  <2>2. PICK k \in Holder : k = Head(toResume[t]) /\ k = toResume[t][1]
    BY <2>1
  <2>3. 1 \in 1 .. Len(toResume[t])
    BY <2>1
  <2>4. pc[k] = "suspended" /\ JobOf[k] = JobOn(t) /\ At(t, "resuming")
    BY <2>2, <2>3 DEF Handles
  <2>5. Ready(JobOf[k])
    BY <2>4 DEF Stages, At, Busy
  <2>6. pc' = [pc EXCEPT ![k] = "get"] /\ state' = state
    BY <1>6, <2>2 DEF ResumeWaiter, promiseVars
  <2> QED
    BY <1>5, <2>4, <2>5, <2>6 DEF Held!Next, HeldPlaces
<1>7. ASSUME NEW j \in Job, NEW k \in Holder, AddTask(j, k) PROVE Held!Ask(k)
  <2>1. JobOf[k] = j /\ state[j] = "none" /\ pc' = [pc EXCEPT ![k] = "start"]
        /\ state' = [state EXCEPT ![j] = "running"]
    BY <1>7 DEF AddTask
  <2>2. pc[k] = "none" /\ pc'[k] = "start"
    BY <2>1 DEF Started, Types
  <2>3. taskState[k] = "empty" /\ taskState'[k] = "running"
    BY <2>2, Seen DEF HeldPlaces
  <2>4. ASSUME NEW l \in Holder \ {k} PROVE taskState'[l] = taskState[l]
    <3>1. pc'[l] = pc[l] /\ (state'[JobOf[l]] = state[JobOf[l]] \/ ~Ready(JobOf[l]))
      BY <1>0, <2>1 DEF Types, Ready
    <3> QED
      BY <3>1, OtherFuture
  <2> QED
    BY <2>3, <2>4, OneFuture DEF Held!Ask
<1>8. ASSUME NEW k \in Holder, NEW from \in Holder, CopyTask(k, from) PROVE Held!Ask(k)
  <2>1. pc[k] = "none" /\ pc' = [pc EXCEPT ![k] = "start"] /\ state' = state
    BY <1>8 DEF CopyTask
  <2>2. taskState[k] = "empty" /\ taskState'[k] = "running"
    BY <2>1, Seen DEF HeldPlaces, Types
  <2>3. taskState' = [taskState EXCEPT ![k] = taskState'[k]]
    BY <1>4, <2>1 DEF Types
  <2> QED
    BY <2>2, <2>3 DEF Held!Ask
<1>9. ASSUME NEW k \in Holder, LookReady(k) \/ WaitReady(k) \/ WakeUp(k) \/ PollReady(k)
      PROVE Held!Settle(k) \/ taskState' = taskState
  <2>1. pc[k] \in HeldPlaces \ {"get"} /\ state' = state
    BY <1>9 DEF LookReady, WaitReady, WakeUp, PollReady, promiseVars, HeldPlaces
  <2>2. \/ pc' = [pc EXCEPT ![k] = "get"] /\ Ready(JobOf[k])
        \/ \E p \in {"locking", "suspended", "blocked"} : pc' = [pc EXCEPT ![k] = p]
    BY <1>9 DEF LookReady, WaitReady, WakeUp, PollReady, SeenReady
  <2>3. ASSUME NEW p \in {"locking", "suspended", "blocked"}, pc' = [pc EXCEPT ![k] = p]
        PROVE taskState' = taskState
    <3>1. pc'[k] = p
      BY <2>3 DEF Types
    <3>2. taskState[k] = "running" /\ taskState'[k] = "running"
      BY <2>1, <3>1, Seen DEF HeldPlaces
    <3> QED
      BY <1>4, <2>1, <2>3, <3>1, <3>2
  <2> QED
    BY <1>5, <2>1, <2>2, <2>3
<1>10. ASSUME NEW k \in Holder, Release(k) PROVE Held!Drop(k)
  <2>1. pc[k] \in {"get", "start"} /\ pc' = [pc EXCEPT ![k] = pc'[k]] /\ pc'[k] \in Gone
        /\ state' = state
    BY <1>10 DEF Release, Gone, Types
  <2>2. pc[k] = "get" => Ready(JobOf[k])
    BY DEF Started
  <2>3. taskState[k] # "empty" /\ taskState'[k] = "empty"
    BY <2>1, <2>2, Seen DEF Ready, HeldPlaces
  <2> QED
    BY <1>4, <2>1, <2>3 DEF Held!Drop
<1>11. ASSUME NEW k \in Holder, Free(k) PROVE taskState' = taskState
  <2>1. pc[k] \in Gone /\ pc' = [pc EXCEPT ![k] = "done"] /\ state' = state
    BY <1>11 DEF Free, Gone
  <2>2. taskState[k] = "empty" /\ taskState'[k] = "empty"
    BY <2>1, Seen DEF Gone, Types
  <2> QED
    BY <1>4, <2>1, <2>2 DEF Types
<1>12. CASE UNCHANGED vars
  BY <1>12 DEF vars, promiseVars, taskState
<1> QED
  BY <1>2, <1>3, <1>6, <1>7, <1>8, <1>9, <1>10, <1>11, <1>12 DEF Next, RunJob, Own, Held!Next

\* promise.hpp and task.hpp: every held task, however it is held, begins empty and
\* only ever makes the steps of a future.  That it becomes ready is left to TLC.
THEOREM HoldersHaveFutures == Spec => Held!Init /\ [][Held!Next]_taskState
<1>1. Init => Held!Init
  BY DEF Init, Held!Init, taskState, Gone
<1> QED
  BY <1>1, StepsOfFutures, AlwaysIInv, PTL DEF Spec
==============================================================================
