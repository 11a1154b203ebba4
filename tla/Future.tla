-------------------------------- MODULE Future --------------------------------
(***************************************************************************)
(* What a tf2pl::task promises to the one that awaits it, whatever runs    *)
(* behind it: once asked for, it becomes a value or an exception exactly   *)
(* once, stays that until it is dropped, and does not stay pending.        *)
(***************************************************************************)
CONSTANT Caller   \* those who may hold a task, one each at a time

VARIABLE future   \* task_state of the task each of them holds

Init == future = [c \in Caller |-> "empty"]

Ask(c) ==
  /\ future[c] = "empty"
  /\ future' = [future EXCEPT ![c] = "running"]

Settle(c) ==
  /\ future[c] = "running"
  /\ \E result \in {"value", "exception"} : future' = [future EXCEPT ![c] = result]

\* The holder may let go of the task before it is ready.
Drop(c) ==
  /\ future[c] # "empty"
  /\ future' = [future EXCEPT ![c] = "empty"]

Next == \E c \in Caller : Ask(c) \/ Settle(c) \/ Drop(c)

Spec == Init /\ [][Next]_future /\ \A c \in Caller : WF_future(Settle(c))
===============================================================================
