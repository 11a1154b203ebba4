---------------------------- MODULE MCTaskRuntime ----------------------------
(* Instances of TaskRuntime for TLC: a job whose task is awaited twice and    *)
(* blocked on, and one whose task is looked at or dropped.                    *)
EXTENDS TaskRuntime

MCJobOf == [awaiter |-> "parse", blocker |-> "parse", other |-> "parse", poller |-> "fetch"]
MCHow == [awaiter |-> "await", blocker |-> "block", other |-> "await", poller |-> "poll"]
MCHolder == DOMAIN MCHow
===============================================================================
