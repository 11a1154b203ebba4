------------------------------- MODULE Network -------------------------------
(***************************************************************************)
(* The users of the HTTP client together: the batched lookups of the world *)
(* state on the main thread and the export on its own, with the servers,   *)
(* the pool and the clock.  All delayed requests depend on the main thread,*)
(* which does nothing else while it joins the export thread.               *)
(***************************************************************************)
EXTENDS Lookups, PlayerExport

CONSTANTS
  Others,  \* callers that ask for a friends list, an inventory, a list update, ...
  Asks,    \* the endpoint of each of them
  Mixes    \* bound: the sets of callers that are busy in one behaviour

ASSUME NetworkAssumption ==
  /\ Others \subseteq Caller \ (Service \union {Exporter})
  /\ Asks \in [Others -> Endpoint]
  /\ Mixes \subseteq SUBSET Caller

VARIABLE busy  \* the callers of this behaviour

vars == <<httpVars, lookupVars, exportVars, busy>>

Init == HttpInit /\ LookupsInit /\ ExportInit /\ busy \in Mixes

\* TF2BDApplication::Update resumes delayed requests and updates the world.
MainLoop ==
  /\ ~joining
  /\ \/ \E c \in Caller : Resume(c) /\ UNCHANGED <<lookupVars, exportVars>>
     \/ \E s \in Service : UpdateLookups(s) /\ UNCHANGED exportVars

\* The user, the views that are drawn, and the game, by way of the main thread.
Events ==
  /\ ~joining
  /\ UNCHANGED exportVars
  /\ \/ \E s \in Service \intersect busy, id \in Id : View(s, id)
     \/ ClearPlayers
     \/ \E s \in Service \intersect busy : SwitchService(s)

\* Any other use of the client, on whatever thread.
OtherRequest ==
  /\ \E c \in Others \intersect busy : Drop(c) \/ Ask(c, Asks[c])
  /\ UNCHANGED <<lookupVars, exportVars>>

Export ==
  /\ Exporter \in busy
  /\ ExportThread \/ ExportMain
  /\ UNCHANGED lookupVars

Servers ==
  /\ StartTransfer \/ \E c \in Caller : TransferDone(c)
  /\ UNCHANGED <<lookupVars, exportVars>>

Tick == HttpTick /\ LookupsTick /\ UNCHANGED exportVars

Next ==
  /\ MainLoop \/ Events \/ OtherRequest \/ Export \/ Servers \/ Tick
  /\ UNCHANGED busy

\* The main loop and the threads go on, transfers end (they have a timeout), time
\* passes.  Nobody has to look at a player, to start an export or to cancel it.
Fairness ==
  /\ WF_vars(Tick /\ UNCHANGED busy)
  /\ WF_vars(StartTransfer /\ UNCHANGED <<lookupVars, exportVars, busy>>)
  /\ \A c \in Caller :
       /\ WF_vars(TransferDone(c) /\ UNCHANGED <<lookupVars, exportVars, busy>>)
       /\ WF_vars(~joining /\ Resume(c) /\ UNCHANGED <<lookupVars, exportVars, busy>>)
  /\ \A s \in Service : WF_vars(~joining /\ UpdateLookups(s) /\ UNCHANGED <<exportVars, busy>>)
  /\ WF_vars(ExportThread /\ UNCHANGED <<lookupVars, busy>>)
  /\ WF_vars(Joined /\ UNCHANGED <<lookupVars, busy>>)

Spec == Init /\ [][Next]_vars /\ Fairness

\* Every variable of the client and its users has its type.
TypeOK == HttpTypeOK /\ LookupsTypeOK /\ ExportTypeOK
===============================================================================
