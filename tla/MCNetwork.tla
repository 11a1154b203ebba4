------------------------------ MODULE MCNetwork ------------------------------
(* Instances of Network for TLC: one or two services, and the export, on the *)
(* hosts of Steam and SteamHistory.                                          *)
EXTENDS Network

MCMixes == {{"summary"}, {"source"}, {"export"}, {"friends", "lists", "playtime"}}
MCQuitMixes == {{"export", "friends"}}
MCEndpoint == {"steam", "history"}
MCHostOf == [e \in MCEndpoint |-> e]
MCMinInterval == [steam |-> 1, history |-> 2]
MCTries == [transport |-> 1, busy |-> 2, other |-> 0]
MCErrors == DOMAIN MCTries
MCAsks == [c \in Others |-> "steam"]
MCServing == [s \in Service |-> IF s = "source" THEN "history" ELSE "steam"]
MCOnLists == <<{"own"}, {"banned"}, {"sourceBanned"}, {"own", "banned"}>>
MCAsking == [summaries |-> "steam", bans |-> "steam", source |-> "history"]
===============================================================================
