----------------------------- MODULE MCModerator -----------------------------
(* Moderator in a small lobby: tools a and b of one team, the marked players x  *)
(* of the other team and y of theirs, and two more players in the other team.   *)
EXTENDS Moderator

CONSTANTS a, x, y

MCOrder == SelectSeq(<<x, y>>, LAMBDA m : m \in Marked)
MCTeam == [p \in Tools \union Marked |-> IF p = x THEN "invaders" ELSE "defenders"]
MCUserID == [t \in Tools |-> IF t = a THEN 1 ELSE 2]
MCOthers == [team \in {"defenders", "invaders"} |-> IF team = "invaders" THEN 2 ELSE 0]
=============================================================================
