------------------------------ MODULE PlayerList ------------------------------
(***************************************************************************)
(* The user's own player list, cfg/playerlist.json: the marks the program  *)
(* keeps in memory, the file it keeps them in, and what happens to them    *)
(* when the file is reloaded, edited by hand, cannot be written, or is     *)
(* read again after a crash (Config/PlayerListJSON.cpp, the load and save  *)
(* of Config/ConfigHelpers.cpp, Filesystem::WriteFile and the two setters  *)
(* of ModeratorLogic.cpp).                                                 *)
(*                                                                         *)
(* A player without an entry and a player whose entry is empty are one     *)
(* value here, Unmarked: nothing but the size of the list tells them       *)
(* apart.  The time and the name a player was last seen with are left out. *)
(* The official list exists for one SteamID only (IsOfficial) and is left  *)
(* out too.                                                                *)
(***************************************************************************)
EXTENDS FiniteSets, Naturals

CONSTANTS Player,            \* the players somebody may mark
          Mark,              \* the attributes and custom tags in use
          Tag,               \* those that are custom tags
          Reason,            \* the proofs somebody may give
          StartedInExeDir,   \* is the working directory the one of the program?  If
                             \*   not it is one without a cfg/playerlist.json
          MaxEdits,          \* bound: hand edits of the file
          MaxFailures,       \* bound: saves and copies that fail
          MaxCrashes,        \* bound: crashes
          Missing,           \* there is no file
          NoAck              \* no save stands for what is in memory

ASSUME PlayerListAssumption ==
  /\ StartedInExeDir \in BOOLEAN
  /\ Tag \subseteq Mark \ {"Cheater", "Suspicious", "SuspectedCheater"}
  /\ {MaxEdits, MaxFailures, MaxCrashes} \subseteq Nat

VARIABLES running,    \* the program is up
          users,      \* m_UserList: the entry of each player
          file,       \* cfg/playerlist.json
          backups,    \* the files saved beside it
          acked,      \* history: the saved marks of the last save that succeeded,
                      \*   NoAck when the file was edited or a save failed since
          edits, failures, crashes

vars == <<running, users, file, backups, acked, edits, failures, crashes>>

Entry == [saved : SUBSET Mark, transient : SUBSET Mark, proof : SUBSET Reason]

Unmarked == [saved |-> {}, transient |-> {}, proof |-> {}]
Nobody == [q \in Player |-> Unmarked]

\* What the file says of a player, and whether all of it can be read: "text" is
\* a file that is no JSON or has a wrong schema, "entry" one with a bad entry.
FileEntry == [saved : SUBSET Mark, proof : SUBSET Reason]
NotListed == [saved |-> {}, proof |-> {}]
Fault == {"none", "entry", "text"}
Contents == [entries : [Player -> FileEntry], fault : Fault]

ASSUME MissingAssumption == Missing \notin Contents

\* A file that was truncated and never written.
Torn == [entries |-> [q \in Player |-> NotListed], fault |-> "text"]

-----------------------------------------------------------------------------
(* Attributes *)

Suspicion == {"Suspicious", "SuspectedCheater"}

ApplyChange(marks, m, set) == IF set THEN marks \cup {m} ELSE marks \ {m}

\* A confirmed cheater is not a suspect: marking the one clears the other, and
\* a suspicion about a confirmed cheater is ignored.
SetAttribute(marks, m, set) ==
  CASE set /\ m = "Cheater" -> (marks \ Suspicion) \cup {m}
    [] set /\ m \in Suspicion /\ "Cheater" \in marks -> marks
    [] OTHER -> ApplyChange(marks, m, set)

-----------------------------------------------------------------------------
(* Writing and reading the file *)

SerializeProven(u) ==
  [entries |-> [q \in Player |-> IF u[q].proof = {} THEN NotListed
                                 ELSE [saved |-> u[q].saved, proof |-> u[q].proof]],
   fault |-> "none"]

SerializeAll(u) ==
  [entries |-> [q \in Player |-> [saved |-> u[q].saved, proof |-> u[q].proof]],
   fault |-> "none"]

\* An entry with no saved attribute is not written, its proofs included;
\* transient attributes are not written at all.
Serialize(u) ==
  [entries |-> [q \in Player |-> IF u[q].saved = {} THEN NotListed
                                 ELSE [saved |-> u[q].saved, proof |-> u[q].proof]],
   fault |-> "none"]

\* The entries a load ends with: all of them; those in front of the bad one; none.
Deserialize(f) ==
  LET Read(Q) == [q \in Player |->
                    IF q \in Q THEN [saved |-> f.entries[q].saved, transient |-> {},
                                     proof |-> f.entries[q].proof]
                    ELSE Unmarked]
  IN CASE f.fault = "none"  -> {Read(Player)}
       [] f.fault = "entry" -> {Read(Q) : Q \in SUBSET Player}
       [] OTHER             -> {Read({})}

Acknowledge(u) == [q \in Player |-> u[q].saved]

\* SaveFile does not succeed: the file is not opened, or it is truncated and the
\* write fails or the last of it is never flushed, which nobody is told.
SaveFails(f) == /\ failures < MaxFailures
                /\ failures' = failures + 1
                /\ file' \in {f, Torn}
                /\ acked' = NoAck

Saved(u) == /\ file' = Serialize(u)
            /\ UNCHANGED failures

\* SaveFiles, which does not pass on what SaveFile returns.
Save(u) == \/ Saved(u) /\ acked' = Acknowledge(u)
           \/ SaveFails(file)

-----------------------------------------------------------------------------
(* The operations *)

Init == /\ running = FALSE
        /\ users = Nobody
        /\ file = Missing
        /\ backups = {}
        /\ acked = NoAck
        /\ edits = 0 /\ failures = 0 /\ crashes = 0

\* ModifyPlayer with what one of its callers made of the entry: a change is
\* applied to the list and the list is saved.
ModifyPlayer(q, entry) ==
  /\ running
  /\ entry # users[q]
  /\ users' = [users EXCEPT ![q] = entry]
  /\ Save(users')
  /\ UNCHANGED <<running, backups, edits, crashes>>

\* SetPlayerAttribute and SetPlayerCustomTag.  The first keeps the proof given
\* for taking a mark back, the second does not.
Proof(m, set, why) == IF m \in Tag /\ ~set THEN {} ELSE why

MarkSaved(q, m, set, why) ==
  ModifyPlayer(q, [users[q] EXCEPT !.saved = SetAttribute(@, m, set),
                                   !.proof = @ \cup Proof(m, set, why)])

MarkTransient(q, m, set, why) ==
  ModifyPlayer(q, [users[q] EXCEPT !.transient = SetAttribute(@, m, set),
                                   !.proof = @ \cup Proof(m, set, why)])

\* The button "Remove from my list".
RemoveFromWritableList(q) ==
  ModifyPlayer(q, [users[q] EXCEPT !.saved = {}, !.proof = {}])

\* The program ends: nothing is written on the way out.
Exit == running' = FALSE /\ users' = Nobody

\* Mutant of SaveConfigFileBackup: the file is not copied.
NoBackup(f) == UNCHANGED backups

\* The copy is made from the name as given, which is relative to the working
\* directory, not from the path the name was resolved to for reading.
SaveConfigFileBackup(f) == StartedInExeDir /\ backups' = backups \cup {f}

\* Its handler for exceptions ends the program: the file is left as it is.
BackupFails ==
  /\ IF StartedInExeDir THEN failures < MaxFailures /\ failures' = failures + 1
                        ELSE UNCHANGED failures
  /\ Exit
  /\ UNCHANGED <<file, backups, acked>>

\* LoadFileAsync with saveAfterLoad, and a LoadFiles that leaves the list it has
\* alone when there is no file.  A list that was read in full is written back, and
\* a failure of that is only logged; one that was not is copied and replaced, and
\* the program ends if either fails and says so.
LoadFile(old) ==
  LET Loaded == running' = TRUE /\ users' \in Deserialize(file)
      Resaved == /\ Loaded /\ Saved(users')
                 /\ acked' = IF acked = NoAck THEN Acknowledge(users') ELSE acked
  IN  \/ /\ file = Missing
         /\ running' = TRUE /\ users' = old
         /\ UNCHANGED <<file, backups, acked, failures>>
      \/ /\ file # Missing /\ file.fault = "none"
         /\ Resaved \/ (Loaded /\ SaveFails(file))
         /\ UNCHANGED backups
      \/ /\ file # Missing /\ file.fault # "none"
         /\ \/ BackupFails
            \/ /\ SaveConfigFileBackup(file)
               /\ \/ Resaved
                  \/ SaveFails(file) /\ (Exit \/ (Loaded /\ file' = Torn))

Start == /\ ~running
         /\ LoadFile(Nobody)
         /\ UNCHANGED <<edits, crashes>>

ReloadConfigFiles == /\ running
                     /\ LoadFile(users)
                     /\ UNCHANGED <<edits, crashes>>

\* The user closes the program, or it dies.
Crash == /\ running /\ crashes < MaxCrashes
         /\ crashes' = crashes + 1
         /\ Exit
         /\ UNCHANGED <<file, backups, acked, edits, failures>>

\* The user edits the file, well or badly.
EditFile == /\ edits < MaxEdits
            /\ edits' = edits + 1
            /\ file # Missing
            /\ \/ \E f \in Fault \ {"none"} : file' = [file EXCEPT !.fault = f]
               \/ \E q \in Player, e \in FileEntry :
                    /\ e.saved # {}
                    /\ file' = [file EXCEPT !.entries[q] = e]
            /\ acked' = NoAck
            /\ UNCHANGED <<running, users, backups, failures, crashes>>

Next == \/ \E q \in Player, m \in Mark, set \in BOOLEAN, why \in {{}} \cup {{r} : r \in Reason} :
             MarkSaved(q, m, set, why) \/ MarkTransient(q, m, set, why)
        \/ \E q \in Player : RemoveFromWritableList(q)
        \/ Start \/ ReloadConfigFiles \/ Crash \/ EditFile

Spec == Init /\ [][Next]_vars

-----------------------------------------------------------------------------
(* Properties *)

\* Types, and what the lists never hold: a list is in memory only while the
\* program is up, and a file the program wrote and nobody touched lists no
\* player without a mark (PlayerListFile::Serialize skips them).
TypeOK ==
  /\ running \in BOOLEAN
  /\ users \in [Player -> Entry]
  /\ ~running => users = Nobody
  /\ file \in Contents \cup {Missing}
  /\ file # Missing => \A q \in Player :
                         file.entries[q].saved = {} => file.entries[q] = NotListed
  /\ backups \subseteq Contents
  /\ acked \in [Player -> SUBSET Mark] \cup {NoAck}

\* A mark that was saved stays: while the last save succeeded and nobody edited
\* the file, the saved marks in memory are those of that save, across reloads,
\* crashes and restarts (ModifyPlayer, SaveFiles, LoadFiles).  Nothing is said of a
\* save that failed or left a torn file: marks that are lost then stay lost.
SavedMarksStay ==
  running /\ acked # NoAck => \A q \in Player : users[q].saved = acked[q]

Contradictory(marks) == "Cheater" \in marks /\ marks \cap Suspicion # {}

\* Nobody becomes a confirmed cheater and a suspect at once, neither in the saved
\* nor in the transient marks: only a file that says so brings it in
\* (PlayerAttributesList::SetAttribute; from_json takes a file as it is).
NoNewContradiction ==
  [][\A q \in Player :
       /\ Contradictory(users'[q].transient) => Contradictory(users[q].transient)
       /\ Contradictory(users'[q].saved) =>
            \/ Contradictory(users[q].saved)
            \/ file # Missing /\ Contradictory(file.entries[q].saved)]_users

\* A file that could not be read in full is copied before a load replaces it; where
\* the copy cannot be made the program ends and the file stays as it is
\* (LoadFileAsync, SaveConfigFileBackup).
LoadBacksUp ==
  [][(Start \/ ReloadConfigFiles) /\ file # Missing /\ file' # file =>
       file.fault = "none" \/ file \in backups']_vars
=============================================================================
