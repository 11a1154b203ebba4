--------------------------- MODULE PlayerListProofs ---------------------------
(***************************************************************************)
(* What the runs of PlayerList show for one player, proved for every set   *)
(* of players, marks and proofs and for every bound on edits, failed saves *)
(* and crashes: a mark that was saved stays, nobody becomes a confirmed    *)
(* cheater and a suspect at once, and a load backs up the damaged file it  *)
(* replaces or leaves it alone, whether or not the program was started in  *)
(* its own directory.                                                      *)
(***************************************************************************)
EXTENDS PlayerList, TLAPS

\* SavedMarksStay is not inductive: after a crash the list in memory is empty,
\* and what the next load finds is known from the file alone.
FileIsAcked ==
  acked # NoAck =>
    /\ file # Missing
    /\ file.fault = "none"
    /\ \A q \in Player : file.entries[q].saved = acked[q]

IInv == TypeOK /\ SavedMarksStay /\ FileIsAcked

\* Setting an attribute stays within the marks (PlayerAttributesList::SetAttribute).
LEMMA SetAttributeType ==
  ASSUME NEW marks \in SUBSET Mark, NEW m \in Mark, NEW set \in BOOLEAN
  PROVE  SetAttribute(marks, m, set) \in SUBSET Mark
BY DEF SetAttribute, ApplyChange

\* Setting an attribute does not make a confirmed cheater a suspect or a suspect
\* a confirmed cheater who is still a suspect.
LEMMA SetAttributeConsistent ==
  ASSUME NEW marks \in SUBSET Mark, NEW m \in Mark, NEW set \in BOOLEAN,
         Contradictory(SetAttribute(marks, m, set))
  PROVE  Contradictory(marks)
BY DEF SetAttribute, ApplyChange, Contradictory, Suspicion

\* A written file is readable, lists nobody without a mark, and says of each
\* player what the list in memory says (PlayerListFile::Serialize).
LEMMA SerializeFaithful ==
  ASSUME NEW u \in [Player -> Entry]
  PROVE  /\ Serialize(u) \in Contents
         /\ Serialize(u) # Missing
         /\ Serialize(u).fault = "none"
         /\ \A q \in Player : /\ Serialize(u).entries[q].saved = u[q].saved
                              /\ u[q].saved = {} => Serialize(u).entries[q] = NotListed
<1>1. Serialize(u) \in Contents
  BY DEF Serialize, Contents, Entry, FileEntry, Fault, NotListed
<1>2. QED
  BY <1>1, MissingAssumption DEF Serialize, NotListed

\* A load ends with entries of the right type, and with all of those in the file
\* when nothing is wrong with it (PlayerListFile::Deserialize).
LEMMA DeserializeFaithful ==
  ASSUME NEW f \in Contents, NEW u \in Deserialize(f)
  PROVE  /\ u \in [Player -> Entry]
         /\ f.fault = "none" => \A q \in Player : u[q].saved = f.entries[q].saved
         /\ \A q \in Player : /\ u[q].transient = {}
                              /\ u[q].saved \in {{}, f.entries[q].saved}
<1> DEFINE Read(Q) == [q \in Player |->
                         IF q \in Q THEN [saved |-> f.entries[q].saved, transient |-> {},
                                          proof |-> f.entries[q].proof]
                         ELSE Unmarked]
<1>1. f.entries \in [Player -> FileEntry] /\ f.fault \in Fault
  BY DEF Contents
<1>2. ASSUME NEW Q \in SUBSET Player
      PROVE  /\ Read(Q) \in [Player -> Entry]
             /\ \A q \in Player : /\ Read(Q)[q].transient = {}
                                  /\ Read(Q)[q].saved \in {{}, f.entries[q].saved}
  BY <1>1 DEF Entry, FileEntry, Unmarked
<1>3. f.fault = "none" => u = Read(Player)
  BY DEF Deserialize
<1>4. \E Q \in SUBSET Player : u = Read(Q)
  <2>1. CASE f.fault = "none"
    BY <1>3, <2>1
  <2>2. CASE f.fault = "entry"
    <3>1. u \in {Read(Q) : Q \in SUBSET Player}
      BY <2>2 DEF Deserialize
    <3>2. QED
      BY <3>1
  <2>3. CASE f.fault = "text"
    <3>1. u = Read({})
      BY <2>3 DEF Deserialize
    <3>2. {} \in SUBSET Player
      OBVIOUS
    <3>3. QED
      BY <3>1, <3>2
  <2>4. QED
    BY <1>1, <2>1, <2>2, <2>3 DEF Fault
<1>5. \A q \in Player : Read(Player)[q].saved = f.entries[q].saved
  OBVIOUS
<1>6. PICK Q \in SUBSET Player : u = Read(Q)
  BY <1>4
<1> HIDE DEF Read
<1>7. u \in [Player -> Entry]
  BY <1>2, <1>6
<1>8. \A q \in Player : u[q].transient = {} /\ u[q].saved \in {{}, f.entries[q].saved}
  BY <1>2, <1>6
<1>9. f.fault = "none" => \A q \in Player : u[q].saved = f.entries[q].saved
  BY <1>3, <1>5
<1>10. QED
  BY <1>7, <1>8, <1>9

LEMMA TornType == Torn \in Contents
BY DEF Torn, Contents, FileEntry, Fault, NotListed

LEMMA InitIInv == Init => IInv
<1> SUFFICES ASSUME Init PROVE IInv
  OBVIOUS
<1>1. users \in [Player -> Entry] /\ users = Nobody
  BY DEF Init, Entry, Unmarked, Nobody
<1>2. TypeOK
  BY <1>1 DEF Init, TypeOK
<1>3. SavedMarksStay /\ FileIsAcked
  BY DEF Init, SavedMarksStay, FileIsAcked
<1>4. QED
  BY <1>2, <1>3 DEF IInv

\* What a save leaves behind, whether it succeeds or fails.
LEMMA SaveIInv ==
  ASSUME TypeOK, users' \in [Player -> Entry], running', Save(users'), UNCHANGED backups
  PROVE  IInv'
<1>1. CASE Saved(users') /\ acked' = Acknowledge(users')
  <2>1. acked' \in [Player -> SUBSET Mark] /\ \A q \in Player : acked'[q] = users'[q].saved
    BY <1>1 DEF Acknowledge, Entry
  <2>2. QED
    BY <1>1, <2>1, SerializeFaithful
       DEF IInv, TypeOK, SavedMarksStay, FileIsAcked, Saved
<1>2. CASE SaveFails(file)
  BY <1>2, TornType DEF IInv, TypeOK, SavedMarksStay, FileIsAcked, SaveFails, Torn
<1>3. QED
  BY <1>1, <1>2 DEF Save

LEMMA NobodyType == Nobody \in [Player -> Entry]
BY DEF Nobody, Unmarked, Entry

\* A program that ends keeps the invariant, if what it leaves of the file does.
LEMMA ExitIInv ==
  ASSUME IInv, Exit, backups' \subseteq Contents,
         \/ UNCHANGED <<file, acked>>
         \/ file # Missing /\ SaveFails(file)
  PROVE  IInv'
<1>1. users' \in [Player -> Entry]
  BY NobodyType DEF Exit
<1>2. CASE UNCHANGED <<file, acked>>
  <2>1. TypeOK'
    BY <1>1, <1>2 DEF Exit, IInv, TypeOK
  <2>2. SavedMarksStay' /\ FileIsAcked'
    BY <1>2 DEF Exit, IInv, SavedMarksStay, FileIsAcked
  <2>3. QED
    BY <2>1, <2>2 DEF IInv
<1>3. CASE file # Missing /\ SaveFails(file)
  <2>1. TypeOK'
    <3>1. file' \in Contents
      BY <1>3, TornType DEF IInv, TypeOK, SaveFails
    <3>2. \A q \in Player : Torn.entries[q] = NotListed
      BY DEF Torn
    <3>3. \A q \in Player : file'.entries[q].saved = {} => file'.entries[q] = NotListed
      BY <1>3, <3>2 DEF IInv, TypeOK, SaveFails
    <3>4. QED
      BY <1>1, <1>3, <3>1, <3>3 DEF Exit, TypeOK, SaveFails
  <2>2. SavedMarksStay' /\ FileIsAcked'
    BY <1>3 DEF Exit, SavedMarksStay, FileIsAcked, SaveFails
  <2>3. QED
    BY <2>1, <2>2 DEF IInv
<1>4. QED
  BY <1>2, <1>3

\* A load keeps the invariant, given the list it falls back on.
LEMMA LoadIInv ==
  ASSUME IInv, NEW old \in [Player -> Entry], LoadFile(old),
         acked # NoAck /\ file = Missing => \A q \in Player : old[q].saved = acked[q]
  PROVE  IInv'
<1>1. CASE file = Missing
  BY <1>1 DEF LoadFile, IInv, TypeOK, SavedMarksStay, FileIsAcked
<1>2. CASE file # Missing
  <2> DEFINE Loaded == running' = TRUE /\ users' \in Deserialize(file)
             Resaved == /\ Loaded /\ Saved(users')
                        /\ acked' = IF acked = NoAck THEN Acknowledge(users') ELSE acked
  <2>1. file \in Contents
    BY <1>2 DEF IInv, TypeOK
  <2>2. Loaded => /\ users' \in [Player -> Entry]
                  /\ file.fault = "none" => \A q \in Player : users'[q].saved = file.entries[q].saved
    BY <2>1, DeserializeFaithful
  <2>3. backups' \subseteq Contents
    BY <1>2, <2>1 DEF LoadFile, SaveConfigFileBackup, BackupFails, IInv, TypeOK
  <2>4. CASE Resaved
    <3>1. acked' \in [Player -> SUBSET Mark] \cup {NoAck}
      BY <2>2, <2>4 DEF Acknowledge, Entry, IInv, TypeOK
    <3>2. \A q \in Player : acked'[q] = users'[q].saved
      BY <2>2, <2>4 DEF Acknowledge, IInv, FileIsAcked
    <3>3. QED
      BY <2>2, <2>3, <2>4, <3>1, <3>2, SerializeFaithful
         DEF IInv, TypeOK, SavedMarksStay, FileIsAcked, Saved
  <2>5. CASE Loaded /\ SaveFails(file)
    BY <2>1, <2>2, <2>3, <2>5, TornType
       DEF IInv, TypeOK, SavedMarksStay, FileIsAcked, SaveFails, Torn
  <2>6. CASE Exit /\ SaveFails(file)
    BY <1>2, <2>3, <2>6, ExitIInv
  <2>7. CASE BackupFails
    BY <2>3, <2>7, ExitIInv DEF BackupFails
  <2>8. QED
    BY <1>2, <2>4, <2>5, <2>6, <2>7 DEF LoadFile
<1>3. QED
  BY <1>1, <1>2

\* An action of the next-state relation keeps the invariant.
LEMMA NextIInv == IInv /\ [Next]_vars => IInv'
<1> SUFFICES ASSUME IInv, [Next]_vars PROVE IInv'
  OBVIOUS
<1> USE DEF IInv
<1>1. ASSUME NEW q \in Player, NEW entry \in Entry, ModifyPlayer(q, entry)
      PROVE  IInv'
  <2>1. users' \in [Player -> Entry] /\ running' /\ Save(users') /\ UNCHANGED backups
    BY <1>1 DEF ModifyPlayer, TypeOK
  <2>2. QED
    BY <2>1, SaveIInv
<1>2. ASSUME NEW q \in Player, NEW m \in Mark, NEW set \in BOOLEAN,
             NEW why \in {{}} \cup {{r} : r \in Reason}
      PROVE  /\ MarkSaved(q, m, set, why) => IInv'
             /\ MarkTransient(q, m, set, why) => IInv'
  <2>1. users[q] \in Entry /\ Proof(m, set, why) \in SUBSET Reason
    BY <1>2 DEF TypeOK, Proof
  <2>2. /\ SetAttribute(users[q].saved, m, set) \in SUBSET Mark
        /\ SetAttribute(users[q].transient, m, set) \in SUBSET Mark
    BY <1>2, <2>1, SetAttributeType DEF Entry
  <2>3. [users[q] EXCEPT !.saved = SetAttribute(@, m, set),
                         !.proof = @ \cup Proof(m, set, why)] \in Entry
    BY <2>1, <2>2 DEF Entry
  <2>4. [users[q] EXCEPT !.transient = SetAttribute(@, m, set),
                         !.proof = @ \cup Proof(m, set, why)] \in Entry
    BY <2>1, <2>2 DEF Entry
  <2>5. QED
    BY <1>1, <1>2, <2>3, <2>4 DEF MarkSaved, MarkTransient
<1>3. ASSUME NEW q \in Player, RemoveFromWritableList(q)
      PROVE  IInv'
  <2>1. [users[q] EXCEPT !.saved = {}, !.proof = {}] \in Entry
    BY <1>3 DEF TypeOK, Entry
  <2>2. QED
    BY <1>1, <1>3, <2>1 DEF RemoveFromWritableList
<1>4. CASE Start
  BY <1>4, NobodyType, LoadIInv DEF Start, FileIsAcked
<1>5. CASE ReloadConfigFiles
  <2>1. users \in [Player -> Entry]
    BY DEF TypeOK
  <2>2. QED
    BY <1>5, <2>1, LoadIInv DEF ReloadConfigFiles, FileIsAcked
<1>6. CASE Crash
  BY <1>6, ExitIInv DEF Crash, TypeOK
<1>7. CASE EditFile
  <2>1. file' \in Contents
    <3>1. file \in Contents
      BY <1>7 DEF EditFile, TypeOK
    <3>2. QED
      BY <1>7, <3>1 DEF EditFile, Contents, Fault
  <2>2. \A q \in Player : file'.entries[q].saved = {} => file'.entries[q] = NotListed
    <3>1. file # Missing /\ file \in Contents
      BY <1>7 DEF EditFile, TypeOK
    <3>2. QED
      BY <1>7, <3>1 DEF EditFile, Contents, TypeOK
  <2>3. QED
    BY <1>7, <2>1, <2>2 DEF EditFile, TypeOK, SavedMarksStay, FileIsAcked
<1>8. CASE UNCHANGED vars
  BY <1>8 DEF vars, TypeOK, SavedMarksStay, FileIsAcked
<1>9. QED
  BY <1>2, <1>3, <1>4, <1>5, <1>6, <1>7, <1>8 DEF Next

LEMMA InvariantHolds == Spec => []IInv
BY InitIInv, NextIInv, PTL DEF Spec

\* Types, and that a file the program wrote lists nobody without a mark
\* (PlayerListFile::Serialize), whatever the sets and the bounds.
THEOREM TypeCorrect == Spec => []TypeOK
BY InvariantHolds, PTL DEF IInv

\* A mark that was saved stays, across reloads, crashes and restarts, until the
\* file is edited or a later save fails (ModifyPlayer, LoadFiles).
THEOREM SavedMarksAlwaysStay == Spec => []SavedMarksStay
BY InvariantHolds, PTL DEF IInv

\* No step makes anybody a confirmed cheater and a suspect at once, unless it
\* reads that from the file (PlayerAttributesList::SetAttribute, from_json).
THEOREM NeverANewContradiction == Spec => NoNewContradiction
<1> DEFINE Consistent ==
      \A q \in Player :
        /\ Contradictory(users'[q].transient) => Contradictory(users[q].transient)
        /\ Contradictory(users'[q].saved) =>
             \/ Contradictory(users[q].saved)
             \/ file # Missing /\ Contradictory(file.entries[q].saved)
<1>1. IInv /\ [Next]_vars => [Consistent]_users
  <2> SUFFICES ASSUME IInv, Next PROVE Consistent
    BY DEF vars
  <2>1. ASSUME NEW q \in Player, NEW entry, ModifyPlayer(q, entry),
               Contradictory(entry.transient) => Contradictory(users[q].transient),
               Contradictory(entry.saved) => Contradictory(users[q].saved)
        PROVE  Consistent
    BY <2>1 DEF ModifyPlayer, IInv, TypeOK
  <2>2. ASSUME NEW q \in Player, NEW m \in Mark, NEW set \in BOOLEAN,
               NEW why \in {{}} \cup {{r} : r \in Reason},
               MarkSaved(q, m, set, why) \/ MarkTransient(q, m, set, why)
        PROVE  Consistent
    <3>1. users[q] \in Entry
      BY DEF IInv, TypeOK
    <3>2. CASE MarkSaved(q, m, set, why)
      <4> DEFINE entry == [users[q] EXCEPT !.saved = SetAttribute(@, m, set),
                                           !.proof = @ \cup Proof(m, set, why)]
      <4>1. entry.transient = users[q].transient /\ entry.saved = SetAttribute(users[q].saved, m, set)
        BY <3>1 DEF Entry
      <4>2. Contradictory(entry.saved) => Contradictory(users[q].saved)
        BY <3>1, <4>1, SetAttributeConsistent DEF Entry
      <4>3. ModifyPlayer(q, entry)
        BY <3>2 DEF MarkSaved
      <4> HIDE DEF entry
      <4>4. QED
        BY <2>1, <4>1, <4>2, <4>3
    <3>3. CASE MarkTransient(q, m, set, why)
      <4> DEFINE entry == [users[q] EXCEPT !.transient = SetAttribute(@, m, set),
                                           !.proof = @ \cup Proof(m, set, why)]
      <4>1. entry.saved = users[q].saved /\ entry.transient = SetAttribute(users[q].transient, m, set)
        BY <3>1 DEF Entry
      <4>2. Contradictory(entry.transient) => Contradictory(users[q].transient)
        BY <3>1, <4>1, SetAttributeConsistent DEF Entry
      <4>3. ModifyPlayer(q, entry)
        BY <3>3 DEF MarkTransient
      <4> HIDE DEF entry
      <4>4. QED
        BY <2>1, <4>1, <4>2, <4>3
    <3>4. QED
      BY <2>2, <3>2, <3>3
  <2>3. ASSUME NEW q \in Player, RemoveFromWritableList(q)
        PROVE  Consistent
    <3> DEFINE entry == [users[q] EXCEPT !.saved = {}, !.proof = {}]
    <3>1. users[q] \in Entry
      BY DEF IInv, TypeOK
    <3>2. entry.transient = users[q].transient /\ ~Contradictory(entry.saved)
      BY <3>1 DEF Entry, Contradictory
    <3>3. ModifyPlayer(q, entry)
      BY <2>3 DEF RemoveFromWritableList
    <3> HIDE DEF entry
    <3>4. QED
      BY <2>1, <3>2, <3>3
  <2>4. ASSUME NEW old \in [Player -> Entry], LoadFile(old),
               \A q \in Player : old[q] \in {users[q], Unmarked}
        PROVE  Consistent
    <3>1. CASE file = Missing
      BY <2>4, <3>1 DEF LoadFile, Unmarked, Contradictory
    <3>2. CASE file # Missing /\ users' \in Deserialize(file)
      <4>1. file \in Contents
        BY <3>2 DEF IInv, TypeOK
      <4>2. QED
        BY <3>2, <4>1, DeserializeFaithful DEF Contradictory
    <3>3. CASE Exit
      BY <3>3 DEF Exit, Nobody, Unmarked, Contradictory
    <3>4. file # Missing => users' \in Deserialize(file) \/ Exit
      BY <2>4 DEF LoadFile, BackupFails
    <3>5. QED
      BY <3>1, <3>2, <3>3, <3>4
  <2>5. CASE Start
    <3>1. \A q \in Player : Nobody[q] = Unmarked
      BY DEF Nobody
    <3>2. QED
      BY <2>4, <2>5, <3>1, NobodyType DEF Start
  <2>6. CASE ReloadConfigFiles
    BY <2>4, <2>6 DEF ReloadConfigFiles, IInv, TypeOK
  <2>7. CASE Crash
    BY <2>7 DEF Crash, Exit, Nobody, Unmarked, Contradictory
  <2>8. CASE EditFile
    BY <2>8 DEF EditFile
  <2>9. QED
    BY <2>2, <2>3, <2>5, <2>6, <2>7, <2>8 DEF Next
<1>2. QED
  BY <1>1, InvariantHolds, PTL DEF Spec, NoNewContradiction

\* A load replaces no file that it could not read in full without a copy of it, in
\* whatever directory the program was started (SaveConfigFileBackup).
THEOREM LoadAlwaysBacksUp == Spec => LoadBacksUp
<1>1. [Next]_vars => [(Start \/ ReloadConfigFiles) /\ file # Missing /\ file' # file =>
                        file.fault = "none" \/ file \in backups']_vars
  BY DEF Start, ReloadConfigFiles, LoadFile, BackupFails, SaveConfigFileBackup
<1>2. QED
  BY <1>1, PTL DEF Spec, LoadBacksUp
=============================================================================
