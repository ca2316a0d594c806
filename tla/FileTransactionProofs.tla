------------------------- MODULE FileTransactionProofs -------------------------
(***************************************************************************)
(* The two commands that change the user's files in several steps and      *)
(* promise all or nothing: the local installation, for any number of runs  *)
(* over whatever was installed, and the scaffold, for any number of runs   *)
(* at the same time, any files and any tree.                               *)
(***************************************************************************)
EXTENDS LocalInstall, ScaffoldTransaction, TLAPS

--------------------------------------------------------------------------------
(* The local installation. *)

(* The item is as the run found it. *)
Kept(i) == place[i] = before[i] /\ backup[i] = None

(* What was there is in its backup, and the script knows that it may be. *)
Away(i) ==
    /\ backup[i] = before[i]
    /\ place[i] \in {None, version}
    /\ before[i] # None => i \in backupIntent

InstallTypes ==
    /\ phase \in {"idle", "staging", "backup", "place", "verify", "unplace", "restore",
                  "unstage", "discard", "exited", "aborted", "killed"}
    /\ at \in 1..6
    /\ phase \in {"place", "unplace", "unstage"} => at <= 3
    /\ version \in Nat
    /\ place \in [Item -> Nat \cup {None}]
    /\ backup \in [Item -> Nat \cup {None}]
    /\ before \in [Item -> Nat \cup {None}]
    /\ stages \subseteq ToSet(Installed)
    /\ placeIntent \subseteq ToSet(Installed)

(* Up to the commit: how far each item is, by the phase of the script. *)
Forward ==
    /\ phase \in {"staging", "backup", "place", "verify"} => ~committed
    /\ phase = "staging" => placeIntent = {} /\ \A i \in Item : Kept(i)
    /\ phase = "backup" =>
         /\ placeIntent = {}
         /\ \A i \in Item : Kept(i) \/ (Away(i) /\ place[i] = None)
         /\ \A n \in 1..6 : n < at =>
               Away((Installed \o Legacy)[n]) /\ place[(Installed \o Legacy)[n]] = None
    /\ phase \in {"place", "verify"} =>
         \A i \in Item : /\ Away(i)
                         /\ place[i] # None => i \in placeIntent
                         /\ i \in ToSet(Legacy) => place[i] = None
    /\ phase = "place" => \A n \in 1..3 : n < at => place[Installed[n]] = version
    /\ phase = "verify" => \A i \in ToSet(Installed) : place[i] = version

(* The clean-up of a run that is not committed. *)
Backward ==
    /\ phase = "unplace" =>
         /\ ~committed
         /\ \A i \in Item : \/ Kept(i) /\ i \notin placeIntent
                            \/ Away(i) /\ (place[i] # None => i \in placeIntent)
         /\ \A n \in 1..3 : n < at => (Reverse(Installed)[n] \in placeIntent =>
                                         place[Reverse(Installed)[n]] = None)
    /\ phase = "restore" =>
         /\ ~committed
         /\ \A i \in Item : Kept(i) \/ (Away(i) /\ place[i] = None)
         /\ \A n \in 1..6 : n < at => Kept((Reverse(Installed) \o Reverse(Legacy))[n])
    /\ phase \in {"unstage", "discard", "exited"} /\ ~committed => \A i \in Item : Kept(i)

(* The common end, and a run that is over. *)
Ending ==
    /\ phase = "unstage" => \A n \in 1..3 : n < at => Installed[n] \notin stages
    /\ phase \in {"discard", "exited"} => stages = {}
    /\ phase = "discard" /\ committed =>
         \A n \in 1..6 : n < at => \/ backup[(Installed \o Legacy)[n]] = None
                                   \/ (Installed \o Legacy)[n] \in warned
    /\ phase = "exited" /\ committed => \A i \in Item : backup[i] = None \/ i \in warned
    /\ committed =>
         /\ \A i \in ToSet(Installed) : place[i] = version
         /\ \A i \in ToSet(Legacy) : place[i] = None
    /\ ~committed => \A i \in Item : before[i] # None => before[i] \in {place[i], backup[i]}

InstallInvariant == InstallTypes /\ Forward /\ Backward /\ Ending

(* An empty backup stands only where the script is about to move something *)
(* to, and the clean-up meets it if the script gets no further.            *)
Reservations ==
    /\ reserved \subseteq Item
    /\ reserved \cap backupIntent = {}
    /\ phase \in {"staging", "place", "verify", "exited"} => reserved = {}
    /\ committed => reserved = {}
    /\ phase = "backup" => \A i \in reserved : i = ToBackUp /\ place[i] # None
    /\ phase = "discard" => \A n \in 1..6 : n < at => (Installed \o Legacy)[n] \notin reserved

USE InstallAssumption

(* The orders in which the script goes through the items. *)
LEMMA Orders ==
  /\ Item = ToSet(Installed) \cup ToSet(Legacy)
  /\ ToSet(Installed) \cap ToSet(Legacy) = {}
  /\ Len(Installed) = 3 /\ Len(Installed \o Legacy) = 6
  /\ \A n \in 1..3 : Installed[n] \in ToSet(Installed) /\ Reverse(Installed)[n] \in ToSet(Installed)
  /\ \A i \in ToSet(Installed) : \E n \in 1..3 : Installed[n] = i
  /\ \A i \in ToSet(Installed) : \E n \in 1..3 : Reverse(Installed)[n] = i
  /\ \A n, m \in 1..3 : n # m => Installed[n] # Installed[m]
  /\ \A n, m \in 1..3 : n # m => Reverse(Installed)[n] # Reverse(Installed)[m]
  BY DEF Installed, Legacy, Item, ToSet, Reverse

(* The backups are made, and discarded, in this order. *)
LEMMA BackupOrder ==
  /\ \A n \in 1..6 : (Installed \o Legacy)[n] \in Item
  /\ \A i \in Item : \E n \in 1..6 : (Installed \o Legacy)[n] = i
  /\ \A n, m \in 1..6 : n # m => (Installed \o Legacy)[n] # (Installed \o Legacy)[m]
  BY DEF Installed, Legacy, Item, ToSet

(* They are put back in this one. *)
LEMMA RestoreOrder ==
  /\ \A n \in 1..6 : (Reverse(Installed) \o Reverse(Legacy))[n] \in Item
  /\ \A i \in Item : \E n \in 1..6 : (Reverse(Installed) \o Reverse(Legacy))[n] = i
  /\ \A n, m \in 1..6 : n # m =>
        (Reverse(Installed) \o Reverse(Legacy))[n] # (Reverse(Installed) \o Reverse(Legacy))[m]
  BY DEF Installed, Legacy, Item, ToSet, Reverse

(* A run begins on what it finds, or fails before its traps are set. *)
LEMMA BeginSteps ==
  ASSUME InstallInvariant, Begin \/ StageCopies
  PROVE  InstallInvariant'
  <1> USE DEF InstallInvariant, Goes, disk, intents, runVars
  <1>1. CASE Begin
    <2>1. PICK n \in 0..3 : /\ stages' = ToSet(SubSeq(Installed, 1, n))
                            /\ Goes(IF Len(SubSeq(Installed, 1, n)) = 3 THEN "staging" ELSE "killed")
      BY <1>1 DEF Begin
    <2>2. stages' \subseteq ToSet(Installed)
      BY <2>1 DEF ToSet, Installed
    <2>3. phase' \in {"staging", "killed"} /\ at' = 1
      BY <2>1
    <2>4. \A i \in Item : Kept(i)'
      BY <1>1 DEF Begin, Kept, Nothing, InstallTypes
    <2>5. InstallTypes'
      BY <1>1, <2>2, <2>3 DEF Begin, InstallTypes, Nothing
    <2>6. Forward' /\ Backward'
      BY <1>1, <2>3, <2>4 DEF Begin, Forward, Backward
    <2>7. Ending'
      BY <1>1, <2>3, <2>4 DEF Begin, Ending, Kept
    <2> QED
      BY <2>5, <2>6, <2>7
  <1>2. CASE StageCopies
    <2> USE <1>2 DEF StageCopies
    <2>1. InstallTypes'
      BY DEF InstallTypes
    <2>2. Forward'
      BY DEF Forward, Kept, Away
    <2>3. Backward' /\ Ending'
      BY DEF Backward, Ending
    <2> QED
      BY <2>1, <2>2, <2>3
  <1> QED
    BY <1>1, <1>2

(* Moving away what is installed: when all six items have been looked at,  *)
(* each is away, and the script knows of all it has moved.                 *)
LEMMA BackupSteps ==
  ASSUME InstallInvariant, SkipBackup \/ ReserveBackup \/ IntendBackup \/ MoveToBackup
  PROVE  InstallInvariant'
  <1> USE DEF InstallInvariant, disk, intents, runVars
  <1>0. /\ phase = "backup" /\ ~committed /\ placeIntent = {} /\ at \in 1..6
        /\ \A i \in Item : Kept(i) \/ (Away(i) /\ place[i] = None)
        /\ \A n \in 1..6 : n < at =>
              Away((Installed \o Legacy)[n]) /\ place[(Installed \o Legacy)[n]] = None
    BY DEF SkipBackup, ReserveBackup, IntendBackup, MoveToBackup, Forward, InstallTypes
  <1>1. PICK item \in Item : item = ToBackUp
    BY <1>0, BackupOrder DEF ToBackUp
  <1>2. CASE SkipBackup
    <2> USE <1>2 DEF SkipBackup, GoesOn, Goes
    <2>1. Away(item) /\ place[item] = None
      BY <1>0, <1>1 DEF Kept, Away
    <2>2. \A n \in 1..6 : n <= at =>
             Away((Installed \o Legacy)[n]) /\ place[(Installed \o Legacy)[n]] = None
      <3>1. ASSUME NEW n \in 1..6, n <= at
            PROVE  Away((Installed \o Legacy)[n]) /\ place[(Installed \o Legacy)[n]] = None
        <4>1. CASE n < at
          BY <1>0, <4>1
        <4>2. CASE n = at
          BY <1>1, <2>1, <4>2 DEF ToBackUp, Away
        <4>3. n < at \/ n = at
          BY <1>0, <3>1
        <4> QED
          BY <4>1, <4>2, <4>3, Zenon
      <3> QED
        BY <3>1
    <2>3. CASE at < 6
      <3>1. phase' = "backup" /\ at' = at + 1
        BY <1>0, <2>3, Orders
      <3>2. InstallTypes'
        BY <1>0, <2>3, <3>1 DEF InstallTypes
      <3>3. Forward'
        BY SMTT(30), <1>0, <2>2, <3>1 DEF Forward, Kept, Away
      <3>4. Backward' /\ Ending'
        BY <3>1 DEF Backward, Ending
      <3> QED
        BY <3>2, <3>3, <3>4
    <2>4. CASE at = 6
      <3>1. phase' = "place" /\ at' = 1
        BY <1>0, <2>4, Orders
      <3>2. \A i \in Item : Away(i) /\ place[i] = None
        <4> SUFFICES ASSUME NEW i \in Item PROVE Away(i) /\ place[i] = None
          OBVIOUS
        <4>1. PICK n \in 1..6 : (Installed \o Legacy)[n] = i
          BY BackupOrder
        <4>2. n <= at
          BY <2>4
        <4>3. Away((Installed \o Legacy)[n]) /\ place[(Installed \o Legacy)[n]] = None
          BY <2>2, <4>2, Zenon
        <4> QED
          BY <4>1, <4>3, Zenon
      <3>3. InstallTypes'
        BY <3>1 DEF InstallTypes
      <3>4. Forward'
        BY <1>0, <3>1, <3>2 DEF Forward, Away
      <3>5. Backward' /\ Ending'
        BY <3>1 DEF Backward, Ending
      <3> QED
        BY <3>3, <3>4, <3>5
    <2> QED
      BY <1>0, <2>3, <2>4
  <1>3. CASE ReserveBackup \/ IntendBackup
    <2>0. /\ UNCHANGED <<phase, at, place, backup, stages, placeIntent, committed, runVars>>
          /\ backupIntent \subseteq backupIntent'
      BY <1>3 DEF ReserveBackup, IntendBackup
    <2>1. \A i \in Item : (Kept(i) => Kept(i)') /\ (Away(i) => Away(i)')
      BY <2>0 DEF Kept, Away
    <2>2. InstallTypes'
      BY <2>0 DEF InstallTypes
    <2>3. Forward'
      BY <1>0, <2>0, <2>1, BackupOrder DEF Forward
    <2>4. Backward' /\ Ending'
      BY <1>0, <2>0 DEF Backward, Ending
    <2> QED
      BY <2>2, <2>3, <2>4
  <1>4. CASE MoveToBackup
    <2> USE <1>1, <1>4 DEF MoveToBackup
    <2>1. Kept(item)
      BY <1>0
    <2>2. /\ place' \in [Item -> Nat \cup {None}] /\ backup' \in [Item -> Nat \cup {None}]
          /\ place'[item] = None /\ backup'[item] = before[item]
          /\ \A i \in Item : i # item => place'[i] = place[i] /\ backup'[i] = backup[i]
      BY <2>1 DEF InstallTypes, Kept
    <2>3. Away(item)'
      BY <2>2 DEF Away
    <2>4. \A i \in Item : i # item => (Kept(i) => Kept(i)') /\ (Away(i) => Away(i)')
      BY <2>2 DEF Kept, Away
    <2>5. InstallTypes'
      BY <2>2 DEF InstallTypes
    <2>6. \A n \in 1..6 : n < at => (Installed \o Legacy)[n] # item
      BY <1>0, BackupOrder DEF ToBackUp
    <2>7. Forward'
      BY <1>0, <2>2, <2>3, <2>4, <2>6, BackupOrder DEF Forward
    <2>8. Backward'
      BY <1>0 DEF Backward
    <2>9. Ending'
      BY <1>0, <2>2, <2>3, <2>4 DEF Ending, Kept, Away
    <2> QED
      BY <2>5, <2>7, <2>8, <2>9
  <1> QED
    BY <1>2, <1>3, <1>4

(* Putting the staged copies in place: the script first says what it is    *)
(* about to put there, so that a clean-up would take it away again.        *)
LEMMA PlaceSteps ==
  ASSUME InstallInvariant, IntendPlace \/ MoveIntoPlace
  PROVE  InstallInvariant'
  <1> USE DEF InstallInvariant, disk, intents, runVars
  <1>0. /\ phase = "place" /\ ~committed /\ at \in 1..3
        /\ \A i \in Item : /\ Away(i)
                           /\ place[i] # None => i \in placeIntent
                           /\ i \in ToSet(Legacy) => place[i] = None
        /\ \A n \in 1..3 : n < at => place[Installed[n]] = version
    BY DEF IntendPlace, MoveIntoPlace, Forward, InstallTypes
  <1>1. PICK item \in ToSet(Installed) : item = ToPlace
    BY <1>0, Orders DEF ToPlace
  <1>2. CASE IntendPlace
    <2> USE <1>1, <1>2 DEF IntendPlace
    <2>1. InstallTypes'
      BY DEF InstallTypes
    <2>2. Forward'
      BY <1>0 DEF Forward, Away
    <2>3. Backward' /\ Ending'
      BY <1>0 DEF Backward, Ending
    <2> QED
      BY <2>1, <2>2, <2>3
  <1>3. CASE MoveIntoPlace
    <2> USE <1>1, <1>3 DEF MoveIntoPlace, GoesOn, Goes
    <2>1. item \in Item /\ item \notin ToSet(Legacy)
      BY Orders
    <2>2. /\ place' \in [Item -> Nat \cup {None}]
          /\ place'[item] = version
          /\ \A i \in Item : i # item => place'[i] = place[i]
      BY <2>1 DEF InstallTypes
    <2>3. \A n \in 1..3 : n <= at => place'[Installed[n]] = version
      BY <1>0, <2>2, Orders DEF ToPlace
    <2>4. \A i \in Item : /\ Away(i)'
                          /\ place'[i] # None => i \in placeIntent
                          /\ i \in ToSet(Legacy) => place'[i] = None
      BY <1>0, <2>1, <2>2 DEF Away
    <2>5. \A i \in Item : before'[i] # None => before'[i] \in {place'[i], backup'[i]}
      BY <2>4 DEF Away
    <2>6. CASE at < 3
      <3>1. phase' = "place" /\ at' = at + 1
        BY <1>0, <2>6, Orders
      <3>2. InstallTypes'
        BY <1>0, <2>2, <2>6, <3>1 DEF InstallTypes
      <3>3. Forward'
        BY <1>0, <2>3, <2>4, <3>1 DEF Forward
      <3>4. Backward' /\ Ending'
        BY <1>0, <2>5, <3>1 DEF Backward, Ending
      <3> QED
        BY <3>2, <3>3, <3>4
    <2>7. CASE at = 3
      <3>1. phase' = "verify" /\ at' = 1
        BY <1>0, <2>7, Orders
      <3>2. InstallTypes'
        BY <2>2, <3>1 DEF InstallTypes
      <3>3. \A i \in ToSet(Installed) : place'[i] = version'
        BY <2>3, <2>7, Orders
      <3>4. Forward'
        BY <1>0, <2>4, <3>1, <3>3 DEF Forward
      <3>5. Backward' /\ Ending'
        BY <1>0, <2>5, <3>1 DEF Backward, Ending
      <3> QED
        BY <3>2, <3>4, <3>5
    <2> QED
      BY <1>0, <2>6, <2>7
  <1> QED
    BY <1>2, <1>3

(* The commit, and what ends a run without one: from there on the clean-up *)
(* can tell what it may take away from what it has to put back.            *)
LEMMA EndSteps ==
  ASSUME InstallInvariant, CommitInstall \/ Interrupted \/ CleanupFails \/ KillScript \/ Uninstall
  PROVE  InstallInvariant'
  <1> USE DEF InstallInvariant, disk, intents, runVars, Goes
  <1>1. CASE CommitInstall
    <2> USE <1>1 DEF CommitInstall
    <2>1. InstallTypes'
      BY DEF InstallTypes
    <2>2. Forward' /\ Backward'
      BY DEF Forward, Backward
    <2>3. Ending'
      BY Orders DEF Ending, Forward, InstallTypes
    <2> QED
      BY <2>1, <2>2, <2>3
  <1>2. CASE Interrupted
    <2> USE <1>2 DEF Interrupted
    <2>1. InstallTypes'
      BY DEF InstallTypes
    <2>2. Forward'
      BY DEF Forward
    <2>3. ~committed /\ at' = 1
      BY DEF Forward
    <2>4. \A i \in Item : \/ Kept(i) /\ i \notin placeIntent
                          \/ Away(i) /\ (place[i] # None => i \in placeIntent)
      BY DEF Forward
    <2>5. Backward'
      BY <2>3, <2>4 DEF Backward, Kept, Away
    <2>6. Ending'
      BY <2>3 DEF Ending
    <2> QED
      BY <2>1, <2>2, <2>5, <2>6
  <1>3. CASE CleanupFails \/ KillScript
    <2> USE <1>3 DEF CleanupFails, KillScript, Over
    <2>1. InstallTypes'
      BY DEF InstallTypes
    <2>2. Forward' /\ Backward'
      BY DEF Forward, Backward
    <2>3. Ending'
      BY DEF Ending
    <2> QED
      BY <2>1, <2>2, <2>3
  <1>4. CASE Uninstall
    <2> USE <1>4 DEF Uninstall
    <2>1. place' \in [Item -> Nat \cup {None}]
      <3>1. PICK gone \in {{}} \cup {{"binary"} \cup more : more \in SUBSET {"package", "skill"}} :
              place' = [i \in Item |-> IF i \in gone THEN None ELSE place[i]]
        OBVIOUS
      <3> QED
        BY <3>1 DEF InstallTypes
    <2>2. InstallTypes'
      BY <2>1 DEF InstallTypes
    <2>3. Forward' /\ Backward'
      BY DEF Forward, Backward
    <2>4. Ending'
      BY DEF Ending
    <2> QED
      BY <2>2, <2>3, <2>4
  <1> QED
    BY <1>1, <1>2, <1>3, <1>4

(* What the script may have put in place is taken away: that never hits    *)
(* what it has not moved into a backup before.                             *)
LEMMA UnplaceStep ==
  ASSUME InstallInvariant, Unplace
  PROVE  InstallInvariant'
  <1> USE DEF InstallInvariant, intents, runVars, Unplace, GoesOn, Goes
  <1>0. /\ phase = "unplace" /\ ~committed /\ at \in 1..3
        /\ \A i \in Item : \/ Kept(i) /\ i \notin placeIntent
                           \/ Away(i) /\ (place[i] # None => i \in placeIntent)
        /\ \A n \in 1..3 : n < at => (Reverse(Installed)[n] \in placeIntent =>
                                         place[Reverse(Installed)[n]] = None)
    BY DEF Backward, InstallTypes
  <1>1. PICK item \in Item : item = Reverse(Installed)[at]
    BY <1>0, Orders
  <1>2. /\ place' \in [Item -> Nat \cup {None}]
        /\ place'[item] = IF item \in placeIntent THEN None ELSE place[item]
        /\ \A i \in Item : i # item => place'[i] = place[i]
    BY <1>1 DEF InstallTypes
  <1>3. \A i \in Item : \/ Kept(i)' /\ i \notin placeIntent
                        \/ Away(i)' /\ (place'[i] # None => i \in placeIntent)
    BY <1>0, <1>2 DEF Kept, Away
  <1>4. \A n \in 1..3 : n <= at => (Reverse(Installed)[n] \in placeIntent =>
                                       place'[Reverse(Installed)[n]] = None)
    <2> SUFFICES ASSUME NEW n \in 1..3, n <= at, Reverse(Installed)[n] \in placeIntent
                 PROVE  place'[Reverse(Installed)[n]] = None
      OBVIOUS
    <2>1. CASE n = at
      BY <1>1, <1>2, <2>1
    <2>2. CASE n < at
      BY <1>0, <1>1, <1>2, <2>2, Orders
    <2> QED
      BY <1>0, <2>1, <2>2
  <1>5. \A i \in Item : before'[i] # None => before'[i] \in {place'[i], backup'[i]}
    BY <1>3 DEF Kept, Away
  <1>6. CASE at < 3
    <2>1. phase' = "unplace" /\ at' = at + 1
      BY <1>0, <1>6, Orders
    <2>2. InstallTypes'
      BY <1>0, <1>2, <1>6, <2>1 DEF InstallTypes
    <2>3. Forward'
      BY <2>1 DEF Forward
    <2>4. Backward'
      BY <1>0, <1>3, <1>4, <2>1 DEF Backward
    <2>5. Ending'
      BY <1>0, <1>5, <2>1 DEF Ending
    <2> QED
      BY <2>2, <2>3, <2>4, <2>5
  <1>7. CASE at = 3
    <2>1. phase' = "restore" /\ at' = 1
      BY <1>0, <1>7, Orders
    <2>2. InstallTypes'
      BY <1>2, <2>1 DEF InstallTypes
    <2>3. Forward'
      BY <2>1 DEF Forward
    <2>4. \A i \in placeIntent : place'[i] = None
      BY <1>4, <1>7, Orders DEF InstallTypes
    <2>5. \A i \in Item : Kept(i)' \/ (Away(i)' /\ place'[i] = None)
      BY <1>3, <2>4
    <2>6. Backward'
      BY <1>0, <2>1, <2>5 DEF Backward
    <2>7. Ending'
      BY <1>0, <1>5, <2>1 DEF Ending
    <2> QED
      BY <2>2, <2>3, <2>6, <2>7
  <1> QED
    BY <1>0, <1>6, <1>7

(* What was moved away is put back. *)
LEMMA RestoreStep ==
  ASSUME InstallInvariant, Restore
  PROVE  InstallInvariant'
  <1> USE DEF InstallInvariant, intents, runVars, Restore, GoesOn, Goes
  <1>0. /\ phase = "restore" /\ ~committed /\ at \in 1..6
        /\ \A i \in Item : Kept(i) \/ (Away(i) /\ place[i] = None)
        /\ \A n \in 1..6 : n < at => Kept((Reverse(Installed) \o Reverse(Legacy))[n])
    BY DEF Backward, InstallTypes
  <1>1. PICK item \in Item : item = (Reverse(Installed) \o Reverse(Legacy))[at]
    BY <1>0, RestoreOrder
  <1>2. /\ place' \in [Item -> Nat \cup {None}] /\ backup' \in [Item -> Nat \cup {None}]
        /\ \A i \in Item : i # item => place'[i] = place[i] /\ backup'[i] = backup[i]
        /\ IF item \in backupIntent /\ backup[item] # None /\ place[item] = None
           THEN place'[item] = backup[item] /\ backup'[item] = None
           ELSE place'[item] = place[item] /\ backup'[item] = backup[item]
    <2>1. CASE item \in backupIntent /\ backup[item] # None /\ place[item] = None
      <3>1. /\ place' = [place EXCEPT ![item] = backup[item]]
            /\ backup' = [backup EXCEPT ![item] = None]
        BY <1>1, <2>1
      <3> HIDE DEF Restore
      <3> QED
        BY <2>1, <3>1 DEF InstallTypes
    <2>2. CASE ~(item \in backupIntent /\ backup[item] # None /\ place[item] = None)
      <3>1. UNCHANGED <<place, backup>>
        BY <1>1, <2>2
      <3> HIDE DEF Restore
      <3> QED
        BY <2>2, <3>1 DEF InstallTypes
    <2> QED
      BY <2>1, <2>2
  <1>u. UNCHANGED <<stages, intents, runVars>>
    OBVIOUS
  <1>3. Kept(item)'
    BY <1>0, <1>1, <1>2, <1>u DEF Kept, Away
  <1>4. \A i \in Item : i # item => (Kept(i) => Kept(i)') /\ (Away(i) => Away(i)')
    BY <1>2, <1>u DEF Kept, Away
  <1>5. \A i \in Item : Kept(i)' \/ (Away(i)' /\ place'[i] = None)
    BY <1>0, <1>2, <1>3, <1>4
  <1>6. \A i \in Item : before'[i] # None => before'[i] \in {place'[i], backup'[i]}
    BY <1>5 DEF Kept, Away
  <1>7. \A n \in 1..6 : n <= at => Kept((Reverse(Installed) \o Reverse(Legacy))[n])'
    <2> SUFFICES ASSUME NEW n \in 1..6, n <= at
                 PROVE  Kept((Reverse(Installed) \o Reverse(Legacy))[n])'
      OBVIOUS
    <2>1. PICK i \in Item : i = (Reverse(Installed) \o Reverse(Legacy))[n]
      BY RestoreOrder
    <2>2. Kept(i)'
      <3>1. CASE i = item
        BY <1>3, <3>1
      <3>2. CASE i # item
        <4>0. n # at
          BY <1>1, <2>1, <3>2, Zenon
        <4>1. n < at
          BY <1>0, <4>0
        <4>2. Kept((Reverse(Installed) \o Reverse(Legacy))[n])
          BY <1>0, <4>1
        <4> QED
          BY <1>4, <2>1, <3>2, <4>2, Zenon
      <3> QED
        BY <3>1, <3>2
    <2> QED
      BY <2>1, <2>2, Zenon
  <1>8. Len(Installed \o Legacy) = 6
    BY Orders
  <1>9. CASE at < 6
    <2>1. phase' = "restore" /\ at' = at + 1
      BY <1>0, <1>8, <1>9
    <2>2. InstallTypes'
      BY <1>0, <1>2, <1>9, <1>u, <2>1 DEF InstallTypes
    <2>3. Forward'
      BY <2>1 DEF Forward
    <2>4. Backward'
      <3>1. \A n \in 1..6 : n < at' => n <= at
        BY <1>0, <2>1
      <3>2. \A n \in 1..6 : n < at' => Kept((Reverse(Installed) \o Reverse(Legacy))[n])'
        BY <1>7, <3>1, Zenon
      <3> HIDE <1>7 DEF Restore
      <3> QED
        BY <1>0, <1>5, <1>u, <2>1, <3>2 DEF Backward
    <2>5. Ending'
      BY <1>0, <1>6, <1>u, <2>1 DEF Ending
    <2> QED
      BY <2>2, <2>3, <2>4, <2>5
  <1>10. CASE at = 6
    <2>1. phase' = "unstage" /\ at' = 1
      BY <1>0, <1>8, <1>10
    <2>2. InstallTypes'
      BY <1>2, <1>u, <2>1 DEF InstallTypes
    <2>3. Forward'
      BY <2>1 DEF Forward
    <2>4. \A i \in Item : Kept(i)'
      <3> SUFFICES ASSUME NEW i \in Item PROVE Kept(i)'
        OBVIOUS
      <3>1. PICK n \in 1..6 : i = (Reverse(Installed) \o Reverse(Legacy))[n]
        BY RestoreOrder
      <3>2. n <= at
        BY <1>10
      <3>3. Kept((Reverse(Installed) \o Reverse(Legacy))[n])'
        BY <1>7, <3>2, Zenon
      <3> QED
        BY <3>1, <3>3, Zenon
    <2>5. Backward'
      BY <2>1, <2>4 DEF Backward
    <2>6. Ending'
      BY <1>0, <1>6, <1>u, <2>1 DEF Ending
    <2> QED
      BY <2>2, <2>3, <2>5, <2>6
  <1> QED
    BY <1>0, <1>9, <1>10

(* The staged copies go. *)
LEMMA UnstageStep ==
  ASSUME InstallInvariant, Unstage
  PROVE  InstallInvariant'
  <1> USE DEF InstallInvariant, intents, runVars, Unstage, GoesOn, Goes
  <1>0. /\ phase = "unstage" /\ at \in 1..3
        /\ ~committed => \A i \in Item : Kept(i)
        /\ \A n \in 1..3 : n < at => Installed[n] \notin stages
    BY DEF Backward, Ending, InstallTypes
  <1>1. \A n \in 1..3 : n <= at => Installed[n] \notin stages'
    BY <1>0
  <1>2. ~committed' => \A i \in Item : Kept(i)'
    BY <1>0 DEF Kept
  <1>3. Len(Installed) = 3
    BY Orders
  <1>4. CASE at < 3
    <2>1. phase' = "unstage" /\ at' = at + 1
      BY <1>0, <1>3, <1>4
    <2>2. InstallTypes'
      BY <1>0, <1>4, <2>1 DEF InstallTypes
    <2>3. Forward' /\ Backward'
      BY <1>0, <1>2, <2>1 DEF Forward, Backward
    <2>4. Ending'
      BY <1>0, <1>1, <2>1 DEF Ending
    <2> QED
      BY <2>2, <2>3, <2>4
  <1>5. CASE at = 3
    <2>1. phase' = "discard" /\ at' = 1
      BY <1>0, <1>3, <1>5
    <2>2. stages' = {}
      <3>1. \A i \in ToSet(Installed) : i \notin stages'
        BY <1>1, <1>5, Orders
      <3> QED
        BY <3>1 DEF InstallTypes
    <2>3. InstallTypes'
      BY <2>1, <2>2 DEF InstallTypes
    <2>4. Forward' /\ Backward'
      BY <1>0, <1>2, <2>1 DEF Forward, Backward
    <2>5. Ending'
      BY <1>0, <2>1, <2>2 DEF Ending
    <2> QED
      BY <2>3, <2>4, <2>5
  <1> QED
    BY <1>0, <1>4, <1>5

(* The backups of a committed run go; those of another are empty by now.   *)
LEMMA DiscardStep ==
  ASSUME InstallInvariant, Discard
  PROVE  InstallInvariant'
  <1> USE DEF InstallInvariant, intents, runVars, Discard, GoesOn, Goes
  <1>0. /\ phase = "discard" /\ at \in 1..6 /\ stages = {}
        /\ ~committed => \A i \in Item : Kept(i)
        /\ committed => \A n \in 1..6 : n < at => \/ backup[(Installed \o Legacy)[n]] = None
                                                  \/ (Installed \o Legacy)[n] \in warned
    BY DEF Backward, Ending, InstallTypes
  <1>1. PICK item \in Item : item = (Installed \o Legacy)[at]
    BY <1>0, BackupOrder
  <1>2. /\ backup' \in [Item -> Nat \cup {None}]
        /\ \A i \in Item : i # item => backup'[i] = backup[i]
        /\ \A i \in warned : i \in warned'
        /\ ~committed => backup' = backup
        /\ committed => backup'[item] = None \/ item \in warned'
    BY <1>1 DEF InstallTypes
  <1>u. UNCHANGED <<place, stages, intents, version, before>>
    OBVIOUS
  <1>3. ~committed' => \A i \in Item : Kept(i)'
    BY <1>0, <1>2, <1>u DEF Kept
  <1>4. ASSUME committed, NEW n \in 1..6, n <= at
        PROVE  \/ backup'[(Installed \o Legacy)[n]] = None
               \/ (Installed \o Legacy)[n] \in warned'
    <2>1. PICK i \in Item : i = (Installed \o Legacy)[n]
      BY BackupOrder
    <2>2. CASE i = item
      BY <1>2, <1>4, <2>1, <2>2
    <2>3. CASE i # item
      <3>1. n # at
        BY <1>1, <2>1, <2>3, Zenon
      <3>2. n < at
        BY <1>0, <1>4, <3>1
      <3>3. backup[i] = None \/ i \in warned
        BY <1>0, <1>4, <2>1, <3>2
      <3> QED
        BY <1>2, <2>1, <2>3, <3>3
    <2> QED
      BY <2>2, <2>3
  <1>5. ~committed' => \A i \in Item : before'[i] # None => before'[i] \in {place'[i], backup'[i]}
    BY <1>3 DEF Kept
  <1>6. Len(Installed \o Legacy) = 6
    BY Orders
  <1>7. CASE at < 6
    <2>1. phase' = "discard" /\ at' = at + 1
      BY <1>0, <1>6, <1>7
    <2>2. InstallTypes'
      BY <1>0, <1>2, <1>7, <1>u, <2>1 DEF InstallTypes
    <2>3. Forward' /\ Backward'
      BY <1>0, <1>3, <1>u, <2>1 DEF Forward, Backward
    <2>4. \A n \in 1..6 : n < at' => n <= at
      BY <1>0, <2>1
    <2>5. Ending'
      BY <1>0, <1>4, <1>5, <1>u, <2>1, <2>4 DEF Ending
    <2> QED
      BY <2>2, <2>3, <2>5
  <1>8. CASE at = 6
    <2>1. phase' = "exited" /\ at' = 1
      BY <1>0, <1>6, <1>8
    <2>2. InstallTypes'
      BY <1>2, <1>u, <2>1 DEF InstallTypes
    <2>3. Forward' /\ Backward'
      BY <1>0, <1>3, <1>u, <2>1 DEF Forward, Backward
    <2>4. committed => \A i \in Item : backup'[i] = None \/ i \in warned'
      <3> SUFFICES ASSUME committed, NEW i \in Item PROVE backup'[i] = None \/ i \in warned'
        OBVIOUS
      <3>1. PICK n \in 1..6 : (Installed \o Legacy)[n] = i
        BY BackupOrder
      <3>2. n <= at
        BY <1>8
      <3>3. \/ backup'[(Installed \o Legacy)[n]] = None
            \/ (Installed \o Legacy)[n] \in warned'
        BY <1>4, <3>2, Zenon
      <3> QED
        BY <3>1, <3>3, Zenon
    <2>5. Ending'
      BY <1>0, <1>5, <1>u, <2>1, <2>4 DEF Ending
    <2> QED
      BY <2>2, <2>3, <2>5
  <1> QED
    BY <1>0, <1>7, <1>8

(* No step leaves an empty backup where the clean-up would not find it.    *)
LEMMA ReservedSteps ==
  ASSUME InstallInvariant, Reservations, InstallNext
  PROVE  Reservations'
  <1>0. /\ at \in 1..6 /\ Len(Installed) = 3 /\ Len(Installed \o Legacy) = 6
        /\ phase = "backup" => ToBackUp \in Item
    BY Orders, BackupOrder DEF InstallInvariant, InstallTypes, ToBackUp
  <1>1. CASE Begin
    BY <1>1 DEF Begin, Goes, Reservations
  <1>2. CASE StageCopies \/ Interrupted \/ CommitInstall \/ IntendPlace
    <2>1. reserved' = reserved /\ backupIntent' = backupIntent
      BY <1>2 DEF StageCopies, Interrupted, CommitInstall, IntendPlace, disk, intents
    <2>2. CASE StageCopies
      BY <2>1, <2>2 DEF StageCopies, Goes, Reservations, intents
    <2>3. CASE Interrupted
      BY <2>1, <2>3 DEF Interrupted, Goes, Reservations, intents
    <2>4. CASE CommitInstall
      BY <2>1, <2>4 DEF CommitInstall, Goes, Reservations
    <2>5. CASE IntendPlace
      BY <2>1, <2>5 DEF IntendPlace, Reservations
    <2> QED
      BY <1>2, <2>2, <2>3, <2>4, <2>5
  <1>3. CASE SkipBackup
    <2>1. reserved = {}
      BY <1>3 DEF SkipBackup, Reservations
    <2>2. phase' \in {"backup", "place"} /\ reserved' = {} /\ committed' = committed
      BY <1>3, <2>1 DEF SkipBackup, GoesOn, Goes, disk, intents
    <2> QED
      BY <2>2 DEF Reservations
  <1>4. CASE ReserveBackup
    BY <1>0, <1>4 DEF ReserveBackup, Reservations, ToBackUp, intents, InstallInvariant, Forward
  <1>5. CASE IntendBackup
    BY <1>0, <1>5 DEF IntendBackup, Reservations, ToBackUp
  <1>6. CASE MoveToBackup
    <2>1. reserved = {} /\ reserved' = {}
      BY <1>6 DEF MoveToBackup, Reservations
    <2> QED
      BY <1>6, <2>1 DEF MoveToBackup, Reservations
  <1>7. CASE MoveIntoPlace
    <2>1. reserved' = {} /\ phase' \in {"place", "verify"}
      BY <1>7 DEF MoveIntoPlace, GoesOn, Goes, Reservations
    <2> QED
      BY <2>1 DEF Reservations
  <1>8. CASE Unplace \/ Restore \/ Unstage
    <2>1. /\ reserved' = reserved /\ backupIntent' = backupIntent /\ committed' = committed
          /\ \/ phase' \in {"unplace", "restore", "unstage"}
             \/ phase' = "discard" /\ at' = 1
      BY <1>8 DEF Unplace, Restore, Unstage, GoesOn, Goes, intents
    <2>2. \A n \in 1..6 : ~(n < 1)
      OBVIOUS
    <2> QED
      BY <2>1, <2>2 DEF Reservations
  <1>9. CASE Discard
    <2> DEFINE item == (Installed \o Legacy)[at]
    <2>1. /\ phase = "discard" /\ backupIntent' = backupIntent /\ committed' = committed
          /\ reserved' \subseteq reserved
          /\ item \notin reserved'
      BY <1>9 DEF Discard, intents, Reservations
    <2>2. \A n \in 1..6 : n <= at => (Installed \o Legacy)[n] \notin reserved'
      BY <1>0, <2>1 DEF Reservations
    <2>3. CASE at < 6
      <3>1. phase' = "discard" /\ at' = at + 1
        BY <1>0, <1>9, <2>1, <2>3 DEF Discard, GoesOn
      <3> QED
        BY <1>0, <2>1, <2>2, <3>1 DEF Reservations
    <2>4. CASE at = 6
      <3>1. phase' = "exited"
        BY <1>0, <1>9, <2>1, <2>4 DEF Discard, GoesOn, Goes
      <3>2. ASSUME NEW n \in 1..6 PROVE (Installed \o Legacy)[n] \notin reserved'
        <4>1. n <= at
          BY <2>4
        <4> QED
          BY <2>2, <4>1, Zenon
      <3>3. ASSUME NEW i \in Item PROVE i \notin reserved'
        <4>1. PICK n \in 1..6 : (Installed \o Legacy)[n] = i
          BY BackupOrder
        <4> QED
          BY <3>2, <4>1, Zenon
      <3>4. reserved' = {}
        BY <2>1, <3>3 DEF Reservations
      <3> QED
        BY <3>1, <3>4 DEF Reservations
    <2> QED
      BY <1>0, <2>3, <2>4
  <1>10. CASE CleanupFails \/ KillScript
    BY <1>10 DEF CleanupFails, KillScript, Goes, Reservations, disk, intents
  <1>11. CASE Uninstall
    BY <1>11 DEF Uninstall, Goes, Reservations
  <1> QED
    BY <1>1, <1>2, <1>3, <1>4, <1>5, <1>6, <1>7, <1>8, <1>9, <1>10, <1>11 DEF InstallNext

(* The inductive invariant holds in every reachable state. *)
LEMMA InstallInvariantHolds == InstallSpec => [](InstallInvariant /\ Reservations)
  <1>1. InstallInit => InstallInvariant
    <2> SUFFICES ASSUME InstallInit PROVE InstallInvariant
      OBVIOUS
    <2> USE DEF InstallInit, Nothing
    <2>1. /\ place \in [Item -> Nat \cup {None}]
          /\ backup \in [Item -> Nat \cup {None}]
          /\ before \in [Item -> Nat \cup {None}]
      OBVIOUS
    <2>2. InstallTypes
      BY <2>1 DEF InstallTypes
    <2>3. Forward /\ Backward /\ Ending
      BY DEF Forward, Backward, Ending
    <2> QED
      BY <2>2, <2>3 DEF InstallInvariant
  <1>2. ASSUME InstallInvariant, UNCHANGED installVars
        PROVE  InstallInvariant'
    <2> USE <1>2 DEF installVars, InstallInvariant
    <2>1. InstallTypes'
      BY DEF InstallTypes
    <2>2. \A i \in Item : (Kept(i)' <=> Kept(i)) /\ (Away(i)' <=> Away(i))
      BY DEF Kept, Away
    <2>3. Forward'
      BY <2>2, BackupOrder DEF Forward
    <2>4. Backward'
      BY <2>2, RestoreOrder DEF Backward
    <2>5. Ending'
      BY DEF Ending
    <2> QED
      BY <2>1, <2>3, <2>4, <2>5
  <1>3. InstallInvariant /\ [InstallNext]_installVars => InstallInvariant'
    BY <1>2, BeginSteps, BackupSteps, PlaceSteps, EndSteps, UnplaceStep, RestoreStep,
       UnstageStep, DiscardStep DEF InstallNext
  <1>4. InstallInit => Reservations
    BY DEF InstallInit, Reservations
  <1>5. InstallInvariant /\ Reservations /\ [InstallNext]_installVars => Reservations'
    <2>1. ASSUME Reservations, UNCHANGED installVars PROVE Reservations'
      BY <2>1 DEF installVars, Reservations, ToBackUp
    <2> QED
      BY <2>1, ReservedSteps
  <1> QED
    BY <1>1, <1>3, <1>4, <1>5, PTL DEF InstallSpec

(* A run that fails or is interrupted before its commit, and whose         *)
(* clean-up gets through, leaves every item as it found it, with no staged *)
(* copy and no backup, full or empty, beside it.                           *)
THEOREM FailedInstallsChangeNothing == InstallSpec => []FailedInstallChangesNothing
  <1>1. InstallInvariant /\ Reservations => FailedInstallChangesNothing
    <2> SUFFICES ASSUME InstallInvariant, Reservations, phase = "exited", ~committed
                 PROVE  place = before /\ backup = Nothing /\ stages = {} /\ reserved = {}
      BY DEF FailedInstallChangesNothing
    <2>1. /\ \A i \in Item : place[i] = before[i] /\ backup[i] = None
          /\ stages = {} /\ reserved = {}
      BY DEF InstallInvariant, Backward, Ending, Kept, Reservations
    <2> QED
      BY <2>1 DEF InstallInvariant, InstallTypes, Nothing
  <1> QED
    BY <1>1, InstallInvariantHolds, PTL

(* At no instant before the commit, killed or not, is the former version   *)
(* of an item lost.                                                        *)
THEOREM FormerVersionsSurvive == InstallSpec => []FormerVersionSurvives
  <1>1. InstallInvariant => FormerVersionSurvives
    BY DEF InstallInvariant, Ending, FormerVersionSurvives
  <1> QED
    BY <1>1, InstallInvariantHolds, PTL

(* A committed run has put all three items in place and moved the legacy   *)
(* ones away, and leaves no backup without a warning.                      *)
THEOREM CommittedInstallsAreComplete == InstallSpec => []CommittedInstallIsComplete
  <1>1. InstallInvariant /\ Reservations => CommittedInstallIsComplete
    BY DEF InstallInvariant, Ending, CommittedInstallIsComplete, Reservations
  <1> QED
    BY <1>1, InstallInvariantHolds, PTL

--------------------------------------------------------------------------------
(* The scaffold. *)

RunRecord ==
    [phase : {"plan", "previewed", "compare", "conflict", "enter", "make", "rollback",
              "remove", "done", "failed", "killed"},
     status : [File -> {"unknown", "create", "unchanged", "conflict"}],
     next : Nat, depth : Nat, files : Seq(File), dirs : Seq(Dir),
     found : Run \cup {User}, unremoved : SUBSET Path]

ScaffoldTypes ==
    /\ tree \in [Path -> Node]
    /\ \A f \in File : tree[f].kind # "dir"
    /\ run \in [Run -> RunRecord]

(* How far a run is.  It makes a directory only on the way to a file that  *)
(* it creates, and it is done when it has seen all its files.              *)
Progress(r) ==
    /\ run[r].next >= 1 /\ (run[r].phase = "plan" => run[r].next = 1)
    /\ run[r].phase = "compare" =>
         \A n \in 1..Len(Files[r]) : n < run[r].next =>
             run[r].status[Files[r][n]] # "unknown"
    /\ run[r].phase \in {"enter", "make", "done"} =>
         \A n \in 1..Len(Files[r]) :
             run[r].status[Files[r][n]] \in {"create", "unchanged"}
    /\ run[r].phase = "make" =>
         /\ run[r].next <= Len(Files[r])
         /\ run[r].depth < Len(Ancestors[Files[r][run[r].next]])
    /\ run[r].phase = "done" => run[r].next > Len(Files[r])

OnFileList(f, r) == \E n \in 1..Len(run[r].files) : run[r].files[n] = f

(* A file that a run has made is on the list by which it rolls back, or    *)
(* one of those that it could not remove.                                  *)
Listed(r) ==
    \A f \in File : tree[f].kind = "file" /\ tree[f].by = r =>
        /\ run[r].phase \in {"enter", "make", "rollback", "remove", "done", "failed", "killed"}
        /\ run[r].status[f] = "create"
        /\ \/ f \in run[r].unremoved
           \/ run[r].phase # "failed" /\ OnFileList(f, r)

(* What a run is about to remove it has seen to be its own; what is there  *)
(* instead by now is where the user has put something or taken it away.    *)
Looked(r) ==
    run[r].phase = "remove" =>
        /\ run[r].files # <<>> \/ run[r].dirs # <<>>
        /\ run[r].found = r
        /\ tree[Target(r)].by = r \/ Target(r) \in touched

InPlace(f) == tree[f].kind = "file" /\ tree[f].bytes = "template"

GivesUp(r) == run[r].phase \in {"rollback", "remove", "failed", "killed"}

(* What a run has found in place is still there, unless the user or the    *)
(* run that had put it there took it away.                                 *)
Found(r) ==
    \A f \in File : run[r].status[f] = "unchanged" =>
        \/ InPlace(f)
        \/ f \in touched
        \/ \E s \in Run \ {r} : GivesUp(s) /\ run[s].status[f] = "create"

(* What a run has put in place is still there, unless the user took it.    *)
Created(r) ==
    run[r].phase \in {"enter", "make", "done"} =>
        \A n \in 1..Len(Files[r]) :
            n < run[r].next /\ run[r].status[Files[r][n]] = "create" =>
                \/ Files[r][n] \in touched
                \/ InPlace(Files[r][n]) /\ tree[Files[r][n]].by = r

ScaffoldInvariant ==
    /\ ScaffoldTypes
    /\ \A r \in Run : Progress(r) /\ Listed(r) /\ Looked(r) /\ Found(r) /\ Created(r)

(* What the proofs need of the constants, but for the order of the paths,  *)
(* which only AboveIsAChain uses.                                          *)
ConstantTypes ==
    /\ User \notin Run
    /\ Dir \cap File = {}
    /\ Ancestors \in [Path -> Seq(Dir)]
    /\ Files \in [Run -> Seq(File)]

LEMMA ConstantsAreTyped == ConstantTypes
  BY ScaffoldAssumption DEF ConstantTypes

HIDE InstallAssumption
USE ConstantsAreTyped DEF ConstantTypes

(* Front and Last of a list that is not empty. *)
LEMMA LastIsTaken ==
  ASSUME NEW S, NEW list \in Seq(S), list # <<>>
  PROVE  /\ Len(list) >= 1
         /\ Last(list) = list[Len(list)]
         /\ Last(list) \in S
         /\ Front(list) \in Seq(S)
         /\ Len(Front(list)) = Len(list) - 1
         /\ \A n \in 1..(Len(list) - 1) : Front(list)[n] = list[n]
  <1>1. Len(list) \in Nat /\ list \in [1..Len(list) -> S]
    OBVIOUS
  <1>2. Len(list) >= 1
    BY <1>1
  <1>3. Last(list) = list[Len(list)] /\ list[Len(list)] \in S
    BY <1>1, <1>2 DEF Last
  <1>4. /\ Front(list) \in Seq(S)
        /\ Len(Front(list)) = Len(list) - 1
        /\ \A n \in 1..(Len(list) - 1) : Front(list)[n] = list[n]
    BY <1>1, <1>2 DEF Front
  <1> QED
    BY <1>2, <1>3, <1>4

(* A step of a run replaces its record and no other. *)
LEMMA OneRecordChanges ==
  ASSUME ScaffoldTypes, NEW r \in Run, NEW record \in RunRecord, Becomes(r, record)
  PROVE  /\ run' \in [Run -> RunRecord]
         /\ \A s \in Run : s # r => run'[s] = run[s]
         /\ run'[r] = record
  BY DEF ScaffoldTypes, Becomes

(* What a change of phase leaves alone. *)
LEMMA OnlyThePhaseChanges ==
  ASSUME ScaffoldTypes, NEW r \in Run,
         NEW next \in {"plan", "previewed", "compare", "conflict", "enter", "make", "rollback",
                       "remove", "done", "failed", "killed"},
         Moves(r, next)
  PROVE  /\ run' \in [Run -> RunRecord]
         /\ \A s \in Run : s # r => run'[s] = run[s]
         /\ run'[r].phase = next
         /\ run'[r].status = run[r].status
         /\ run'[r].next = run[r].next
         /\ run'[r].depth = run[r].depth
         /\ run'[r].files = run[r].files
         /\ run'[r].dirs = run[r].dirs
         /\ run'[r].unremoved = run[r].unremoved
  <1> DEFINE record == [run[r] EXCEPT !.phase = next]
  <1>1. /\ record \in RunRecord
        /\ record.phase = next
        /\ record.status = run[r].status /\ record.next = run[r].next
        /\ record.depth = run[r].depth /\ record.files = run[r].files
        /\ record.dirs = run[r].dirs /\ record.unremoved = run[r].unremoved
    BY ZenonT(30) DEF ScaffoldTypes, RunRecord
  <1>2. Becomes(r, record)
    BY DEF Moves
  <1> HIDE DEF record
  <1> QED
    BY <1>1, <1>2, OneRecordChanges

(* A step that changes the tree changes what is at one path. *)
LEMMA OneNodeChanges ==
  ASSUME tree \in [Path -> Node],
         NEW p \in Path, NEW node \in Node,
         tree' = [tree EXCEPT ![p] = node]
  PROVE  /\ tree' \in [Path -> Node]
         /\ tree'[p] = node
         /\ \A q \in Path : q # p => tree'[q] = tree[q]
  OBVIOUS

(* What may be put at a path. *)
LEMMA NodesOf ==
  ASSUME NEW who \in Run \cup {User}
  PROVE  /\ Absent \in Node
         /\ DirBy(who) \in Node
         /\ \A bytes \in {"template", "other"} : FileBy(who, bytes) \in Node
  BY DEF Node

(* At the path of a file there is a file or nothing. *)
LEMMA FilesOrNothing ==
  ASSUME ScaffoldTypes, NEW f \in File, tree[f] # Absent
  PROVE  tree[f].kind = "file"
  <1>1. tree[f] \in Node /\ tree[f].kind # "dir"
    BY DEF ScaffoldTypes, Path
  <1>2. CASE \E who \in Run \cup {User} : tree[f] = DirBy(who)
    BY <1>1, <1>2 DEF DirBy
  <1>3. CASE \E who \in Run \cup {User}, bytes \in {"template", "other"} :
               tree[f] = FileBy(who, bytes)
    BY <1>3 DEF FileBy
  <1> QED
    BY <1>1, <1>2, <1>3 DEF Node

(* The files of a run and the directories above them. *)
LEMMA FilesAreFiles ==
  ASSUME NEW r \in Run, NEW n \in 1..Len(Files[r])
  PROVE  /\ Files[r][n] \in File
         /\ Ancestors[Files[r][n]] \in Seq(Dir)
  BY DEF Path

(* What a run removes next is a file or a directory. *)
LEMMA TargetIsAPath ==
  ASSUME ScaffoldTypes, NEW r \in Run, run[r].files # <<>> \/ run[r].dirs # <<>>
  PROVE  /\ Target(r) \in Path
         /\ run[r].files # <<>> => Target(r) \in File
         /\ run[r].files = <<>> => Target(r) \in Dir
  <1>1. run[r].files \in Seq(File) /\ run[r].dirs \in Seq(Dir)
    BY DEF ScaffoldTypes, RunRecord
  <1>2. CASE run[r].files # <<>>
    BY <1>1, <1>2, LastIsTaken DEF Target, Path
  <1>3. CASE run[r].files = <<>>
    BY <1>1, <1>3, LastIsTaken DEF Target, Path
  <1> QED
    BY <1>2, <1>3

(* A run goes on to remove what it has looked at, whatever others do, if   *)
(* that stays or is touched.                                               *)
LEMMA LookedStays ==
  ASSUME ScaffoldTypes, NEW s \in Run, Looked(s), run'[s] = run[s], touched \subseteq touched',
         \A p \in Path : tree[p].by = s => tree'[p].by = s \/ p \in touched'
  PROVE  Looked(s)'
  <1> SUFFICES ASSUME run[s].phase = "remove"
               PROVE  /\ run[s].files # <<>> \/ run[s].dirs # <<>>
                      /\ run[s].found = s
                      /\ tree'[Target(s)].by = s \/ Target(s) \in touched'
    BY DEF Looked, Target
  <1>1. /\ run[s].files # <<>> \/ run[s].dirs # <<>>
        /\ run[s].found = s
        /\ tree[Target(s)].by = s \/ Target(s) \in touched
    BY DEF Looked
  <1>2. Target(s) \in Path
    BY <1>1, TargetIsAPath
  <1> QED
    BY <1>1, <1>2

(* As long as its lists stay, so does what they say of its files. *)
LEMMA ListedStays ==
  ASSUME NEW s \in Run, Listed(s),
         \/ run'[s].phase = run[s].phase
         \/ run'[s].phase \in {"enter", "make", "rollback", "remove", "done", "killed"},
         run'[s].status = run[s].status, run'[s].files = run[s].files,
         run'[s].unremoved = run[s].unremoved,
         \A f \in File : tree'[f].kind = "file" /\ tree'[f].by = s =>
             tree[f].kind = "file" /\ tree[f].by = s
  PROVE  Listed(s)'
  <1>1. \A f : OnFileList(f, s) => OnFileList(f, s)'
    BY DEF OnFileList
  <1> SUFFICES ASSUME NEW f \in File, tree'[f].kind = "file", tree'[f].by = s
               PROVE  /\ run'[s].phase \in {"enter", "make", "rollback", "remove",
                                            "done", "failed", "killed"}
                      /\ run[s].status[f] = "create"
                      /\ \/ f \in run[s].unremoved
                         \/ run'[s].phase # "failed" /\ OnFileList(f, s)'
    BY DEF Listed
  <1>2. /\ run[s].phase \in {"enter", "make", "rollback", "remove", "done", "failed", "killed"}
        /\ run[s].status[f] = "create"
        /\ f \in run[s].unremoved \/ (run[s].phase # "failed" /\ OnFileList(f, s))
    BY DEF Listed
  <1> QED
    BY <1>1, <1>2

(* A step of a run that removes nothing leaves the others with what they   *)
(* have, so that only the run itself has to be looked at.                  *)
LEMMA GrowingStep ==
  ASSUME ScaffoldInvariant, NEW r \in Run, touched' = touched,
         \A s \in Run : s # r => run'[s] = run[s],
         \A p \in Path : tree[p] # Absent => tree'[p] = tree[p],
         \A f \in File : tree'[f].kind = "file" /\ tree'[f].by # r => tree'[f] = tree[f],
         \A f \in File : run'[r].status[f] = "unchanged" =>
             run[r].status[f] = "unchanged" \/ InPlace(f),
         GivesUp(r) => GivesUp(r)' /\ run'[r].status = run[r].status,
         ScaffoldTypes', Progress(r)', Listed(r)', Looked(r)', Created(r)'
  PROVE  ScaffoldInvariant'
  <1>0. \A f \in File : tree[f].kind = "file" => tree'[f] = tree[f]
    BY DEF Absent, Path
  <1>1. Found(r)'
    <2> SUFFICES ASSUME NEW f \in File, run'[r].status[f] = "unchanged"
                 PROVE  \/ InPlace(f)' \/ f \in touched'
                        \/ \E s \in Run \ {r} : GivesUp(s)' /\ run'[s].status[f] = "create"
      BY DEF Found
    <2>1. InPlace(f) => InPlace(f)'
      BY <1>0 DEF InPlace
    <2>2. \A s \in Run \ {r} : GivesUp(s) => GivesUp(s)' /\ run'[s].status = run[s].status
      BY DEF GivesUp
    <2>3. \/ InPlace(f) \/ f \in touched
          \/ \E s \in Run \ {r} : GivesUp(s) /\ run[s].status[f] = "create"
      BY DEF ScaffoldInvariant, Found
    <2> QED
      BY <2>1, <2>2, <2>3
  <1>2. ASSUME NEW s \in Run, s # r
        PROVE  Progress(s)' /\ Listed(s)' /\ Looked(s)' /\ Found(s)' /\ Created(s)'
    <2>0. /\ Progress(s) /\ Listed(s) /\ Looked(s) /\ Found(s) /\ Created(s)
          /\ run'[s] = run[s]
      BY <1>2 DEF ScaffoldInvariant
    <2>1. Progress(s)'
      BY <2>0 DEF Progress
    <2>2. Listed(s)'
      BY <1>2, <2>0, ListedStays
    <2>l. Looked(s)'
      <3>1. Absent.by # s
        BY DEF Absent
      <3>2. \A p \in Path : tree[p].by = s => tree'[p].by = s
        BY <3>1
      <3> QED
        BY <2>0, <3>2, LookedStays DEF ScaffoldInvariant
    <2>3. \A f \in File : InPlace(f) => InPlace(f)' /\ tree'[f] = tree[f]
      BY <1>0 DEF InPlace
    <2>4. Found(s)'
      <3> SUFFICES ASSUME NEW f \in File, run'[s].status[f] = "unchanged"
                   PROVE  \/ InPlace(f)' \/ f \in touched'
                          \/ \E q \in Run \ {s} : GivesUp(q)' /\ run'[q].status[f] = "create"
        BY DEF Found
      <3>1. \A q \in Run : GivesUp(q) => GivesUp(q)' /\ run'[q].status = run[q].status
        BY DEF GivesUp
      <3>2. \/ InPlace(f) \/ f \in touched
            \/ \E q \in Run \ {s} : GivesUp(q) /\ run[q].status[f] = "create"
        BY <2>0 DEF Found
      <3> QED
        BY <2>3, <3>1, <3>2
    <2>5. Created(s)'
      BY <2>0, <2>3, FilesAreFiles DEF Created
    <2> QED
      BY <2>1, <2>2, <2>l, <2>4, <2>5
  <1> QED
    BY <1>1, <1>2 DEF ScaffoldInvariant

(* Before it creates, a run changes nothing but its own record. *)
LEMMA StepBeforeCreating ==
  ASSUME ScaffoldInvariant, NEW r \in Run,
         tree' = tree, touched' = touched,
         run[r].phase \in {"plan", "compare"},
         run' \in [Run -> RunRecord],
         \A s \in Run : s # r => run'[s] = run[s],
         \A f \in File : run'[r].status[f] = "unchanged" =>
             run[r].status[f] = "unchanged" \/ InPlace(f),
         Progress(r)',
         run'[r].phase # "remove",
         run'[r].phase \in {"enter", "make", "done"} => run'[r].next = 1
  PROVE  ScaffoldInvariant'
  <1>1. ScaffoldTypes'
    BY DEF ScaffoldInvariant, ScaffoldTypes
  <1>l. Looked(r)'
    BY DEF Looked
  <1>2. Listed(r)'
    <2>1. \A f \in File : ~(tree[f].kind = "file" /\ tree[f].by = r)
      BY DEF ScaffoldInvariant, Listed
    <2> QED
      BY <2>1 DEF Listed
  <1>3. Created(r)'
    BY DEF Created
  <1>4. ~GivesUp(r)
    BY DEF GivesUp
  <1> QED
    BY <1>1, <1>2, <1>l, <1>3, <1>4, GrowingStep

(* A plan or a comparison that only moves on, or ends. *)
LEMMA PlanMoves ==
  ASSUME ScaffoldInvariant, NEW r \in Run,
         NEW next \in {"previewed", "compare", "failed", "conflict"}, Moves(r, next),
         run[r].phase \in {"plan", "compare"},
         next = "compare" => run[r].phase = "plan",
         tree' = tree, touched' = touched
  PROVE  ScaffoldInvariant'
  <1>1. ScaffoldTypes /\ Progress(r)
    BY DEF ScaffoldInvariant
  <1>2. /\ run' \in [Run -> RunRecord]
        /\ \A s \in Run : s # r => run'[s] = run[s]
        /\ run'[r].phase = next
        /\ run'[r].status = run[r].status
        /\ run'[r].next = run[r].next
    BY <1>1, OnlyThePhaseChanges
  <1>3. Progress(r)'
    BY <1>1, <1>2 DEF Progress
  <1> QED
    BY <1>2, <1>3, StepBeforeCreating

(* Planning. *)
LEMMA PlanStep ==
  ASSUME ScaffoldInvariant, NEW r \in Run,
         NEW dryRun \in BOOLEAN, Plan(r, dryRun)
  PROVE  ScaffoldInvariant'
  <1>1. PICK next \in {"previewed", "compare", "failed"} : Moves(r, next)
    BY DEF Plan
  <1> QED
    BY <1>1, PlanMoves DEF Plan

(* One file is compared: what counts as unchanged is in place. *)
LEMMA CompareStep ==
  ASSUME ScaffoldInvariant, NEW r \in Run, Compare(r)
  PROVE  ScaffoldInvariant'
  <1> DEFINE n == run[r].next
             f == Files[r][n]
             verdict == CompareDestination(f)
             record == [run[r] EXCEPT !.status[f] = verdict, !.next = n + 1]
  <1>1. /\ run[r].phase = "compare" /\ n <= Len(Files[r]) /\ tree' = tree /\ touched' = touched
        /\ Moves(r, "failed") \/ Becomes(r, record)
    BY DEF Compare
  <1>2. ScaffoldTypes /\ Progress(r) /\ run[r] \in RunRecord
    BY DEF ScaffoldInvariant, ScaffoldTypes
  <1>3. CASE Moves(r, "failed")
    BY <1>1, <1>3, PlanMoves
  <1>4. CASE Becomes(r, record)
    <2>1. n \in 1..Len(Files[r]) /\ f \in File
      <3>1. n \in Nat /\ n >= 1 /\ Len(Files[r]) \in Nat
        BY <1>2 DEF Progress, RunRecord
      <3>2. n \in 1..Len(Files[r])
        BY <1>1, <3>1
      <3> QED
        BY <3>2, FilesAreFiles
    <2>2. /\ verdict \in {"create", "unchanged", "conflict"}
          /\ verdict = "unchanged" => InPlace(f)
      BY DEF CompareDestination, InPlace
    <2>r. record = [run[r] EXCEPT !.status[f] = verdict, !.next = n + 1]
      OBVIOUS
    <2> HIDE DEF f, verdict, record
    <2>3. /\ record \in RunRecord
          /\ record.phase = "compare" /\ record.next = n + 1
          /\ record.status[f] = verdict
          /\ \A g \in File : g # f => record.status[g] = run[r].status[g]
      <3>1. PICK next \in Nat : next = n + 1
        BY <1>2 DEF RunRecord
      <3>o. PICK old \in RunRecord : old = run[r]
        BY <1>2
      <3>r. record = [old EXCEPT !.status[f] = verdict, !.next = next]
        BY <2>r, <3>1, <3>o
      <3>2. /\ record \in RunRecord
            /\ record.phase = old.phase /\ record.next = next
            /\ record.status[f] = verdict
            /\ \A g \in File : g # f => record.status[g] = old.status[g]
        BY <2>1, <2>2, <3>r DEF RunRecord
      <3> QED
        BY <1>1, <3>1, <3>o, <3>2
    <2>4. /\ run' \in [Run -> RunRecord]
          /\ \A s \in Run : s # r => run'[s] = run[s]
          /\ run'[r] = record
      BY <1>2, <1>4, <2>3, OneRecordChanges
    <2>5. \A m \in 1..Len(Files[r]) : m < n + 1 => record.status[Files[r][m]] # "unknown"
      <3> SUFFICES ASSUME NEW m \in 1..Len(Files[r]), m < n + 1
                   PROVE  record.status[Files[r][m]] # "unknown"
        OBVIOUS
      <3>1. Files[r][m] \in File
        BY FilesAreFiles
      <3>2. m = n \/ m < n
        BY <2>1
      <3>3. m = n => Files[r][m] = f
        BY DEF f
      <3> QED
        BY <1>1, <1>2, <2>2, <2>3, <3>1, <3>2, <3>3 DEF Progress
    <2>6. Progress(r)'
      BY <2>1, <2>3, <2>4, <2>5 DEF Progress
    <2>7. \A g \in File : run'[r].status[g] = "unchanged" =>
             run[r].status[g] = "unchanged" \/ InPlace(g)
      BY <2>2, <2>3, <2>4
    <2> QED
      BY <1>1, <2>3, <2>4, <2>6, <2>7, StepBeforeCreating
  <1> QED
    BY <1>1, <1>3, <1>4

(* After staging, every file is either to be created or in place. *)
LEMMA StageStep ==
  ASSUME ScaffoldInvariant, NEW r \in Run, Stage(r)
  PROVE  ScaffoldInvariant'
  <1> DEFINE record == [run[r] EXCEPT !.phase = "enter", !.next = 1]
  <1>1. /\ run[r].phase = "compare" /\ run[r].next > Len(Files[r])
        /\ tree' = tree /\ touched' = touched
    BY DEF Stage
  <1>2. ScaffoldTypes /\ Progress(r) /\ run[r] \in RunRecord
    BY DEF ScaffoldInvariant, ScaffoldTypes
  <1>3. CASE \E g \in ToSet(Files[r]) : run[r].status[g] = "conflict"
    <2>1. Moves(r, "conflict")
      BY <1>3 DEF Stage
    <2> QED
      BY <1>1, <2>1, PlanMoves
  <1>4. CASE Moves(r, "failed")
    BY <1>1, <1>4, PlanMoves
  <1>5. CASE /\ ~ \E g \in ToSet(Files[r]) : run[r].status[g] = "conflict"
             /\ Becomes(r, record)
    <2>1. /\ record \in RunRecord
          /\ record.phase = "enter" /\ record.next = 1 /\ record.status = run[r].status
      BY <1>2 DEF RunRecord
    <2> HIDE DEF record
    <2>2. /\ run' \in [Run -> RunRecord]
          /\ \A s \in Run : s # r => run'[s] = run[s]
          /\ run'[r] = record
      BY <1>2, <1>5, <2>1, OneRecordChanges
    <2>3. \A m \in 1..Len(Files[r]) : run[r].status[Files[r][m]] \in {"create", "unchanged"}
      <3> SUFFICES ASSUME NEW m \in 1..Len(Files[r])
                   PROVE  run[r].status[Files[r][m]] \in {"create", "unchanged"}
        OBVIOUS
      <3>1. Files[r][m] \in File /\ Files[r][m] \in ToSet(Files[r])
        BY FilesAreFiles DEF ToSet
      <3>2. m < run[r].next
        BY <1>1, <1>2 DEF RunRecord
      <3>3. run[r].status[Files[r][m]] \in {"unknown", "create", "unchanged", "conflict"}
        BY <1>2, <3>1 DEF RunRecord
      <3> QED
        BY <1>1, <1>2, <1>5, <3>1, <3>2, <3>3 DEF Progress
    <2>4. Progress(r)'
      BY <2>1, <2>2, <2>3 DEF Progress
    <2> QED
      BY <1>1, <2>1, <2>2, <2>4, StepBeforeCreating
  <1> QED
    BY <1>3, <1>4, <1>5 DEF Stage

(* While it creates, a run may do anything to its own record but forget a  *)
(* file or a status.                                                       *)
LEMMA StepWhileCreating ==
  ASSUME ScaffoldInvariant, NEW r \in Run,
         touched' = touched, tree' \in [Path -> Node],
         \A p \in Path : tree[p] # Absent => tree'[p] = tree[p],
         \A f \in File : tree'[f] = tree[f],
         run' \in [Run -> RunRecord],
         \A s \in Run : s # r => run'[s] = run[s],
         run[r].phase \in {"enter", "make", "rollback", "remove"},
         run'[r].phase \in {"enter", "make", "rollback", "done", "killed"},
         run'[r].status = run[r].status, run'[r].files = run[r].files,
         run'[r].unremoved = run[r].unremoved,
         run[r].phase \in {"rollback", "remove"} => run'[r].phase = "killed",
         Progress(r)', Created(r)'
  PROVE  ScaffoldInvariant'
  <1>1. ScaffoldTypes'
    BY DEF ScaffoldInvariant, ScaffoldTypes
  <1>2. Listed(r)'
    BY ListedStays DEF ScaffoldInvariant
  <1>3. GivesUp(r) => GivesUp(r)'
    BY DEF GivesUp
  <1>4. Looked(r)'
    BY DEF Looked
  <1> QED
    BY <1>1, <1>2, <1>3, <1>4, GrowingStep

(* A run gives up, is done or is killed. *)
LEMMA PhaseStep ==
  ASSUME ScaffoldInvariant, NEW r \in Run,
         NEW next \in {"make", "rollback", "done", "killed"}, Moves(r, next),
         touched' = touched, tree' = tree,
         run[r].phase \in {"enter", "make", "rollback", "remove"},
         run[r].phase \in {"rollback", "remove"} => next = "killed",
         next = "make" => /\ run[r].next <= Len(Files[r])
                          /\ run[r].depth < Len(Ancestors[Files[r][run[r].next]]),
         next = "done" => run[r].next > Len(Files[r])
  PROVE  ScaffoldInvariant'
  <1>1. ScaffoldTypes /\ Progress(r) /\ Created(r)
    BY DEF ScaffoldInvariant
  <1>2. /\ run' \in [Run -> RunRecord]
        /\ \A s \in Run : s # r => run'[s] = run[s]
        /\ run'[r].phase = next
        /\ run'[r].status = run[r].status /\ run'[r].next = run[r].next
        /\ run'[r].depth = run[r].depth /\ run'[r].files = run[r].files
        /\ run'[r].unremoved = run[r].unremoved
    BY <1>1, OnlyThePhaseChanges
  <1>3. Progress(r)'
    BY <1>1, <1>2 DEF Progress
  <1>4. Created(r)'
    BY <1>1, <1>2 DEF Created, InPlace
  <1>5. tree' \in [Path -> Node]
    BY <1>1 DEF ScaffoldTypes
  <1> QED
    BY <1>2, <1>3, <1>4, <1>5, StepWhileCreating

(* The success, an error and the death of a run. *)
LEMMA OtherSteps ==
  ASSUME ScaffoldInvariant, NEW r \in Run,
         Commit(r) \/ CallFails(r) \/ Kill(r)
  PROVE  ScaffoldInvariant'
  <1>1. CASE Commit(r)
    BY <1>1, PhaseStep DEF Commit
  <1>2. CASE CallFails(r)
    BY <1>2, PhaseStep DEF CallFails
  <1>3. CASE Kill(r)
    BY <1>3, PhaseStep DEF Kill
  <1> QED
    BY <1>1, <1>2, <1>3

(* A file that is in place already is passed over. *)
LEMMA SkipStep ==
  ASSUME ScaffoldInvariant, NEW r \in Run, SkipUnchanged(r)
  PROVE  ScaffoldInvariant'
  <1>1. /\ ScaffoldTypes /\ Progress(r) /\ Created(r)
        /\ run[r].phase = "enter" /\ tree' = tree /\ touched' = touched
        /\ run[r].status[Files[r][run[r].next]] # "create"
    BY DEF ScaffoldInvariant, SkipUnchanged, AtFile, Current
  <1>2. PICK old \in RunRecord : old = run[r]
    BY <1>1 DEF ScaffoldTypes
  <1>3. PICK next \in Nat : next = run[r].next + 1
    BY <1>2 DEF RunRecord
  <1>4. PICK record \in RunRecord : record = [old EXCEPT !.next = next]
    BY DEF RunRecord
  <1>5. /\ record.phase = old.phase /\ record.status = old.status /\ record.next = next
        /\ record.files = old.files /\ record.unremoved = old.unremoved
    BY <1>4 DEF RunRecord
  <1>6. Becomes(r, record)
    BY <1>2, <1>3, <1>4 DEF SkipUnchanged
  <1>7. /\ run' \in [Run -> RunRecord]
        /\ \A s \in Run : s # r => run'[s] = run[s]
        /\ run'[r] = record
    BY <1>1, <1>6, OneRecordChanges
  <1>8. Progress(r)'
    BY <1>1, <1>2, <1>3, <1>5, <1>7 DEF Progress, RunRecord
  <1>9. Created(r)'
    BY <1>1, <1>2, <1>3, <1>5, <1>7 DEF Created, InPlace, RunRecord
  <1>10. tree' \in [Path -> Node]
    BY <1>1 DEF ScaffoldTypes
  <1> QED
    BY <1>1, <1>2, <1>5, <1>7, <1>8, <1>9, <1>10, StepWhileCreating

(* On the way to a file: a directory is entered, or has to be made. *)
LEMMA EnterStep ==
  ASSUME ScaffoldInvariant, NEW r \in Run, EnterDirectory(r)
  PROVE  ScaffoldInvariant'
  <1>1. /\ ScaffoldTypes /\ Progress(r) /\ Created(r)
        /\ run[r].phase = "enter" /\ tree' = tree /\ touched' = touched
        /\ run[r].next <= Len(Files[r])
        /\ run[r].depth < Len(Ancestors[Files[r][run[r].next]])
    BY DEF ScaffoldInvariant, EnterDirectory, Committing, AtFile,
           Current
  <1>2. CASE Moves(r, "make")
    BY <1>1, <1>2, PhaseStep
  <1>3. CASE Moves(r, "rollback")
    BY <1>1, <1>3, PhaseStep
  <1>4. CASE Becomes(r, [run[r] EXCEPT !.depth = run[r].depth + 1])
    <2>1. PICK old \in RunRecord : old = run[r]
      BY <1>1 DEF ScaffoldTypes
    <2>2. PICK depth \in Nat : depth = run[r].depth + 1
      BY <2>1 DEF RunRecord
    <2>3. PICK record \in RunRecord : record = [old EXCEPT !.depth = depth]
      BY DEF RunRecord
    <2>4. /\ record.phase = old.phase /\ record.status = old.status /\ record.next = old.next
          /\ record.files = old.files /\ record.unremoved = old.unremoved
      BY <2>3 DEF RunRecord
    <2>5. Becomes(r, record)
      BY <1>4, <2>1, <2>2, <2>3
    <2>6. /\ run' \in [Run -> RunRecord]
          /\ \A s \in Run : s # r => run'[s] = run[s]
          /\ run'[r] = record
      BY <1>1, <2>5, OneRecordChanges
    <2>7. Progress(r)'
      BY <1>1, <2>1, <2>4, <2>6 DEF Progress
    <2>8. Created(r)'
      BY <1>1, <2>1, <2>4, <2>6 DEF Created, InPlace
    <2>9. tree' \in [Path -> Node]
      BY <1>1 DEF ScaffoldTypes
    <2> QED
      BY <1>1, <2>1, <2>4, <2>6, <2>7, <2>8, <2>9, StepWhileCreating
  <1> QED
    BY <1>2, <1>3, <1>4 DEF EnterDirectory

(* A directory is made: no file is concerned. *)
LEMMA MakeStep ==
  ASSUME ScaffoldInvariant, NEW r \in Run, MakeDirectory(r)
  PROVE  ScaffoldInvariant'
  <1>1. /\ ScaffoldTypes /\ Progress(r) /\ Created(r)
        /\ run[r].phase = "make" /\ touched' = touched
    BY DEF ScaffoldInvariant, MakeDirectory
  <1>2. PICK d \in Dir : d = Component(r)
    <2>1. run[r].next \in 1..Len(Files[r]) /\ run[r].depth \in Nat
      BY <1>1 DEF Progress, ScaffoldTypes, RunRecord
    <2>2. Ancestors[Files[r][run[r].next]] \in Seq(Dir)
      BY <2>1, FilesAreFiles
    <2> QED
      BY <1>1, <2>1, <2>2 DEF Progress, Component, Current
  <1>3. ASSUME tree[d] = Absent, tree' = [tree EXCEPT ![d] = DirBy(r)]
        PROVE  /\ tree' \in [Path -> Node]
               /\ \A p \in Path : tree[p] # Absent => tree'[p] = tree[p]
               /\ \A f \in File : tree'[f] = tree[f]
    <2>1. /\ tree \in [Path -> Node]
          /\ d \in Path /\ DirBy(r) \in Node
      BY <1>1, NodesOf DEF ScaffoldTypes, Path
    <2>2. \A f \in File : f \in Path /\ f # d
      BY DEF Path
    <2> QED
      BY <1>3, <2>1, <2>2, OneNodeChanges
  <1>4. CASE /\ tree[d] = Absent /\ tree' = [tree EXCEPT ![d] = DirBy(r)]
             /\ Becomes(r, [run[r] EXCEPT !.phase = "enter", !.depth = run[r].depth + 1,
                                                    !.dirs = Append(run[r].dirs, d)])
    <2>1. PICK old \in RunRecord : old = run[r]
      BY <1>1 DEF ScaffoldTypes
    <2>2. PICK depth \in Nat : depth = run[r].depth + 1
      BY <2>1 DEF RunRecord
    <2>3. PICK dirs \in Seq(Dir) : dirs = Append(run[r].dirs, d)
      <3>1. run[r].dirs \in Seq(Dir)
        BY <2>1 DEF RunRecord
      <3>2. Append(run[r].dirs, d) \in Seq(Dir)
        BY <3>1
      <3> QED
        BY <3>2
    <2>4. PICK record \in RunRecord :
            record = [old EXCEPT !.phase = "enter", !.depth = depth, !.dirs = dirs]
      BY DEF RunRecord
    <2>5. /\ record.phase = "enter" /\ record.status = old.status /\ record.next = old.next
          /\ record.files = old.files /\ record.unremoved = old.unremoved
      BY <2>4 DEF RunRecord
    <2>6. Becomes(r, record)
      BY <1>4, <2>1, <2>2, <2>3, <2>4
    <2>7. /\ run' \in [Run -> RunRecord]
          /\ \A s \in Run : s # r => run'[s] = run[s]
          /\ run'[r] = record
      BY <1>1, <2>6, OneRecordChanges
    <2>8. /\ tree' \in [Path -> Node]
          /\ \A p \in Path : tree[p] # Absent => tree'[p] = tree[p]
          /\ \A f \in File : tree'[f] = tree[f]
      BY <1>3, <1>4
    <2>9. Progress(r)'
      BY <1>1, <2>1, <2>5, <2>7 DEF Progress
    <2>10. Created(r)'
      <3> SUFFICES ASSUME NEW n \in 1..Len(Files[r]), n < run'[r].next,
                          run'[r].status[Files[r][n]] = "create"
                   PROVE  \/ Files[r][n] \in touched'
                          \/ InPlace(Files[r][n])' /\ tree'[Files[r][n]].by = r
        BY DEF Created
      <3>1. tree'[Files[r][n]] = tree[Files[r][n]]
        BY <2>8, FilesAreFiles
      <3> QED
        BY <1>1, <2>1, <2>5, <2>7, <3>1 DEF Created, InPlace
    <2> QED
      BY <1>1, <2>1, <2>5, <2>7, <2>8, <2>9, <2>10, StepWhileCreating
  <1>5. CASE Moves(r, "rollback") /\ tree' = tree
    BY <1>1, <1>5, PhaseStep
  <1>6. CASE /\ tree[d] = Absent /\ tree' = [tree EXCEPT ![d] = DirBy(r)]
             /\ Moves(r, "rollback")
    <2>1. /\ run' \in [Run -> RunRecord]
          /\ \A s \in Run : s # r => run'[s] = run[s]
          /\ run'[r].phase = "rollback"
          /\ run'[r].status = run[r].status /\ run'[r].next = run[r].next
          /\ run'[r].files = run[r].files /\ run'[r].unremoved = run[r].unremoved
      BY <1>1, <1>6, OnlyThePhaseChanges
    <2>2. /\ tree' \in [Path -> Node]
          /\ \A p \in Path : tree[p] # Absent => tree'[p] = tree[p]
          /\ \A f \in File : tree'[f] = tree[f]
      BY <1>3, <1>6
    <2>3. Progress(r)' /\ Created(r)'
      BY <1>1, <2>1 DEF Progress, Created
    <2> QED
      BY <1>1, <2>1, <2>2, <2>3, StepWhileCreating
  <1> QED
    BY <1>2, <1>4, <1>5, <1>6 DEF MakeDirectory

(* A file is put in place only where nothing is, and goes on the list. *)
LEMMA LinkStep ==
  ASSUME ScaffoldInvariant, NEW r \in Run, Link(r)
  PROVE  ScaffoldInvariant'
  <1>1. /\ ScaffoldTypes /\ Progress(r) /\ Created(r) /\ Listed(r)
        /\ run[r].phase = "enter" /\ touched' = touched
        /\ run[r].next <= Len(Files[r])
        /\ run[r].status[Files[r][run[r].next]] = "create"
    BY DEF ScaffoldInvariant, Link, Committing, AtFile,
           Current
  <1>2. PICK f \in File : f = Current(r)
    <2>1. run[r].next \in 1..Len(Files[r])
      BY <1>1 DEF Progress, ScaffoldTypes, RunRecord
    <2> QED
      BY <2>1, FilesAreFiles DEF Current
  <1>3. CASE Moves(r, "rollback") /\ tree' = tree
    BY <1>1, <1>3, PhaseStep
  <1>4. CASE /\ tree[f] = Absent
             /\ tree' = [tree EXCEPT ![f] = FileBy(r, "template")]
             /\ Becomes(r, [run[r] EXCEPT !.next = run[r].next + 1, !.depth = 0,
                                                    !.files = Append(run[r].files, f)])
    <2>1. PICK old \in RunRecord : old = run[r]
      BY <1>1 DEF ScaffoldTypes
    <2>2. PICK next \in Nat : next = run[r].next + 1
      BY <2>1 DEF RunRecord
    <2>3. PICK files \in Seq(File) : files = Append(run[r].files, f)
      <3>1. run[r].files \in Seq(File)
        BY <2>1 DEF RunRecord
      <3>2. Append(run[r].files, f) \in Seq(File)
        BY <3>1
      <3> QED
        BY <3>2
    <2>d. PICK depth \in Nat : depth = 0
      OBVIOUS
    <2>4. PICK record \in RunRecord :
            record = [old EXCEPT !.next = next, !.depth = depth, !.files = files]
      BY DEF RunRecord
    <2>5. /\ record.phase = old.phase /\ record.status = old.status /\ record.next = next
          /\ record.files = files /\ record.unremoved = old.unremoved
      BY <2>4 DEF RunRecord
    <2>6. Becomes(r, record)
      BY <1>4, <2>1, <2>2, <2>3, <2>4, <2>d
    <2>7. /\ run' \in [Run -> RunRecord]
          /\ \A s \in Run : s # r => run'[s] = run[s]
          /\ run'[r] = record
      BY <1>1, <2>6, OneRecordChanges
    <2>8. /\ tree' \in [Path -> Node]
          /\ tree'[f] = FileBy(r, "template")
          /\ \A p \in Path : tree[p] # Absent => tree'[p] = tree[p]
          /\ \A g \in File : g # f => tree'[g] = tree[g]
      <3>1. /\ tree \in [Path -> Node]
            /\ f \in Path /\ FileBy(r, "template") \in Node
        BY <1>1, NodesOf DEF ScaffoldTypes, Path
      <3>2. \A g \in File : g \in Path
        BY DEF Path
      <3> QED
        BY <1>4, <3>1, <3>2, OneNodeChanges
    <2>9. /\ tree'[f].kind = "file" /\ tree'[f].by = r /\ tree'[f].bytes = "template"
          /\ tree[f].kind = "absent"
      BY <1>4, <2>8 DEF FileBy, Absent
    <2>10. ScaffoldTypes'
      BY ZenonT(30), <1>1, <2>7, <2>8, <2>9 DEF ScaffoldTypes
    <2>11. Progress(r)'
      BY <1>1, <2>1, <2>2, <2>5, <2>7 DEF Progress, RunRecord
    <2>12. Listed(r)'
      <3>0. run[r].files \in Seq(File)
        BY <2>1 DEF RunRecord
      <3>1. \A g : OnFileList(g, r) => OnFileList(g, r)'
        <4> SUFFICES ASSUME NEW n \in 1..Len(run[r].files)
                     PROVE  n \in 1..Len(files) /\ files[n] = run[r].files[n]
          BY <2>5, <2>7 DEF OnFileList
        <4> QED
          BY <2>3, <3>0
      <3>2. OnFileList(f, r)'
        <4>1. files[Len(files)] = f /\ Len(files) \in 1..Len(files)
          BY <2>3, <3>0
        <4> QED
          BY <2>5, <2>7, <4>1 DEF OnFileList
      <3> SUFFICES ASSUME NEW g \in File, tree'[g].kind = "file", tree'[g].by = r
                   PROVE  /\ run[r].status[g] = "create"
                          /\ g \in run[r].unremoved \/ OnFileList(g, r)'
        BY <1>1, <2>1, <2>5, <2>7 DEF Listed
      <3>3. CASE g = f
        BY <1>1, <1>2, <3>2, <3>3 DEF Current
      <3>4. CASE g # f
        <4>1. tree[g].kind = "file" /\ tree[g].by = r
          BY <2>8, <3>4
        <4>2. /\ run[r].status[g] = "create"
              /\ g \in run[r].unremoved \/ OnFileList(g, r)
          BY <1>1, <4>1 DEF Listed
        <4> QED
          BY <3>1, <4>2
      <3> QED
        BY <3>3, <3>4
    <2>l. Looked(r)'
      BY <1>1, <2>1, <2>5, <2>7 DEF Looked
    <2>13. Created(r)'
      <3> SUFFICES ASSUME NEW n \in 1..Len(Files[r]), n < next, old.status[Files[r][n]] = "create"
                   PROVE  \/ Files[r][n] \in touched
                          \/ /\ tree'[Files[r][n]].kind = "file"
                             /\ tree'[Files[r][n]].bytes = "template"
                             /\ tree'[Files[r][n]].by = r
        BY <1>1, <2>5, <2>7 DEF Created, InPlace
      <3>1. CASE Files[r][n] = f
        BY <2>9, <3>1
      <3>2. CASE Files[r][n] # f
        <4>1. n < run[r].next
          <5>1. n # run[r].next
            BY <1>2, <3>2 DEF Current
          <5> QED
            BY <2>1, <2>2, <5>1 DEF RunRecord
        <4>2. tree'[Files[r][n]] = tree[Files[r][n]]
          BY <2>8, <3>2, FilesAreFiles
        <4> QED
          BY <1>1, <2>1, <4>1, <4>2 DEF Created, InPlace
      <3> QED
        BY <3>1, <3>2
    <2>14. \A g \in File : tree'[g].kind = "file" /\ tree'[g].by # r => tree'[g] = tree[g]
      BY <2>8, <2>9
    <2>16. \A g \in File : run'[r].status[g] = "unchanged" =>
             run[r].status[g] = "unchanged" \/ InPlace(g)
      BY <2>1, <2>5, <2>7
    <2>17. \A p \in Path : tree[p] # Absent => tree'[p] = tree[p]
      BY <2>8
    <2>18. \A q \in Run : q # r => run'[q] = run[q]
      BY <2>7
    <2>15. ~GivesUp(r)
      BY <1>1 DEF GivesUp
    <2> QED
      BY <1>1, <2>1, <2>5, <2>7, <2>10, <2>11, <2>12, <2>l,
         <2>13, <2>14, <2>15, <2>16, <2>17, <2>18, GrowingStep
  <1> QED
    BY <1>2, <1>3, <1>4 DEF Link

(* The next path is dropped from its list, as one that could not be        *)
(* removed or not.                                                         *)
Drops(r, more) ==
    \/ more = {} /\ Becomes(r, Dropped(r))
    \/ more = {Target(r)} /\ Becomes(r, [Dropped(r) EXCEPT !.unremoved = @ \cup {Target(r)}])

LEMMA Dropping ==
  ASSUME ScaffoldTypes, NEW r \in Run, run[r].files # <<>> \/ run[r].dirs # <<>>,
         NEW more, Drops(r, more)
  PROVE  /\ run' \in [Run -> RunRecord]
         /\ \A s \in Run : s # r => run'[s] = run[s]
         /\ run'[r].phase = "rollback" /\ run'[r].status = run[r].status
         /\ run'[r].next = run[r].next /\ run'[r].depth = run[r].depth
         /\ run'[r].unremoved = run[r].unremoved \cup more
         /\ run[r].files # <<>> =>
              /\ run'[r].dirs = run[r].dirs
              /\ Len(run[r].files) \in Nat
              /\ Len(run'[r].files) = Len(run[r].files) - 1
              /\ \A n \in 1..(Len(run[r].files) - 1) : run'[r].files[n] = run[r].files[n]
              /\ Target(r) = run[r].files[Len(run[r].files)]
         /\ run[r].files = <<>> =>
              /\ run'[r].files = <<>>
              /\ Len(run[r].dirs) \in Nat /\ Len(run[r].dirs) >= 1
              /\ Len(run'[r].dirs) = Len(run[r].dirs) - 1
              /\ \A n \in 1..(Len(run[r].dirs) - 1) : run'[r].dirs[n] = run[r].dirs[n]
              /\ Target(r) = run[r].dirs[Len(run[r].dirs)]
  <1>1. PICK old \in RunRecord : old = run[r]
    BY DEF ScaffoldTypes
  <1>2. old.files \in Seq(File) /\ old.dirs \in Seq(Dir) /\ old.unremoved \subseteq Path
    BY DEF RunRecord
  <1>3. Target(r) \in Path
    BY TargetIsAPath
  <1>4. Len(old.files) \in Nat /\ Len(old.dirs) \in Nat
    BY <1>2
  <1>5. old.files # <<>> =>
          /\ Last(old.files) = old.files[Len(old.files)]
          /\ Front(old.files) \in Seq(File) /\ Len(Front(old.files)) = Len(old.files) - 1
          /\ \A n \in 1..(Len(old.files) - 1) : Front(old.files)[n] = old.files[n]
    <2> SUFFICES ASSUME old.files # <<>>
                 PROVE  /\ Last(old.files) = old.files[Len(old.files)]
                        /\ Front(old.files) \in Seq(File)
                        /\ Len(Front(old.files)) = Len(old.files) - 1
                        /\ \A n \in 1..(Len(old.files) - 1) : Front(old.files)[n] = old.files[n]
      OBVIOUS
    <2> HIDE ConstantsAreTyped
    <2> QED
      BY <1>2, LastIsTaken
  <1>6. old.dirs # <<>> =>
          /\ Last(old.dirs) = old.dirs[Len(old.dirs)] /\ Len(old.dirs) >= 1
          /\ Front(old.dirs) \in Seq(Dir) /\ Len(Front(old.dirs)) = Len(old.dirs) - 1
          /\ \A n \in 1..(Len(old.dirs) - 1) : Front(old.dirs)[n] = old.dirs[n]
    <2> SUFFICES ASSUME old.dirs # <<>>
                 PROVE  /\ Last(old.dirs) = old.dirs[Len(old.dirs)] /\ Len(old.dirs) >= 1
                        /\ Front(old.dirs) \in Seq(Dir)
                        /\ Len(Front(old.dirs)) = Len(old.dirs) - 1
                        /\ \A n \in 1..(Len(old.dirs) - 1) : Front(old.dirs)[n] = old.dirs[n]
      OBVIOUS
    <2> HIDE ConstantsAreTyped
    <2> QED
      BY <1>2, LastIsTaken
  <1>7. PICK files \in Seq(File) : files = IF old.files # <<>> THEN Front(old.files) ELSE old.files
    BY <1>2, <1>5
  <1>8. PICK dirs \in Seq(Dir) : dirs = IF old.files = <<>> THEN Front(old.dirs) ELSE old.dirs
    BY <1>1, <1>2, <1>6
  <1>9. PICK unremoved \in SUBSET Path : unremoved = old.unremoved \cup more
    BY <1>2, <1>3 DEF Drops
  <1>u. User \in Run \cup {User}
    OBVIOUS
  <1>10. PICK record \in RunRecord :
           record = [old EXCEPT !.phase = "rollback", !.found = User,
                                !.files = files, !.dirs = dirs, !.unremoved = unremoved]
    BY <1>u DEF RunRecord
  <1>11. /\ record.phase = "rollback" /\ record.status = old.status
         /\ record.next = old.next /\ record.depth = old.depth
         /\ record.files = files /\ record.dirs = dirs /\ record.unremoved = unremoved
    BY <1>10 DEF RunRecord
  <1>12. Dropped(r) = [old EXCEPT !.phase = "rollback", !.found = User,
                                  !.files = files, !.dirs = dirs]
    BY <1>1, <1>7, <1>8 DEF Dropped
  <1>13. Becomes(r, record)
    <2>1. CASE more = {} /\ Becomes(r, Dropped(r))
      <3>1. unremoved = old.unremoved
        BY <1>9, <2>1
      <3>2. record = Dropped(r)
        <4>1. record = [[old EXCEPT !.phase = "rollback", !.found = User,
                                    !.files = files, !.dirs = dirs]
                          EXCEPT !.unremoved = old.unremoved]
          BY <1>10, <3>1 DEF RunRecord
        <4>2. PICK other \in RunRecord :
                other = [old EXCEPT !.phase = "rollback", !.found = User,
                                    !.files = files, !.dirs = dirs]
          BY <1>u DEF RunRecord
        <4>3. other.unremoved = old.unremoved
          BY <4>2 DEF RunRecord
        <4>4. [other EXCEPT !.unremoved = other.unremoved] = other
          BY DEF RunRecord
        <4> QED
          BY <1>12, <4>1, <4>2, <4>3, <4>4
      <3> QED
        BY <2>1, <3>2
    <2>2. CASE /\ more = {Target(r)}
               /\ Becomes(r, [Dropped(r) EXCEPT !.unremoved = @ \cup {Target(r)}])
      <3>1. record = [Dropped(r) EXCEPT !.unremoved = @ \cup {Target(r)}]
        BY <1>9, <1>10, <1>12, <2>2 DEF RunRecord
      <3> QED
        BY <2>2, <3>1
    <2> QED
      BY <2>1, <2>2 DEF Drops
  <1>14. /\ run' \in [Run -> RunRecord]
         /\ \A s \in Run : s # r => run'[s] = run[s]
         /\ run'[r] = record
    BY <1>13, OneRecordChanges
  <1>15. run[r].files # <<>> =>
           /\ run'[r].dirs = run[r].dirs
           /\ Len(run'[r].files) = Len(run[r].files) - 1
           /\ \A n \in 1..(Len(run[r].files) - 1) : run'[r].files[n] = run[r].files[n]
           /\ Target(r) = run[r].files[Len(run[r].files)]
    BY <1>1, <1>5, <1>7, <1>8, <1>11, <1>14 DEF Target
  <1>16. run[r].files = <<>> =>
           /\ run'[r].files = <<>>
           /\ Len(run[r].dirs) >= 1
           /\ Len(run'[r].dirs) = Len(run[r].dirs) - 1
           /\ \A n \in 1..(Len(run[r].dirs) - 1) : run'[r].dirs[n] = run[r].dirs[n]
           /\ Target(r) = run[r].dirs[Len(run[r].dirs)]
    BY <1>1, <1>6, <1>7, <1>8, <1>11, <1>14 DEF Target
  <1> QED
    BY <1>1, <1>4, <1>9, <1>11, <1>14, <1>15, <1>16

(* The steps of a run that gives up.  What it takes from others they have  *)
(* only found, not created, or the user has touched it.                    *)
LEMMA RollBackStep ==
  ASSUME ScaffoldInvariant, NEW r \in Run, touched' = touched,
         run[r].phase \in {"rollback", "remove"},
         run' \in [Run -> RunRecord],
         \A s \in Run : s # r => run'[s] = run[s],
         run'[r].phase \in {"rollback", "remove", "failed"},
         run'[r].status = run[r].status, run'[r].next = run[r].next,
         tree' \in [Path -> Node],
         \A p \in Path : \/ tree'[p] = tree[p]
                         \/ tree'[p] = Absent /\ (tree[p].by = r \/ p \in touched),
         Listed(r)', Looked(r)'
  PROVE  ScaffoldInvariant'
  <1>1. ScaffoldTypes /\ Progress(r) /\ Listed(r)
    BY DEF ScaffoldInvariant
  <1>2. Absent.kind = "absent"
    BY DEF Absent
  <1>3. ScaffoldTypes'
    BY <1>1, <1>2 DEF ScaffoldTypes, Path
  <1>4. \A f \in File : tree'[f].kind = "file" => tree'[f] = tree[f]
    BY <1>2 DEF Path
  <1>5. \A f \in File : InPlace(f) => InPlace(f)' \/ (tree[f].kind = "file" /\ tree[f].by = r)
                                                  \/ f \in touched
    BY DEF InPlace, Path
  <1>6. \A s \in Run : /\ run'[s].status = run[s].status
                       /\ GivesUp(s) => GivesUp(s)'
    BY DEF GivesUp
  <1>7. GivesUp(r)'
    BY DEF GivesUp
  <1>8. ASSUME NEW s \in Run PROVE Found(s)'
    <2> SUFFICES ASSUME NEW f \in File, run'[s].status[f] = "unchanged"
                 PROVE  \/ InPlace(f)' \/ f \in touched'
                        \/ \E q \in Run \ {s} : GivesUp(q)' /\ run'[q].status[f] = "create"
      BY DEF Found
    <2>0. Found(s) /\ run[s].status[f] = "unchanged"
      BY <1>6 DEF ScaffoldInvariant
    <2>1. \/ InPlace(f) \/ f \in touched
          \/ \E q \in Run \ {s} : GivesUp(q) /\ run[q].status[f] = "create"
      BY <2>0 DEF Found
    <2>2. CASE InPlace(f)
      <3>1. CASE tree[f].kind = "file" /\ tree[f].by = r
        <4>1. run[r].status[f] = "create"
          BY <1>1, <3>1 DEF Listed
        <4>2. s # r
          BY <1>6, <4>1
        <4> QED
          BY <1>6, <1>7, <4>1, <4>2
      <3> QED
        BY <1>5, <2>2, <3>1
    <2>3. CASE f \in touched
      BY <2>3
    <2>4. CASE \E q \in Run \ {s} : GivesUp(q) /\ run[q].status[f] = "create"
      BY <1>6, <2>4
    <2> QED
      BY <2>1, <2>2, <2>3, <2>4
  <1>9. Progress(r)' /\ Created(r)'
    BY <1>1 DEF Progress, Created
  <1>10. ASSUME NEW s \in Run, s # r
         PROVE  Progress(s)' /\ Listed(s)' /\ Looked(s)' /\ Created(s)'
    <2>0. Progress(s) /\ Listed(s) /\ Looked(s) /\ Created(s) /\ run'[s] = run[s]
      BY <1>10 DEF ScaffoldInvariant
    <2>1. Progress(s)'
      BY <2>0 DEF Progress
    <2>2. Listed(s)'
      BY <1>4, <2>0, ListedStays
    <2>3. Looked(s)'
      <3>1. \A p \in Path : tree[p].by = s => tree'[p].by = s \/ p \in touched'
        BY <1>10
      <3> QED
        BY <1>1, <2>0, <3>1, LookedStays
    <2>4. Created(s)'
      <3> SUFFICES ASSUME NEW n \in 1..Len(Files[s]), n < run[s].next,
                          run[s].phase \in {"enter", "make", "done"},
                          run[s].status[Files[s][n]] = "create"
                   PROVE  \/ Files[s][n] \in touched
                          \/ InPlace(Files[s][n])' /\ tree'[Files[s][n]].by = s
        BY <2>0 DEF Created
      <3>1. \/ Files[s][n] \in touched
            \/ InPlace(Files[s][n]) /\ tree[Files[s][n]].by = s
        BY <2>0 DEF Created
      <3>2. Files[s][n] \in Path
        BY FilesAreFiles DEF Path
      <3>3. InPlace(Files[s][n]) /\ tree[Files[s][n]].by = s
              => tree'[Files[s][n]] = tree[Files[s][n]] \/ Files[s][n] \in touched
        BY <1>10, <3>2
      <3> QED
        BY <3>1, <3>3 DEF InPlace
    <2> QED
      BY <2>1, <2>2, <2>3, <2>4
  <1> QED
    BY <1>3, <1>8, <1>9, <1>10 DEF ScaffoldInvariant

(* A file that is still there is on the list without its last path, or is  *)
(* one that could not be removed.                                          *)
LEMMA ListedWithout ==
  ASSUME ScaffoldInvariant, NEW r \in Run, run[r].phase \in {"rollback", "remove"},
         run[r].files # <<>> \/ run[r].dirs # <<>>,
         NEW more, Drops(r, more),
         \A f \in File : tree'[f].kind = "file" => tree'[f] = tree[f],
         \/ more = {Target(r)}
         \/ Target(r) \in File => ~(tree'[Target(r)].kind = "file" /\ tree'[Target(r)].by = r)
  PROVE  Listed(r)'
  <1>1. ScaffoldTypes /\ Listed(r)
    BY DEF ScaffoldInvariant
  <1>2. /\ run'[r].phase = "rollback" /\ run'[r].status = run[r].status
        /\ run'[r].unremoved = run[r].unremoved \cup more
        /\ run[r].files # <<>> =>
             /\ Len(run[r].files) \in Nat
             /\ Len(run'[r].files) = Len(run[r].files) - 1
             /\ \A n \in 1..(Len(run[r].files) - 1) : run'[r].files[n] = run[r].files[n]
             /\ Target(r) = run[r].files[Len(run[r].files)]
    BY <1>1, Dropping
  <1>3. run'[r].phase = "rollback" /\ run'[r].status = run[r].status
    BY <1>2
  <1>4. ASSUME NEW f \in File, tree'[f].kind = "file", tree'[f].by = r
        PROVE  run[r].status[f] = "create" /\ tree[f].kind = "file" /\ tree[f].by = r
    <2>1. tree[f].kind = "file" /\ tree[f].by = r
      BY <1>4
    <2> QED
      BY <1>1, <2>1 DEF Listed
  <1>5. ASSUME NEW f \in File, tree'[f].kind = "file", tree'[f].by = r,
               f \notin run'[r].unremoved
        PROVE  \E n \in 1..Len(run'[r].files) : run'[r].files[n] = f
    <2>1. PICK n \in 1..Len(run[r].files) : run[r].files[n] = f
      BY <1>1, <1>2, <1>4, <1>5 DEF Listed, OnFileList
    <2>2. f # Target(r)
      BY <1>2, <1>5
    <2>3. run[r].files # <<>>
      <3>1. Len(<<>>) = 0
        OBVIOUS
      <3> QED
        BY <2>1, <3>1
    <2>4. n # Len(run[r].files)
      BY <1>2, <2>1, <2>2, <2>3
    <2>5. /\ Len(run[r].files) \in Nat
          /\ Len(run'[r].files) = Len(run[r].files) - 1
          /\ \A m \in 1..(Len(run[r].files) - 1) : run'[r].files[m] = run[r].files[m]
      BY <1>2, <2>3
    <2>6. n \in 1..(Len(run[r].files) - 1)
      BY <2>1, <2>4, <2>5
    <2>7. n \in 1..Len(run'[r].files) /\ run'[r].files[n] = f
      BY <2>1, <2>5, <2>6
    <2> QED
      BY <2>7
  <1> QED
    BY <1>3, <1>4, <1>5 DEF Listed, OnFileList

(* A run looks at what it removes next: at its own, or at what is no       *)
(* longer its own.                                                         *)
LEMMA LookStep ==
  ASSUME ScaffoldInvariant, NEW r \in Run, LookAtTarget(r)
  PROVE  ScaffoldInvariant'
  <1>1. /\ ScaffoldTypes /\ Listed(r) /\ tree \in [Path -> Node]
        /\ run[r].phase = "rollback" /\ tree' = tree /\ touched' = touched
        /\ run[r].files # <<>> \/ run[r].dirs # <<>>
    BY DEF ScaffoldInvariant, ScaffoldTypes, LookAtTarget
  <1>2. PICK old \in RunRecord : old = run[r]
    BY <1>1 DEF ScaffoldTypes
  <1>3. CASE /\ SameFile(r, Target(r))
             /\ Becomes(r, [run[r] EXCEPT !.phase = "remove", !.found = tree[Target(r)].by])
    <2>1. tree[Target(r)].by = r /\ r \in Run \cup {User}
      BY <1>3 DEF SameFile
    <2>2. PICK record \in RunRecord : record = [old EXCEPT !.phase = "remove", !.found = r]
      BY <2>1 DEF RunRecord
    <2>3. /\ record.phase = "remove" /\ record.status = old.status /\ record.next = old.next
          /\ record.files = old.files /\ record.dirs = old.dirs
          /\ record.found = r /\ record.unremoved = old.unremoved
      BY <2>2 DEF RunRecord
    <2>4. Becomes(r, record)
      BY <1>2, <1>3, <2>1, <2>2
    <2>5. /\ run' \in [Run -> RunRecord]
          /\ \A s \in Run : s # r => run'[s] = run[s]
          /\ run'[r] = record
      BY <1>1, <2>4, OneRecordChanges
    <2>6. Listed(r)'
      BY <1>1, <1>2, <2>3, <2>5, ListedStays
    <2>7. Target(r)' = Target(r)
      BY <1>2, <2>3, <2>5 DEF Target
    <2>8. Looked(r)'
      BY <1>1, <1>2, <2>1, <2>3, <2>5, <2>7 DEF Looked
    <2> QED
      BY <1>1, <1>2, <2>3, <2>5, <2>6, <2>8, RollBackStep
  <1>4. ASSUME NEW more, Drops(r, more),
               more = {Target(r)} \/ ~SameFile(r, Target(r))
        PROVE  ScaffoldInvariant'
    <2>1. Target(r) \in File => \/ more = {Target(r)}
                                \/ ~(tree[Target(r)].kind = "file" /\ tree[Target(r)].by = r)
      BY <1>4 DEF SameFile, Absent
    <2>2. Listed(r)'
      BY <1>1, <1>4, <2>1, ListedWithout
    <2>3. /\ run' \in [Run -> RunRecord]
          /\ \A s \in Run : s # r => run'[s] = run[s]
          /\ run'[r].phase = "rollback"
          /\ run'[r].status = run[r].status /\ run'[r].next = run[r].next
      BY <1>1, <1>4, Dropping
    <2>4. Looked(r)'
      BY <2>3 DEF Looked
    <2> QED
      BY <1>1, <2>2, <2>3, <2>4, RollBackStep
  <1> QED
    BY <1>3, <1>4 DEF LookAtTarget, NotRemoved, Drops

(* What a removal changes. *)
LEMMA RemovedIs ==
  ASSUME tree \in [Path -> Node], NEW p \in Path, tree' = Removed(p)
  PROVE  /\ tree' \in [Path -> Node]
         /\ \A q \in Path : tree'[q] = tree[q] \/ (q = p /\ tree'[q] = Absent)
         /\ IsDir(p) /\ ~IsEmpty(p) => tree' = tree
         /\ IsDir(p) => ~IsEmpty(p) \/ tree'[p] = Absent
         /\ ~IsDir(p) => tree'[p] = Absent
  <1>1. Absent \in Node
    BY DEF Node
  <1>2. CASE IsDir(p) /\ ~IsEmpty(p)
    BY <1>2 DEF Removed
  <1>3. CASE ~(IsDir(p) /\ ~IsEmpty(p))
    <2>1. tree' = [tree EXCEPT ![p] = Absent]
      BY <1>3 DEF Removed
    <2> QED
      BY <1>1, <1>3, <2>1
  <1> QED
    BY <1>2, <1>3

(* It removes what is there, or cannot. *)
LEMMA RemoveStep ==
  ASSUME ScaffoldInvariant, NEW r \in Run, RemoveTarget(r)
  PROVE  ScaffoldInvariant'
  <1>1. /\ ScaffoldTypes /\ Listed(r) /\ Looked(r) /\ tree \in [Path -> Node]
        /\ run[r].phase = "remove" /\ touched' = touched
        /\ run[r].files # <<>> \/ run[r].dirs # <<>>
        /\ tree[Target(r)].by = r \/ Target(r) \in touched
    BY DEF ScaffoldInvariant, ScaffoldTypes, RemoveTarget, Looked
  <1>2. Target(r) \in Path
    BY <1>1, TargetIsAPath
  <1>3. ASSUME NEW more, Drops(r, more), tree' \in [Path -> Node],
               \A q \in Path : tree'[q] = tree[q] \/ (q = Target(r) /\ tree'[q] = Absent),
               more = {Target(r)} \/ (Target(r) \in File => tree'[Target(r)] = Absent)
        PROVE  ScaffoldInvariant'
    <2>1. Absent.kind = "absent"
      BY DEF Absent
    <2>2. \A f \in File : tree'[f].kind = "file" => tree'[f] = tree[f]
      BY <1>3, <2>1 DEF Path
    <2>3. Listed(r)'
      BY <1>1, <1>3, <2>1, <2>2, ListedWithout
    <2>4. /\ run' \in [Run -> RunRecord]
          /\ \A s \in Run : s # r => run'[s] = run[s]
          /\ run'[r].phase = "rollback"
          /\ run'[r].status = run[r].status /\ run'[r].next = run[r].next
      BY <1>1, <1>3, Dropping
    <2>5. Looked(r)'
      BY <2>4 DEF Looked
    <2>6. \A p \in Path : \/ tree'[p] = tree[p]
                          \/ tree'[p] = Absent /\ (tree[p].by = r \/ p \in touched)
      BY <1>1, <1>3
    <2> QED
      BY <1>1, <1>3, <2>3, <2>4, <2>5, <2>6, RollBackStep
  <1>4. CASE tree' = Removed(Target(r)) /\ Becomes(r, Dropped(r))
    <2>1. Target(r) \in File => ~IsDir(Target(r))
      BY <1>1 DEF ScaffoldTypes, IsDir
    <2>2. /\ tree' \in [Path -> Node]
          /\ \A q \in Path : tree'[q] = tree[q] \/ (q = Target(r) /\ tree'[q] = Absent)
          /\ Target(r) \in File => tree'[Target(r)] = Absent
      BY <1>1, <1>2, <1>4, <2>1, RemovedIs
    <2> QED
      BY <1>3, <1>4, <2>2 DEF Drops
  <1>5. CASE NotRemoved(r) /\ tree' = tree
    BY <1>1, <1>3, <1>5 DEF NotRemoved, Drops
  <1> QED
    BY <1>4, <1>5 DEF RemoveTarget

(* With both lists gone through, the run has failed. *)
LEMMA RollBackEndsStep ==
  ASSUME ScaffoldInvariant, NEW r \in Run, RollBackEnds(r)
  PROVE  ScaffoldInvariant'
  <1>1. /\ ScaffoldTypes /\ Listed(r) /\ tree \in [Path -> Node]
        /\ run[r].phase = "rollback" /\ tree' = tree /\ touched' = touched
        /\ run[r].files = <<>> /\ Moves(r, "failed")
    BY DEF ScaffoldInvariant, ScaffoldTypes, RollBackEnds
  <1>2. /\ run' \in [Run -> RunRecord]
        /\ \A s \in Run : s # r => run'[s] = run[s]
        /\ run'[r].phase = "failed"
        /\ run'[r].status = run[r].status /\ run'[r].next = run[r].next
        /\ run'[r].unremoved = run[r].unremoved
    BY <1>1, OnlyThePhaseChanges
  <1>3. Len(run[r].files) = 0
    BY <1>1
  <1>4. Listed(r)'
    BY <1>1, <1>2, <1>3 DEF Listed, OnFileList
  <1>5. Looked(r)'
    BY <1>2 DEF Looked
  <1> QED
    BY <1>1, <1>2, <1>4, <1>5, RollBackStep

(* The user changes one file, and it counts as touched. *)
LEMMA UserStep ==
  ASSUME ScaffoldInvariant, UserSteps
  PROVE  ScaffoldInvariant'
  <1>1. PICK f \in File, node \in Node :
          /\ tree' = [tree EXCEPT ![f] = node] /\ touched' = touched \cup {f} /\ run' = run
          /\ node.kind # "dir"
          /\ \/ node.by = User
             \/ tree[f].kind = "file" /\ node.kind = "file" /\ node.by = tree[f].by
    <2>1. PICK f \in File : \/ UserRemoves(f)
                            \/ \E bytes \in {"template", "other"} :
                                  UserWrites(f, bytes) \/ UserEdits(f, bytes)
      BY DEF UserSteps
    <2>2. User \in Run \cup {User}
      OBVIOUS
    <2>3. CASE UserRemoves(f)
      <3>1. Absent \in Node
        BY <2>2, NodesOf
      <3>2. Absent.kind # "dir" /\ Absent.by = User
        BY DEF Absent
      <3> QED
        BY <2>3, <3>1, <3>2 DEF UserRemoves
    <2>4. CASE \E bytes \in {"template", "other"} : UserWrites(f, bytes)
      <3>1. PICK bytes \in {"template", "other"} : UserWrites(f, bytes)
        BY <2>4
      <3>2. FileBy(User, bytes) \in Node
        BY <2>2, NodesOf
      <3>3. FileBy(User, bytes).kind # "dir" /\ FileBy(User, bytes).by = User
        BY DEF FileBy
      <3> QED
        BY <3>1, <3>2, <3>3 DEF UserWrites
    <2>5. CASE \E bytes \in {"template", "other"} : UserEdits(f, bytes)
      <3>1. PICK bytes \in {"template", "other"} : UserEdits(f, bytes)
        BY <2>5
      <3>2. tree[f].kind = "file" /\ tree[f] \in Node
        BY <3>1 DEF UserEdits, ScaffoldInvariant, ScaffoldTypes, Path
      <3>3. PICK who \in Run \cup {User}, former \in {"template", "other"} :
              tree[f] = FileBy(who, former)
        BY <3>2 DEF Node, Absent, DirBy
      <3>4. [tree[f] EXCEPT !.bytes = bytes] = FileBy(who, bytes)
        BY <3>3 DEF FileBy
      <3>5. tree' = [tree EXCEPT ![f] = FileBy(who, bytes)]
        BY <3>1, <3>4 DEF UserEdits
      <3>6. FileBy(who, bytes) \in Node
        BY NodesOf
      <3>7. /\ FileBy(who, bytes).kind = "file" /\ FileBy(who, bytes).by = who
            /\ tree[f].by = who
        BY <3>3 DEF FileBy
      <3> QED
        BY <3>1, <3>2, <3>5, <3>6, <3>7 DEF UserEdits
    <2> QED
      BY <2>1, <2>3, <2>4, <2>5
  <1>2. ScaffoldTypes
    BY DEF ScaffoldInvariant
  <1>3. /\ tree' \in [Path -> Node]
        /\ tree'[f] = node
        /\ \A g \in File : g # f => tree'[g] = tree[g]
    <2>1. \A g \in File : g \in Path
      BY DEF Path
    <2> QED
      BY <1>1, <1>2, <2>1, OneNodeChanges DEF ScaffoldTypes
  <1>4. ScaffoldTypes'
    BY <1>1, <1>2, <1>3 DEF ScaffoldTypes
  <1>5. \A g \in File : g # f /\ InPlace(g) => InPlace(g)'
    BY <1>3 DEF InPlace
  <1>6. ASSUME NEW r \in Run PROVE Progress(r)' /\ Listed(r)' /\ Looked(r)' /\ Found(r)' /\ Created(r)'
    <2>0. Progress(r) /\ Listed(r) /\ Looked(r) /\ Found(r) /\ Created(r) /\ r # User
      BY DEF ScaffoldInvariant
    <2>1. Progress(r)'
      BY <1>1, <2>0 DEF Progress
    <2>2. Listed(r)'
      <3>1. \A g \in File : tree'[g].kind = "file" /\ tree'[g].by = r =>
               tree[g].kind = "file" /\ tree[g].by = r
        BY <1>1, <1>3, <2>0
      <3> QED
        BY <1>1, <2>0, <3>1, ListedStays
    <2>l. Looked(r)'
      <3>1. \A p \in Path : p # f => tree'[p] = tree[p]
        BY <1>1, <1>2 DEF ScaffoldTypes
      <3>2. touched \subseteq touched' /\ f \in touched' /\ run'[r] = run[r]
        BY <1>1
      <3>3. \A p \in Path : tree[p].by = r => tree'[p].by = r \/ p \in touched'
        BY <3>1, <3>2
      <3> QED
        BY <1>2, <2>0, <3>2, <3>3, LookedStays
    <2>3. Found(r)'
      <3> SUFFICES ASSUME NEW g \in File, run[r].status[g] = "unchanged"
                   PROVE  \/ InPlace(g)' \/ g \in touched'
                          \/ \E q \in Run \ {r} : GivesUp(q)' /\ run[q].status[g] = "create"
        BY <1>1 DEF Found
      <3>1. \A q \in Run : GivesUp(q) => GivesUp(q)'
        BY <1>1 DEF GivesUp
      <3> QED
        BY <1>1, <1>5, <2>0, <3>1 DEF Found
    <2>4. Created(r)'
      <3> SUFFICES ASSUME NEW n \in 1..Len(Files[r]), n < run[r].next,
                          run[r].phase \in {"enter", "make", "done"},
                          run[r].status[Files[r][n]] = "create"
                   PROVE  \/ Files[r][n] \in touched'
                          \/ InPlace(Files[r][n])' /\ tree'[Files[r][n]].by = r
        BY <1>1 DEF Created
      <3>1. \/ Files[r][n] \in touched
            \/ InPlace(Files[r][n]) /\ tree[Files[r][n]].by = r
        BY <2>0 DEF Created
      <3>2. Files[r][n] \in File
        BY FilesAreFiles
      <3> QED
        BY <1>1, <1>3, <1>5, <3>1, <3>2
    <2> QED
      BY <2>1, <2>2, <2>l, <2>3, <2>4
  <1> QED
    BY <1>4, <1>6 DEF ScaffoldInvariant

(* At first everything is the user's, and no run has begun. *)
LEMMA ScaffoldInit ==
  ASSUME Init
  PROVE  ScaffoldInvariant
  <1>1. /\ tree \in [Path -> {Absent, DirBy(User),
                                       FileBy(User, "template"),
                                       FileBy(User, "other")}]
        /\ \A f \in File : tree[f].kind # "dir"
        /\ run = [r \in Run |-> NewRun]
    BY DEF Init, InitialTree
  <1>2. tree \in [Path -> Node]
    <2>1. User \in Run \cup {User}
      OBVIOUS
    <2>2. /\ Absent \in Node /\ DirBy(User) \in Node
          /\ FileBy(User, "template") \in Node
          /\ FileBy(User, "other") \in Node
      BY <2>1, NodesOf
    <2> QED
      BY <1>1, <2>2
  <1>3. \A p \in Path : tree[p].by = User
    BY <1>1 DEF Absent, DirBy, FileBy
  <1>4. NewRun \in RunRecord
    <2>1. PICK zero \in Nat : zero = 0
      OBVIOUS
    <2>2. PICK one \in Nat : one = 1
      OBVIOUS
    <2>3. User \in Run \cup {User} /\ {} \in SUBSET Path
      OBVIOUS
    <2> QED
      BY <2>1, <2>2, <2>3 DEF NewRun, RunRecord
  <1>5. /\ NewRun.phase = "plan" /\ NewRun.next = 1
        /\ \A f \in File : NewRun.status[f] = "unknown"
    BY DEF NewRun
  <1>6. ScaffoldTypes
    BY <1>1, <1>2, <1>4 DEF ScaffoldTypes
  <1>7. ASSUME NEW r \in Run PROVE Progress(r) /\ Listed(r) /\ Looked(r) /\ Found(r) /\ Created(r)
    <2>0. run[r] = NewRun /\ r # User
      BY <1>1 
    <2>1. Progress(r)
      BY <1>5, <2>0 DEF Progress
    <2>2. Listed(r)
      BY <1>3, <2>0 DEF Listed, Path
    <2>l. Looked(r)
      BY <1>5, <2>0 DEF Looked
    <2>3. Found(r)
      BY <1>5, <2>0 DEF Found
    <2>4. Created(r)
      BY <1>5, <2>0 DEF Created
    <2> QED
      BY <2>1, <2>2, <2>l, <2>3, <2>4
  <1> QED
    BY <1>6, <1>7 DEF ScaffoldInvariant

(* Every step of the specification preserves the invariant. *)
LEMMA ScaffoldStep ==
  ASSUME ScaffoldInvariant, [Next]_vars
  PROVE  ScaffoldInvariant'
  <1>1. CASE UserSteps
    BY <1>1, UserStep
  <1>2. CASE \E r \in Run : RunSteps(r)
    <2>1. PICK r \in Run : RunSteps(r)
      BY <1>2
    <2>2. CASE \E dryRun \in BOOLEAN : Plan(r, dryRun)
      BY <2>2, PlanStep
    <2>3. CASE Compare(r) \/ Stage(r)
      BY <2>3, CompareStep, StageStep
    <2>4. CASE SkipUnchanged(r) \/ EnterDirectory(r)
      BY <2>4, SkipStep, EnterStep
    <2>5. CASE MakeDirectory(r) \/ Link(r)
      BY <2>5, MakeStep, LinkStep
    <2>6. CASE Commit(r) \/ CallFails(r) \/ Kill(r)
      BY <2>6, OtherSteps
    <2>7. CASE LookAtTarget(r) \/ RemoveTarget(r) \/ RollBackEnds(r)
      BY <2>7, LookStep, RemoveStep, RollBackEndsStep
    <2> QED
      BY <2>1, <2>2, <2>3, <2>4, <2>5, <2>6, <2>7 DEF RunSteps
  <1>3. CASE UNCHANGED vars
    <2> USE <1>3 DEF vars
    <2>1. ScaffoldTypes'
      BY DEF ScaffoldInvariant, ScaffoldTypes
    <2>2. ASSUME NEW r \in Run
          PROVE  Progress(r)' /\ Listed(r)' /\ Looked(r)' /\ Found(r)' /\ Created(r)'
      <3>0. Progress(r) /\ Listed(r) /\ Looked(r) /\ Found(r) /\ Created(r)
        BY DEF ScaffoldInvariant
      <3>1. Progress(r)' /\ Listed(r)'
        BY <3>0, ListedStays DEF Progress
      <3>l. Looked(r)'
        BY <3>0 DEF Looked, Target
      <3>2. Found(r)'
        BY <3>0 DEF Found, InPlace, GivesUp
      <3>3. Created(r)'
        BY <3>0 DEF Created, InPlace
      <3> QED
        BY <3>1, <3>l, <3>2, <3>3
    <2> QED
      BY <2>1, <2>2 DEF ScaffoldInvariant
  <1> QED
    BY <1>1, <1>2, <1>3 DEF Next

(* The inductive invariant holds in every reachable state. *)
LEMMA ScaffoldInvariantHolds == Spec => []ScaffoldInvariant
  <1>1. Init => ScaffoldInvariant
    BY ScaffoldInit
  <1>2. ScaffoldInvariant /\ [Next]_vars => ScaffoldInvariant'
    BY ScaffoldStep
  <1> QED
    BY <1>1, <1>2, PTL DEF Spec

--------------------------------------------------------------------------------
(* The directories of the scaffold. *)

(* The directories above a path, and those of a run. *)
Above(p) == ToSet(Ancestors[p])

Writes(r) ==
    run[r].phase \in {"enter", "make", "rollback", "remove", "done", "failed", "killed"}

MadeBy(d, r) == tree[d] = DirBy(r)

OnItsList(d, r) == \E n \in 1..Len(run[r].dirs) : run[r].dirs[n] = d

(* What exists lies in directories, what a run has put at the path of a    *)
(* directory is one, and what the user has below it is touched.            *)
TreeShape ==
    /\ touched \subseteq File
    /\ \A p \in Path : tree[p] # Absent => \A d \in Above(p) : IsDir(d)
    /\ \A d \in Dir : tree[d].by # User => MadeBy(d, tree[d].by)
    /\ \A p \in Path : tree[p] # Absent /\ tree[p].by = User =>
          p \in touched \/ \A d \in Above(p) : tree[d].by = User

(* How far the record of a run goes. *)
Bounds(r) ==
    /\ run[r].next <= Len(Files[r]) + 1
    /\ \A n \in 1..Len(run[r].files) : run[r].files[n] \in ToSet(Files[r])
    /\ run[r].phase = "make" => run[r].status[Current(r)] = "create"

(* The list of directories names each below those above it, and, until the *)
(* run gives up, only what is there.                                       *)
DirsInOrder(r) ==
    /\ \A m, n \in 1..Len(run[r].dirs) : m < n => run[r].dirs[n] \notin Above(run[r].dirs[m])
    /\ run[r].phase \in {"plan", "compare", "failed"} => run[r].dirs = <<>>
    /\ run[r].phase \in {"enter", "make"} =>
          \A n \in 1..Len(run[r].dirs) : MadeBy(run[r].dirs[n], r)

(* It, or one below it, could not be opened after it had been made, or     *)
(* something in it could not be removed.                                   *)
Excused(d, r) ==
    \E c \in Path :
        /\ (NotEntered(c, r) /\ ~OnItsList(c, r)) \/ c \in run[r].unremoved
        /\ d = c \/ d \in Above(c)

(* A directory that a run has made lies on the way to a file it was to     *)
(* create.  It is on the list until the run has gone through that.         *)
DirsAccounted(r) ==
    \A d \in Dir : MadeBy(d, r) =>
        /\ Writes(r)
        /\ \E f \in File : run[r].status[f] = "create" /\ d \in Above(f)
        /\ run[r].phase \in {"enter", "make"} => OnItsList(d, r)
        /\ run[r].phase \in {"rollback", "remove", "failed"} =>
              OnItsList(d, r) \/ CameToUse(d, r) \/ Excused(d, r)

DirsInvariant ==
    /\ TreeShape
    /\ \A r \in Run : Bounds(r) /\ DirsInOrder(r) /\ DirsAccounted(r)

(* A path that is above another is above all that is below that one, and   *)
(* not above itself.                                                       *)
LEMMA AboveIsAChain ==
  ASSUME NEW p \in Path, NEW d \in Above(p)
  PROVE  /\ d \in Dir /\ d \in Path
         /\ Above(d) \subseteq Above(p)
         /\ d \notin Above(d)
         /\ \E q \in Path : /\ q = p \/ q \in Above(p)
                            /\ Ancestors[q] # <<>> /\ Last(Ancestors[q]) = d
  <1>1. Ancestors[p] \in Seq(Dir)
    OBVIOUS
  <1>2. PICK n \in 1..Len(Ancestors[p]) : d = Ancestors[p][n]
    BY DEF Above, ToSet
  <1>0. \A q \in Path : \A m \in 1..Len(Ancestors[q]) :
          Ancestors[Ancestors[q][m]] = SubSeq(Ancestors[q], 1, m - 1)
    BY ScaffoldAssumption
  <1>3. d \in Dir /\ d \in Path
    BY <1>1, <1>2 DEF Path
  <1>4. /\ Ancestors[d] = SubSeq(Ancestors[p], 1, n - 1)
        /\ Ancestors[d] \in Seq(Dir) /\ Len(Ancestors[d]) = n - 1
        /\ \A m \in 1..(n - 1) : Ancestors[d][m] = Ancestors[p][m]
    <2>1. Ancestors[d] = SubSeq(Ancestors[p], 1, n - 1)
      BY <1>2, <1>0
    <2> QED
      BY <1>1, <1>3, <2>1
  <1>5. Above(d) \subseteq Above(p)
    <2> SUFFICES ASSUME NEW a \in Above(d) PROVE a \in Above(p)
      OBVIOUS
    <2>1. PICK m \in 1..Len(Ancestors[d]) : a = Ancestors[d][m]
      BY <1>4 DEF Above, ToSet
    <2>2. m \in 1..Len(Ancestors[p]) /\ a = Ancestors[p][m]
      BY <1>1, <1>2, <1>4, <2>1
    <2> QED
      BY <2>2 DEF Above, ToSet
  <1>6. d \notin Above(d)
    <2> SUFFICES ASSUME d \in Above(d) PROVE FALSE
      OBVIOUS
    <2>1. PICK m \in 1..Len(Ancestors[d]) : d = Ancestors[d][m]
      BY <1>4 DEF Above, ToSet
    <2>2. Ancestors[d] = SubSeq(Ancestors[d], 1, m - 1)
      BY <1>3, <1>0, <2>1
    <2>3. Len(Ancestors[d]) = m - 1
      BY <1>4, <2>1, <2>2
    <2> QED
      BY <1>4, <2>1, <2>3
  <1>7. \E q \in Path : /\ q = p \/ q \in Above(p)
                        /\ Ancestors[q] # <<>> /\ Last(Ancestors[q]) = d
    <2>1. CASE n = Len(Ancestors[p])
      <3>1. Ancestors[p] # <<>> /\ Last(Ancestors[p]) = d
        BY <1>1, <1>2, <2>1 DEF Last
      <3> QED
        BY <3>1
    <2>2. CASE n < Len(Ancestors[p])
      <3>1. PICK q \in Dir : q = Ancestors[p][n + 1]
        BY <1>1, <1>2, <2>2
      <3>2. q \in Above(p) /\ q \in Path
        BY <1>1, <1>2, <2>2, <3>1 DEF Above, ToSet, Path
      <3>3. Ancestors[q] = SubSeq(Ancestors[p], 1, n)
        <4>1. n + 1 \in 1..Len(Ancestors[p]) /\ (n + 1) - 1 = n
          BY <1>1, <1>2, <2>2
        <4>2. Ancestors[Ancestors[p][n + 1]] = SubSeq(Ancestors[p], 1, (n + 1) - 1)
          BY <1>0, <4>1
        <4> QED
          BY <3>1, <4>1, <4>2
      <3>4. Len(Ancestors[q]) = n /\ Ancestors[q][n] = Ancestors[p][n]
        BY <1>1, <1>2, <2>2, <3>3
      <3>5. Ancestors[q] # <<>> /\ Last(Ancestors[q]) = d
        BY <1>2, <3>4 DEF Last
      <3> QED
        BY <3>2, <3>5
    <2> QED
      BY <1>1, <1>2, <2>1, <2>2
  <1> QED
    BY <1>3, <1>5, <1>6, <1>7

(* The nodes that are put in a tree. *)
LEMMA NodesDiffer ==
  ASSUME NEW r \in Run
  PROVE  /\ Absent.by = User /\ Absent.kind = "absent"
         /\ DirBy(r).by = r /\ DirBy(r).kind = "dir" /\ DirBy(r) # Absent
         /\ \A bytes : FileBy(r, bytes).by = r /\ FileBy(r, bytes).kind = "file"
         /\ r # User
  BY DEF Absent, DirBy, FileBy

(* Who has come to use a directory is not forgotten. *)
LEMMA UsesGrow ==
  ASSUME touched \subseteq touched',
         \A s \in Run : Writes(s) => Writes(s)' /\ run'[s].status = run[s].status,
         NEW r, NEW d, CameToUse(d, r)
  PROVE  CameToUse(d, r)'
  <1>1. PICK f \in File :
          /\ d \in ToSet(Ancestors[f])
          /\ \/ f \in touched
             \/ \E s \in Run \ {r} : Writes(s) /\ run[s].status[f] = "create"
    BY DEF CameToUse, Writes
  <1>2. \/ f \in touched'
        \/ \E s \in Run \ {r} : Writes(s)' /\ run'[s].status[f] = "create"
    BY <1>1
  <1> QED
    BY <1>1, <1>2 DEF CameToUse, Writes

(* What a run could not enter is a directory. *)
LEMMA NotEnteredIsADir ==
  ASSUME ScaffoldTypes, NEW r \in Run, NEW c \in Path, NotEntered(c, r)
  PROVE  c \in Dir
  <1> SUFFICES ASSUME c \in File PROVE FALSE
    BY DEF Path
  <1> QED
    BY DEF NotEntered, ScaffoldTypes, DirBy

(* Whatever a step does, a run whose record it leaves alone stays as it    *)
(* is, if it has the directories that it had.                              *)
LEMMA OthersStay ==
  ASSUME touched \subseteq touched',
         \A s \in Run : Writes(s) => Writes(s)' /\ run'[s].status = run[s].status,
         NEW s \in Run, run'[s] = run[s],
         \A d \in Dir : MadeBy(d, s)' <=> MadeBy(d, s),
         ScaffoldTypes, Bounds(s), DirsInOrder(s), DirsAccounted(s)
  PROVE  Bounds(s)' /\ DirsInOrder(s)' /\ DirsAccounted(s)'
  <1>1. Bounds(s)'
    BY DEF Bounds, Current
  <1>2. DirsInOrder(s)'
    <2>1. \A n \in 1..Len(run[s].dirs) : run[s].dirs[n] \in Dir
      <3>1. run[s].dirs \in Seq(Dir)
        BY DEF ScaffoldTypes, RunRecord
      <3> QED
        BY <3>1
    <2> QED
      BY <2>1 DEF DirsInOrder
  <1>3. DirsAccounted(s)'
    <2> SUFFICES ASSUME NEW d \in Dir, MadeBy(d, s)'
                 PROVE  /\ Writes(s)'
                        /\ \E f \in File : run'[s].status[f] = "create" /\ d \in Above(f)
                        /\ run'[s].phase \in {"enter", "make"} => OnItsList(d, s)'
                        /\ run'[s].phase \in {"rollback", "remove", "failed"} =>
                              OnItsList(d, s)' \/ CameToUse(d, s)' \/ Excused(d, s)'
      BY DEF DirsAccounted
    <2>1. /\ Writes(s)
          /\ \E f \in File : run[s].status[f] = "create" /\ d \in Above(f)
          /\ run[s].phase \in {"enter", "make"} => OnItsList(d, s)
          /\ run[s].phase \in {"rollback", "remove", "failed"} =>
                OnItsList(d, s) \/ CameToUse(d, s) \/ Excused(d, s)
      BY DEF DirsAccounted
    <2>2. CameToUse(d, s) => CameToUse(d, s)'
      BY UsesGrow
    <2>3. \A c : OnItsList(c, s)' <=> OnItsList(c, s)
      BY DEF OnItsList
    <2>4. Excused(d, s) => Excused(d, s)'
      <3> SUFFICES ASSUME NEW c \in Path,
                          (NotEntered(c, s) /\ ~OnItsList(c, s)) \/ c \in run[s].unremoved
                   PROVE  \/ NotEntered(c, s)' /\ ~OnItsList(c, s)'
                          \/ c \in run'[s].unremoved
        BY DEF Excused
      <3>1. NotEntered(c, s) => c \in Dir
        BY NotEnteredIsADir
      <3> QED
        BY <2>3, <3>1 DEF NotEntered, MadeBy, Current, Component
    <2>5. Writes(s) => Writes(s)'
      BY DEF Writes
    <2> QED
      BY <2>1, <2>2, <2>3, <2>4, <2>5
  <1> QED
    BY <1>1, <1>2, <1>3

(* A step of a run concerns the others only in what it puts at the path of *)
(* a directory, where nothing was, and in what it removes there of its own.*)
OwnDirs(r) ==
    \A d \in Dir : \/ tree'[d] = tree[d]
                   \/ tree[d].by = r /\ tree[d] # Absent /\ tree'[d] = Absent
                   \/ tree[d] = Absent /\ tree'[d] = DirBy(r)

LEMMA OneRunsDirs ==
  ASSUME ScaffoldInvariant, DirsInvariant, NEW r \in Run, touched' = touched,
         \A s \in Run : s # r => run'[s] = run[s],
         Writes(r) => Writes(r)' /\ run'[r].status = run[r].status,
         OwnDirs(r), TreeShape', Bounds(r)', DirsInOrder(r)', DirsAccounted(r)'
  PROVE  DirsInvariant'
  <1>1. \A s \in Run : Writes(s) => Writes(s)' /\ run'[s].status = run[s].status
    BY DEF Writes
  <1>2. ASSUME NEW s \in Run, s # r
        PROVE  Bounds(s)' /\ DirsInOrder(s)' /\ DirsAccounted(s)'
    <2>1. \A d \in Dir : MadeBy(d, s)' <=> MadeBy(d, s)
      <3> SUFFICES ASSUME NEW d \in Dir PROVE MadeBy(d, s)' <=> MadeBy(d, s)
        OBVIOUS
      <3>1. /\ DirBy(s).by = s /\ DirBy(s) # Absent
            /\ DirBy(r).by = r
        BY NodesDiffer
      <3> QED
        BY <1>2, <3>1 DEF OwnDirs, MadeBy
    <2>2. run'[s] = run[s] /\ ScaffoldTypes /\ Bounds(s) /\ DirsInOrder(s) /\ DirsAccounted(s)
      BY <1>2 DEF DirsInvariant, ScaffoldInvariant
    <2> QED
      BY <1>1, <2>1, <2>2, OthersStay
  <1> QED
    BY <1>2 DEF DirsInvariant

(* A step that changes no path leaves the tree in shape. *)
LEMMA SameTree ==
  ASSUME DirsInvariant, tree' = tree, touched' = touched, NEW r \in Run
  PROVE  TreeShape' /\ OwnDirs(r)
  BY DEF DirsInvariant, TreeShape, IsDir, MadeBy, OwnDirs

(* Before it writes, a run has made nothing and lists nothing. *)
LEMMA DirsBeforeWriting ==
  ASSUME ScaffoldInvariant, DirsInvariant, NEW r \in Run,
         tree' = tree, touched' = touched,
         run[r].phase \in {"plan", "compare"},
         \A s \in Run : s # r => run'[s] = run[s],
         run'[r].phase # "make",
         run'[r].dirs = run[r].dirs, run'[r].files = run[r].files,
         run'[r].next <= Len(Files[r]) + 1
  PROVE  DirsInvariant'
  <1>1. Bounds(r) /\ DirsInOrder(r) /\ DirsAccounted(r) /\ ~Writes(r)
    BY DEF DirsInvariant, Writes
  <1>2. run'[r].dirs = <<>> /\ Len(run'[r].dirs) = 0
    BY <1>1 DEF DirsInOrder
  <1>3. Bounds(r)'
    BY <1>1 DEF Bounds
  <1>4. DirsInOrder(r)'
    BY <1>2 DEF DirsInOrder
  <1>5. \A d \in Dir : ~MadeBy(d, r)'
    BY <1>1 DEF DirsAccounted, MadeBy
  <1>6. DirsAccounted(r)'
    BY <1>5 DEF DirsAccounted
  <1>7. TreeShape' /\ OwnDirs(r)
    BY SameTree
  <1> QED
    BY <1>1, <1>3, <1>4, <1>6, <1>7, OneRunsDirs

(* While it writes, a run keeps its lists and statuses; it gives up with   *)
(* all that it has made on the list, and fails with an empty one.          *)
LEMMA DirsWhileWriting ==
  ASSUME ScaffoldInvariant, DirsInvariant, NEW r \in Run,
         tree' = tree, touched' = touched,
         run[r].phase \in {"enter", "make", "rollback", "remove"},
         \A s \in Run : s # r => run'[s] = run[s],
         run'[r].phase \in {"enter", "make", "rollback", "done", "failed", "killed"},
         run[r].phase \in {"rollback", "remove"} => /\ run'[r].phase \in {"failed", "killed"}
                                                    /\ run'[r].next = run[r].next
                                                    /\ run'[r].depth = run[r].depth,
         run'[r].phase = "failed" => run[r].phase = "rollback" /\ run[r].dirs = <<>>,
         run'[r].phase = "make" => run[r].status[Files[r][run'[r].next]] = "create",
         run'[r].status = run[r].status,
         run'[r].dirs = run[r].dirs, run'[r].files = run[r].files,
         run'[r].unremoved = run[r].unremoved,
         run'[r].next <= Len(Files[r]) + 1
  PROVE  DirsInvariant'
  <1>1. Bounds(r) /\ DirsInOrder(r) /\ DirsAccounted(r) /\ Writes(r) /\ Writes(r)'
    BY DEF DirsInvariant, Writes
  <1>3. Bounds(r)'
    BY <1>1 DEF Bounds, Current
  <1>4. DirsInOrder(r)'
    BY <1>1 DEF DirsInOrder, MadeBy
  <1>5. TreeShape' /\ OwnDirs(r)
    BY SameTree
  <1>6. DirsAccounted(r)'
    <2> SUFFICES ASSUME NEW d \in Dir, MadeBy(d, r)
                 PROVE  /\ \E f \in File : run[r].status[f] = "create" /\ d \in Above(f)
                        /\ run'[r].phase \in {"enter", "make"} => OnItsList(d, r)
                        /\ run'[r].phase \in {"rollback", "remove", "failed"} =>
                              OnItsList(d, r) \/ CameToUse(d, r)' \/ Excused(d, r)'
      BY <1>1 DEF DirsAccounted, MadeBy, OnItsList
    <2>1. /\ \E f \in File : run[r].status[f] = "create" /\ d \in Above(f)
          /\ run[r].phase \in {"enter", "make"} => OnItsList(d, r)
          /\ run[r].phase \in {"rollback", "remove", "failed"} =>
                OnItsList(d, r) \/ CameToUse(d, r) \/ Excused(d, r)
      BY <1>1 DEF DirsAccounted
    <2>2. \A s \in Run : Writes(s) => Writes(s)' /\ run'[s].status = run[s].status
      BY <1>1 DEF Writes
    <2>3. CameToUse(d, r) => CameToUse(d, r)'
      BY <2>2, UsesGrow
    <2>4. run[r].phase \in {"rollback", "remove"} /\ Excused(d, r) => Excused(d, r)'
      BY DEF Excused, NotEntered, Current, Component, OnItsList
    <2> QED
      BY <2>1, <2>3, <2>4
  <1> QED
    BY <1>1, <1>3, <1>4, <1>5, <1>6, OneRunsDirs

(* Planning, comparing and staging. *)
LEMMA DirsPlanned ==
  ASSUME ScaffoldInvariant, DirsInvariant, NEW r \in Run,
         (\E dryRun \in BOOLEAN : Plan(r, dryRun)) \/ Compare(r) \/ Stage(r)
  PROVE  DirsInvariant'
  <1>1. /\ ScaffoldTypes /\ Progress(r) /\ Bounds(r)
        /\ run[r].phase \in {"plan", "compare"} /\ tree' = tree /\ touched' = touched
    BY DEF ScaffoldInvariant, DirsInvariant, Plan, Compare, Stage
  <1>2. PICK old \in RunRecord : old = run[r]
    BY <1>1 DEF ScaffoldTypes
  <1>3. ASSUME NEW record \in RunRecord, Becomes(r, record),
               record.phase # "make", record.dirs = old.dirs, record.files = old.files,
               record.next <= Len(Files[r]) + 1
        PROVE  DirsInvariant'
    <2>1. /\ \A s \in Run : s # r => run'[s] = run[s]
          /\ run'[r] = record
      BY <1>1, <1>3, OneRecordChanges
    <2> QED
      BY <1>1, <1>2, <1>3, <2>1, DirsBeforeWriting
  <1>4. ASSUME NEW next \in {"previewed", "compare", "failed", "conflict"}, Moves(r, next)
        PROVE  DirsInvariant'
    <2>1. PICK record \in RunRecord : record = [old EXCEPT !.phase = next]
      BY DEF RunRecord
    <2>2. /\ record.phase = next /\ record.next = old.next
          /\ record.dirs = old.dirs /\ record.files = old.files
      BY <2>1 DEF RunRecord
    <2>3. Becomes(r, record)
      BY <1>2, <1>4, <2>1 DEF Moves
    <2> QED
      BY <1>1, <1>2, <1>3, <2>2, <2>3 DEF Bounds
  <1>5. CASE \E dryRun \in BOOLEAN : Plan(r, dryRun)
    <2>1. PICK next \in {"previewed", "compare", "failed"} : Moves(r, next)
      BY <1>5 DEF Plan
    <2> QED
      BY <1>4, <2>1
  <1>6. CASE Compare(r)
    <2> DEFINE f == Files[r][run[r].next]
               verdict == CompareDestination(f)
    <2>1. \/ Moves(r, "failed")
          \/ Becomes(r, [run[r] EXCEPT !.status[f] = verdict, !.next = run[r].next + 1])
      BY <1>6 DEF Compare
    <2>2. run[r].next <= Len(Files[r]) /\ verdict \in {"create", "unchanged", "conflict"}
      BY <1>6 DEF Compare, CompareDestination
    <2> HIDE DEF f, verdict
    <2>3. PICK next \in Nat : next = run[r].next + 1
      BY <1>2 DEF RunRecord
    <2>4. PICK record \in RunRecord : record = [old EXCEPT !.status[f] = verdict, !.next = next]
      BY <2>2 DEF RunRecord
    <2>5. /\ record.phase = old.phase /\ record.next = next
          /\ record.dirs = old.dirs /\ record.files = old.files
      BY <2>4 DEF RunRecord
    <2>6. CASE Becomes(r, [run[r] EXCEPT !.status[f] = verdict, !.next = run[r].next + 1])
      <3>1. Becomes(r, record)
        BY <1>2, <2>3, <2>4, <2>6
      <3>2. next <= Len(Files[r]) + 1
        BY <1>2, <2>2, <2>3 DEF RunRecord
      <3> QED
        BY <1>1, <1>2, <1>3, <2>5, <3>1, <3>2
    <2> QED
      BY <1>4, <2>1, <2>6
  <1>7. CASE Stage(r)
    <2>1. \/ \E next \in {"conflict", "failed"} : Moves(r, next)
          \/ Becomes(r, [run[r] EXCEPT !.phase = "enter", !.next = 1])
      BY <1>7 DEF Stage
    <2>2. PICK one \in Nat : one = 1
      OBVIOUS
    <2>3. PICK record \in RunRecord : record = [old EXCEPT !.phase = "enter", !.next = one]
      BY DEF RunRecord
    <2>4. /\ record.phase = "enter" /\ record.next = one
          /\ record.dirs = old.dirs /\ record.files = old.files
      BY <2>3 DEF RunRecord
    <2>5. CASE Becomes(r, [run[r] EXCEPT !.phase = "enter", !.next = 1])
      <3>1. Becomes(r, record)
        BY <1>2, <2>2, <2>3, <2>5
      <3>2. one <= Len(Files[r]) + 1
        BY <2>2
      <3> QED
        BY <1>3, <2>4, <3>1, <3>2
    <2> QED
      BY <1>4, <2>1, <2>5
  <1> QED
    BY <1>5, <1>6, <1>7

(* Going through the files, giving up, and ending. *)
LEMMA DirsKept ==
  ASSUME ScaffoldInvariant, DirsInvariant, NEW r \in Run,
         \/ SkipUnchanged(r) \/ EnterDirectory(r) \/ Commit(r) \/ CallFails(r) \/ Kill(r)
         \/ RollBackEnds(r)
  PROVE  DirsInvariant'
  <1>1. /\ ScaffoldTypes /\ Bounds(r)
        /\ run[r].phase \in {"enter", "make", "rollback", "remove"}
        /\ tree' = tree /\ touched' = touched
    BY DEF ScaffoldInvariant, DirsInvariant, SkipUnchanged, EnterDirectory, Commit,
           CallFails, Kill, RollBackEnds, Committing, AtFile
  <1>2. PICK old \in RunRecord : old = run[r]
    BY <1>1 DEF ScaffoldTypes
  <1>3. ASSUME NEW next \in {"make", "rollback", "done", "failed", "killed"}, Moves(r, next),
               run[r].phase \in {"rollback", "remove"} => next \in {"failed", "killed"},
               next = "failed" => run[r].phase = "rollback" /\ run[r].dirs = <<>>,
               next = "make" => run[r].status[Current(r)] = "create"
        PROVE  DirsInvariant'
    <2>1. /\ \A s \in Run : s # r => run'[s] = run[s]
          /\ run'[r].phase = next /\ run'[r].status = run[r].status
          /\ run'[r].next = run[r].next /\ run'[r].depth = run[r].depth
          /\ run'[r].files = run[r].files /\ run'[r].dirs = run[r].dirs
          /\ run'[r].unremoved = run[r].unremoved
      BY <1>1, <1>3, OnlyThePhaseChanges
    <2> QED
      BY <1>1, <1>3, <2>1, DirsWhileWriting DEF Bounds, Current
  <1>4. ASSUME NEW record \in RunRecord, Becomes(r, record),
               run[r].phase = "enter", record.phase = "enter", record.status = old.status,
               record.dirs = old.dirs, record.files = old.files,
               record.unremoved = old.unremoved,
               record.next <= Len(Files[r]) + 1
        PROVE  DirsInvariant'
    <2>1. /\ \A s \in Run : s # r => run'[s] = run[s]
          /\ run'[r] = record
      BY <1>1, <1>4, OneRecordChanges
    <2> QED
      BY <1>1, <1>2, <1>4, <2>1, DirsWhileWriting
  <1>5. CASE SkipUnchanged(r)
    <2>1. PICK next \in Nat : next = run[r].next + 1
      BY <1>2 DEF RunRecord
    <2>2. PICK record \in RunRecord : record = [old EXCEPT !.next = next]
      BY DEF RunRecord
    <2>3. /\ record.phase = old.phase /\ record.next = next /\ record.status = old.status
          /\ record.dirs = old.dirs /\ record.files = old.files
          /\ record.unremoved = old.unremoved
      BY <2>2 DEF RunRecord
    <2>4. Becomes(r, record) /\ run[r].phase = "enter" /\ run[r].next <= Len(Files[r])
      BY <1>2, <1>5, <2>1, <2>2 DEF SkipUnchanged, AtFile
    <2>5. next <= Len(Files[r]) + 1
      BY <1>2, <2>1, <2>4 DEF RunRecord
    <2> QED
      BY <1>2, <1>4, <2>3, <2>4, <2>5
  <1>6. CASE EnterDirectory(r)
    <2>1. /\ run[r].phase = "enter" /\ run[r].status[Current(r)] = "create"
          /\ \/ Becomes(r, [run[r] EXCEPT !.depth = run[r].depth + 1])
             \/ Moves(r, "make") \/ Moves(r, "rollback")
      BY <1>6 DEF EnterDirectory, Committing, AtFile
    <2>2. CASE Becomes(r, [run[r] EXCEPT !.depth = run[r].depth + 1])
      <3>1. PICK depth \in Nat : depth = run[r].depth + 1
        BY <1>2 DEF RunRecord
      <3>2. PICK record \in RunRecord : record = [old EXCEPT !.depth = depth]
        BY DEF RunRecord
      <3>3. /\ record.phase = old.phase /\ record.next = old.next /\ record.status = old.status
            /\ record.dirs = old.dirs /\ record.files = old.files
            /\ record.unremoved = old.unremoved
        BY <3>2 DEF RunRecord
      <3>4. Becomes(r, record)
        BY <1>2, <2>2, <3>1, <3>2
      <3> QED
        BY <1>1, <1>2, <1>4, <2>1, <3>3, <3>4 DEF Bounds
    <2> QED
      BY <1>3, <2>1, <2>2
  <1>7. CASE Commit(r) \/ CallFails(r)
    BY <1>3, <1>7 DEF Commit, CallFails
  <1>8. CASE Kill(r)
    BY <1>3, <1>8 DEF Kill
  <1>9. CASE RollBackEnds(r)
    BY <1>3, <1>9 DEF RollBackEnds
  <1> QED
    BY <1>5, <1>6, <1>7, <1>8, <1>9

(* A run makes a directory where nothing is, in directories that exist.    *)
LEMMA DirsMade ==
  ASSUME ScaffoldInvariant, DirsInvariant, NEW r \in Run, MakeDirectory(r)
  PROVE  DirsInvariant'
  <1>1. /\ ScaffoldTypes /\ Progress(r) /\ TreeShape
        /\ Bounds(r) /\ DirsInOrder(r) /\ DirsAccounted(r)
        /\ run[r].phase = "make" /\ touched' = touched
    BY DEF ScaffoldInvariant, DirsInvariant, MakeDirectory
  <1>2. PICK old \in RunRecord : old = run[r]
    BY <1>1 DEF ScaffoldTypes
  <1>3. PICK d \in Dir : d = Component(r) /\ d \in Above(Current(r)) /\ Current(r) \in File
    <2>1. run[r].next \in 1..Len(Files[r]) /\ run[r].depth \in Nat
      BY <1>1, <1>2 DEF Progress, RunRecord
    <2>2. Ancestors[Current(r)] \in Seq(Dir) /\ Current(r) \in File
      BY <2>1, FilesAreFiles DEF Current
    <2>3. run[r].depth + 1 \in 1..Len(Ancestors[Current(r)])
      BY <1>1, <2>1, <2>2 DEF Progress, Current
    <2> QED
      BY <2>2, <2>3 DEF Component, Above, ToSet
  <1>4. CASE Moves(r, "rollback") /\ tree' = tree
    <2>1. /\ \A s \in Run : s # r => run'[s] = run[s]
          /\ run'[r].phase = "rollback" /\ run'[r].status = run[r].status
          /\ run'[r].next = run[r].next /\ run'[r].depth = run[r].depth
          /\ run'[r].files = run[r].files /\ run'[r].dirs = run[r].dirs
          /\ run'[r].unremoved = run[r].unremoved
      BY <1>1, <1>4, OnlyThePhaseChanges
    <2> QED
      BY <1>1, <1>4, <2>1, DirsWhileWriting DEF Bounds
  <1>5. ASSUME tree[d] = Absent, ParentOpens(d), tree' = [tree EXCEPT ![d] = DirBy(r)],
               NEW record \in RunRecord, Becomes(r, record),
               record.status = old.status, record.next = old.next, record.files = old.files,
               \/ record.phase = "enter" /\ record.dirs = Append(old.dirs, d)
               \/ record.phase = "rollback" /\ record.dirs = old.dirs /\ record.depth = old.depth
        PROVE  DirsInvariant'
    <2>1. /\ \A s \in Run : s # r => run'[s] = run[s]
          /\ run'[r] = record
      BY <1>1, <1>5, OneRecordChanges
    <2>2. /\ tree'[d] = DirBy(r)
          /\ \A p \in Path : p # d => tree'[p] = tree[p]
      BY <1>1, <1>5 DEF ScaffoldTypes, Path
    <2>3. /\ Absent.kind = "absent" /\ Absent.by = User /\ DirBy(r) # Absent
          /\ DirBy(r).kind = "dir" /\ DirBy(r).by = r /\ r # User
      BY NodesDiffer
    <2>4. \A e \in Dir : e \in Path
      BY DEF Path
    <2>5. \A e \in Dir : IsDir(e) => e # d /\ tree'[e] = tree[e]
      BY <1>5, <2>2, <2>3, <2>4 DEF IsDir
    <2>6. \A p \in Path : \A e \in Above(p) : e \in Dir
      BY AboveIsAChain
    <2>7. TreeShape'
      <3>1. touched' \subseteq File
        BY <1>1 DEF TreeShape
      <3>2. ASSUME NEW p \in Path, tree'[p] # Absent, NEW e \in Above(p) PROVE IsDir(e)'
        <4>1. IsDir(e)
          <5>1. CASE p = d
            BY <1>5, <3>2, <5>1 DEF ParentOpens, Above
          <5>2. CASE p # d
            BY <1>1, <2>2, <3>2, <5>2 DEF TreeShape
          <5> QED
            BY <5>1, <5>2
        <4> QED
          BY <2>5, <2>6, <3>2, <4>1 DEF IsDir
      <3>3. ASSUME NEW e \in Dir, tree'[e].by # User PROVE MadeBy(e, tree[e].by)'
        BY <1>1, <2>2, <2>3, <2>4, <3>3 DEF TreeShape, MadeBy
      <3>4. ASSUME NEW p \in Path, tree'[p] # Absent, tree'[p].by = User
            PROVE  p \in touched' \/ \A e \in Above(p) : tree'[e].by = User
        <4>1. p # d /\ tree'[p] = tree[p]
          BY <2>2, <2>3, <3>4
        <4>2. \A e \in Above(p) : tree'[e] = tree[e]
          BY <1>1, <2>5, <2>6, <3>4, <4>1 DEF TreeShape
        <4> QED
          BY <1>1, <3>4, <4>1, <4>2 DEF TreeShape
      <3> QED
        BY <3>1, <3>2, <3>3, <3>4 DEF TreeShape
    <2>8. OwnDirs(r)
      BY <1>5, <2>2, <2>4 DEF OwnDirs
    <2>9. /\ old.dirs \in Seq(Dir) /\ Len(old.dirs) \in Nat
          /\ \A n \in 1..Len(old.dirs) : /\ old.dirs[n] \in Dir
                                         /\ MadeBy(old.dirs[n], r) /\ old.dirs[n] # d
                                         /\ MadeBy(old.dirs[n], r)'
                                         /\ d \notin Above(old.dirs[n])
      <3>1. old.dirs \in Seq(Dir) /\ Len(old.dirs) \in Nat
        BY <1>2 DEF RunRecord
      <3> SUFFICES ASSUME NEW n \in 1..Len(old.dirs)
                   PROVE  /\ old.dirs[n] \in Dir
                          /\ MadeBy(old.dirs[n], r) /\ old.dirs[n] # d
                          /\ MadeBy(old.dirs[n], r)'
                          /\ d \notin Above(old.dirs[n])
        BY <3>1
      <3>2. old.dirs[n] \in Dir /\ MadeBy(old.dirs[n], r)
        BY <1>1, <1>2, <3>1 DEF DirsInOrder
      <3>3. old.dirs[n] # d /\ tree'[old.dirs[n]] = tree[old.dirs[n]]
        BY <1>5, <2>2, <2>3, <2>4, <3>2 DEF MadeBy
      <3>4. d \notin Above(old.dirs[n])
        BY <1>1, <2>3, <2>4, <2>5, <3>2 DEF TreeShape, MadeBy
      <3> QED
        BY <3>2, <3>3, <3>4 DEF MadeBy
    <2>10. CASE record.phase = "enter" /\ record.dirs = Append(old.dirs, d)
      <3>1. /\ Len(record.dirs) = Len(old.dirs) + 1
            /\ record.dirs[Len(old.dirs) + 1] = d
            /\ \A n \in 1..Len(old.dirs) : record.dirs[n] = old.dirs[n]
        BY <2>9, <2>10
      <3>2. Bounds(r)'
        BY <1>1, <1>2, <1>5, <2>1, <2>10 DEF Bounds
      <3>3. DirsInOrder(r)'
        <4>1. ASSUME NEW m \in 1..Len(record.dirs), NEW n \in 1..Len(record.dirs), m < n
              PROVE  record.dirs[n] \notin Above(record.dirs[m])
          <5>1. m \in 1..Len(old.dirs) /\ (n \in 1..Len(old.dirs) \/ n = Len(old.dirs) + 1)
            BY <2>9, <3>1, <4>1
          <5>2. CASE n = Len(old.dirs) + 1
            BY <2>9, <3>1, <5>1, <5>2
          <5>3. CASE n \in 1..Len(old.dirs)
            BY <1>1, <1>2, <3>1, <4>1, <5>1, <5>3 DEF DirsInOrder
          <5> QED
            BY <5>1, <5>2, <5>3
        <4>2. \A n \in 1..Len(record.dirs) : MadeBy(record.dirs[n], r)'
          <5> SUFFICES ASSUME NEW n \in 1..Len(record.dirs) PROVE MadeBy(record.dirs[n], r)'
            OBVIOUS
          <5>1. n \in 1..Len(old.dirs) \/ n = Len(old.dirs) + 1
            BY <2>9, <3>1
          <5> QED
            BY <2>2, <2>9, <3>1, <5>1 DEF MadeBy
        <4> QED
          BY <2>1, <2>10, <4>1, <4>2 DEF DirsInOrder, MadeBy
      <3>4. DirsAccounted(r)'
        <4> SUFFICES ASSUME NEW e \in Dir, MadeBy(e, r)'
                     PROVE  /\ \E f \in File : old.status[f] = "create" /\ e \in Above(f)
                            /\ \E n \in 1..Len(record.dirs) : record.dirs[n] = e
          BY <1>5, <2>1, <2>10 DEF DirsAccounted, Writes, OnItsList
        <4>1. CASE e = d
          BY <1>1, <1>2, <1>3, <2>9, <3>1, <4>1 DEF Bounds
        <4>2. CASE e # d
          <5>1. MadeBy(e, r)
            BY <2>2, <2>4, <4>2 DEF MadeBy
          <5>2. /\ \E f \in File : old.status[f] = "create" /\ e \in Above(f)
                /\ \E n \in 1..Len(old.dirs) : old.dirs[n] = e
            BY <1>1, <1>2, <5>1 DEF DirsAccounted, OnItsList
          <5>3. PICK n \in 1..Len(old.dirs) : old.dirs[n] = e
            BY <5>2
          <5>4. n \in 1..Len(record.dirs) /\ record.dirs[n] = e
            BY <2>9, <3>1, <5>3
          <5> QED
            BY <5>2, <5>4
        <4> QED
          BY <4>1, <4>2
      <3> QED
        BY <1>1, <1>2, <1>5, <2>1, <2>7, <2>8, <2>10, <3>2, <3>3, <3>4, OneRunsDirs DEF Writes
    <2>11. CASE record.phase = "rollback" /\ record.dirs = old.dirs /\ record.depth = old.depth
      <3>2. Bounds(r)'
        BY <1>1, <1>2, <1>5, <2>1, <2>11 DEF Bounds
      <3>3. DirsInOrder(r)'
        BY <1>1, <1>2, <2>1, <2>11 DEF DirsInOrder
      <3>4. DirsAccounted(r)'
        <4> SUFFICES ASSUME NEW e \in Dir, MadeBy(e, r)'
                     PROVE  /\ \E f \in File : old.status[f] = "create" /\ e \in Above(f)
                            /\ OnItsList(e, r)' \/ Excused(e, r)'
          BY <1>5, <2>1, <2>11 DEF DirsAccounted, Writes
        <4>1. CASE e = d
          <5>1. ~OnItsList(d, r)'
            BY <2>1, <2>9, <2>11 DEF OnItsList
          <5>2. NotEntered(d, r)'
            BY <1>1, <1>2, <1>3, <1>5, <2>1, <2>2, <2>11
            DEF NotEntered, Progress, Current, Component
          <5>3. Excused(e, r)'
            BY <4>1, <5>1, <5>2 DEF Excused, Path
          <5> QED
            BY <1>1, <1>2, <1>3, <4>1, <5>3 DEF Bounds
        <4>2. CASE e # d
          <5>1. MadeBy(e, r)
            BY <2>2, <2>4, <4>2 DEF MadeBy
          <5>2. /\ \E f \in File : old.status[f] = "create" /\ e \in Above(f)
                /\ OnItsList(e, r)
            BY <1>1, <1>2, <5>1 DEF DirsAccounted
          <5> QED
            BY <1>2, <2>1, <2>11, <5>2 DEF OnItsList
        <4> QED
          BY <4>1, <4>2
      <3> QED
        BY <1>1, <1>2, <1>5, <2>1, <2>7, <2>8, <2>11, <3>2, <3>3, <3>4, OneRunsDirs DEF Writes
    <2> QED
      BY <1>5, <2>10, <2>11
  <1>6. CASE /\ tree[d] = Absent /\ ParentOpens(d)
             /\ tree' = [tree EXCEPT ![d] = DirBy(r)]
             /\ Becomes(r, [run[r] EXCEPT !.phase = "enter", !.depth = run[r].depth + 1,
                                          !.dirs = Append(run[r].dirs, d)])
    <2>1. PICK depth \in Nat : depth = run[r].depth + 1
      BY <1>2 DEF RunRecord
    <2>2. PICK dirs \in Seq(Dir) : dirs = Append(run[r].dirs, d)
      <3>1. run[r].dirs \in Seq(Dir)
        BY <1>2 DEF RunRecord
      <3>2. Append(run[r].dirs, d) \in Seq(Dir)
        BY <3>1
      <3> QED
        BY <3>2
    <2>3. PICK record \in RunRecord :
            record = [old EXCEPT !.phase = "enter", !.depth = depth, !.dirs = dirs]
      BY DEF RunRecord
    <2>4. /\ record.phase = "enter" /\ record.status = old.status /\ record.next = old.next
          /\ record.files = old.files /\ record.dirs = dirs
      BY <2>3 DEF RunRecord
    <2>5. Becomes(r, record)
      BY <1>2, <1>6, <2>1, <2>2, <2>3
    <2> QED
      BY <1>2, <1>5, <1>6, <2>2, <2>4, <2>5
  <1>7. CASE /\ tree[d] = Absent /\ ParentOpens(d)
             /\ tree' = [tree EXCEPT ![d] = DirBy(r)]
             /\ Moves(r, "rollback")
    <2>1. PICK record \in RunRecord : record = [old EXCEPT !.phase = "rollback"]
      BY DEF RunRecord
    <2>2. /\ record.phase = "rollback" /\ record.status = old.status /\ record.next = old.next
          /\ record.files = old.files /\ record.dirs = old.dirs /\ record.depth = old.depth
      BY <2>1 DEF RunRecord
    <2>3. Becomes(r, record)
      BY <1>2, <1>7, <2>1 DEF Moves
    <2> QED
      BY <1>5, <1>7, <2>2, <2>3
  <1> QED
    BY <1>3, <1>4, <1>6, <1>7 DEF MakeDirectory

(* What happens at the path of a file leaves the directories as they are. *)
LEMMA ShapeWithAFile ==
  ASSUME ScaffoldTypes, TreeShape, NEW f \in File,
         \A p \in Path : p # f => tree'[p] = tree[p],
         tree'[f] # Absent => ParentOpens(f),
         tree'[f] # Absent /\ tree'[f].by = User => f \in touched' \/ tree'[f] = tree[f],
         touched \subseteq touched', touched' \subseteq File
  PROVE  TreeShape' /\ \A d \in Dir : tree'[d] = tree[d]
  <1>1. \A d \in Dir : d \in Path /\ d # f /\ tree'[d] = tree[d]
    BY DEF Path
  <1>2. \A p \in Path : \A d \in Above(p) : d \in Dir
    BY AboveIsAChain
  <1>3. \A p \in Path : tree'[p] # Absent => \A d \in Above(p) : IsDir(d)'
    BY <1>1, <1>2 DEF TreeShape, IsDir, ParentOpens, Above
  <1>4. \A d \in Dir : tree'[d].by # User => MadeBy(d, tree[d].by)'
    BY <1>1 DEF TreeShape, MadeBy
  <1>5. \A p \in Path : tree'[p] # Absent /\ tree'[p].by = User =>
          p \in touched' \/ \A d \in Above(p) : tree'[d].by = User
    BY <1>1, <1>2 DEF TreeShape
  <1> QED
    BY <1>1, <1>3, <1>4, <1>5 DEF TreeShape

(* A step that leaves the directories, and the list of them, as they are.  *)
LEMMA DirsUnmoved ==
  ASSUME ScaffoldInvariant, DirsInvariant, NEW r \in Run, touched' = touched,
         \A s \in Run : s # r => run'[s] = run[s],
         TreeShape', \A d \in Dir : tree'[d] = tree[d],
         \/ run[r].phase = "enter" /\ run'[r].phase = "enter"
         \/ /\ run[r].phase \in {"rollback", "remove"} /\ run'[r].phase \in {"rollback", "remove"}
            /\ run'[r].next = run[r].next /\ run'[r].depth = run[r].depth,
         run'[r].status = run[r].status, run'[r].dirs = run[r].dirs,
         run[r].unremoved \subseteq run'[r].unremoved, Bounds(r)'
  PROVE  DirsInvariant'
  <1>1. ScaffoldTypes /\ DirsInOrder(r) /\ DirsAccounted(r) /\ Writes(r) /\ Writes(r)'
    BY DEF DirsInvariant, ScaffoldInvariant, Writes
  <1>2. OwnDirs(r)
    BY DEF OwnDirs
  <1>3. DirsInOrder(r)'
    <2>1. \A n \in 1..Len(run[r].dirs) : run[r].dirs[n] \in Dir
      <3>1. run[r].dirs \in Seq(Dir)
        BY <1>1 DEF ScaffoldTypes, RunRecord
      <3> QED
        BY <3>1
    <2> QED
      BY <1>1, <2>1 DEF DirsInOrder, MadeBy
  <1>4. DirsAccounted(r)'
    <2> SUFFICES ASSUME NEW d \in Dir, MadeBy(d, r)
                 PROVE  /\ \E f \in File : run[r].status[f] = "create" /\ d \in Above(f)
                        /\ run[r].phase = "enter" => OnItsList(d, r)
                        /\ run[r].phase \in {"rollback", "remove"} =>
                              OnItsList(d, r) \/ CameToUse(d, r)' \/ Excused(d, r)'
      BY <1>1 DEF DirsAccounted, MadeBy, OnItsList
    <2>1. /\ \E f \in File : run[r].status[f] = "create" /\ d \in Above(f)
          /\ run[r].phase = "enter" => OnItsList(d, r)
          /\ run[r].phase \in {"rollback", "remove"} =>
                OnItsList(d, r) \/ CameToUse(d, r) \/ Excused(d, r)
      BY <1>1 DEF DirsAccounted
    <2>2. \A s \in Run : Writes(s) => Writes(s)' /\ run'[s].status = run[s].status
      BY <1>1 DEF Writes
    <2>3. CameToUse(d, r) => CameToUse(d, r)'
      BY <2>2, UsesGrow
    <2>4. run[r].phase \in {"rollback", "remove"} /\ Excused(d, r) => Excused(d, r)'
      <3> SUFFICES ASSUME run[r].phase \in {"rollback", "remove"}, NEW c \in Path,
                          (NotEntered(c, r) /\ ~OnItsList(c, r)) \/ c \in run[r].unremoved
                   PROVE  \/ NotEntered(c, r)' /\ ~OnItsList(c, r)'
                          \/ c \in run'[r].unremoved
        BY DEF Excused
      <3>1. NotEntered(c, r) => c \in Dir
        BY <1>1, NotEnteredIsADir
      <3> QED
        BY <3>1 DEF NotEntered, Current, Component, OnItsList
    <2> QED
      BY <2>1, <2>3, <2>4
  <1> QED
    BY <1>1, <1>2, <1>3, <1>4, OneRunsDirs

(* A file is put in place in a directory that exists. *)
LEMMA DirsOfLink ==
  ASSUME ScaffoldInvariant, DirsInvariant, NEW r \in Run, Link(r)
  PROVE  DirsInvariant'
  <1>1. /\ ScaffoldTypes /\ Progress(r) /\ TreeShape /\ Bounds(r)
        /\ run[r].phase = "enter" /\ run[r].next <= Len(Files[r]) /\ touched' = touched
    BY DEF ScaffoldInvariant, DirsInvariant, Link, Committing, AtFile
  <1>2. PICK old \in RunRecord : old = run[r]
    BY <1>1 DEF ScaffoldTypes
  <1>3. PICK f \in File : f = Current(r) /\ f \in ToSet(Files[r])
    <2>1. run[r].next \in 1..Len(Files[r])
      BY <1>1, <1>2 DEF Progress, RunRecord
    <2> QED
      BY <2>1, FilesAreFiles DEF Current, ToSet
  <1>4. CASE Moves(r, "rollback") /\ tree' = tree
    <2>1. /\ \A s \in Run : s # r => run'[s] = run[s]
          /\ run'[r].phase = "rollback" /\ run'[r].status = run[r].status
          /\ run'[r].next = run[r].next /\ run'[r].depth = run[r].depth
          /\ run'[r].files = run[r].files /\ run'[r].dirs = run[r].dirs
          /\ run'[r].unremoved = run[r].unremoved
      BY <1>1, <1>4, OnlyThePhaseChanges
    <2> QED
      BY <1>1, <1>4, <2>1, DirsWhileWriting DEF Bounds
  <1>5. CASE /\ tree[f] = Absent /\ ParentOpens(f)
             /\ tree' = [tree EXCEPT ![f] = FileBy(r, "template")]
             /\ Becomes(r, [run[r] EXCEPT !.next = run[r].next + 1, !.depth = 0,
                                          !.files = Append(run[r].files, f)])
    <2>1. PICK next \in Nat : next = run[r].next + 1
      BY <1>2 DEF RunRecord
    <2>2. PICK files \in Seq(File) : files = Append(run[r].files, f)
      <3>1. run[r].files \in Seq(File)
        BY <1>2 DEF RunRecord
      <3>2. Append(run[r].files, f) \in Seq(File)
        BY <3>1
      <3> QED
        BY <3>2
    <2>3. PICK depth \in Nat : depth = 0
      OBVIOUS
    <2>4. PICK record \in RunRecord :
            record = [old EXCEPT !.next = next, !.depth = depth, !.files = files]
      BY DEF RunRecord
    <2>5. /\ record.phase = old.phase /\ record.status = old.status /\ record.next = next
          /\ record.files = files /\ record.dirs = old.dirs
          /\ record.unremoved = old.unremoved
      BY <2>4 DEF RunRecord
    <2>6. Becomes(r, record)
      BY <1>2, <1>5, <2>1, <2>2, <2>3, <2>4
    <2>7. /\ \A s \in Run : s # r => run'[s] = run[s]
          /\ run'[r] = record
      BY <1>1, <2>6, OneRecordChanges
    <2>8. /\ tree'[f] = FileBy(r, "template")
          /\ \A p \in Path : p # f => tree'[p] = tree[p]
      BY <1>1, <1>5 DEF ScaffoldTypes, Path
    <2>9. FileBy(r, "template").by # User
      BY NodesDiffer
    <2>10. TreeShape' /\ \A d \in Dir : tree'[d] = tree[d]
      <3>1. touched \subseteq touched' /\ touched' \subseteq File
        BY <1>1 DEF TreeShape
      <3> QED
        BY <1>1, <1>5, <2>8, <2>9, <3>1, ShapeWithAFile
    <2>11. Bounds(r)'
      <3>1. old.files \in Seq(File)
        BY <1>2 DEF RunRecord
      <3>2. ASSUME NEW n \in 1..Len(files) PROVE files[n] \in ToSet(Files[r])
        <4>1. files = Append(old.files, f)
          BY <1>2, <2>2
        <4>2. \/ n \in 1..Len(old.files) /\ files[n] = old.files[n]
              \/ files[n] = f
          BY <3>1, <4>1
        <4> QED
          BY <1>1, <1>2, <1>3, <4>2 DEF Bounds
      <3>3. next <= Len(Files[r]) + 1
        BY <1>1, <1>2, <2>1 DEF RunRecord
      <3> QED
        BY <1>1, <1>2, <2>5, <2>7, <3>2, <3>3 DEF Bounds
    <2> QED
      BY <1>1, <1>2, <2>5, <2>7, <2>10, <2>11, DirsUnmoved
  <1> QED
    BY <1>3, <1>4, <1>5 DEF Link

(* A file leaves the list of the rollback, removed or not. *)
LEMMA DirsOfFileDropped ==
  ASSUME ScaffoldInvariant, DirsInvariant, NEW r \in Run, touched' = touched,
         run[r].phase \in {"rollback", "remove"}, run[r].files # <<>>,
         NEW more, Drops(r, more),
         \A p \in Path : tree'[p] = tree[p] \/ (p = Target(r) /\ tree'[p] = Absent)
  PROVE  DirsInvariant'
  <1>1. ScaffoldTypes /\ TreeShape /\ Bounds(r)
    BY DEF ScaffoldInvariant, DirsInvariant
  <1>2. /\ \A s \in Run : s # r => run'[s] = run[s]
        /\ run'[r].phase = "rollback" /\ run'[r].status = run[r].status
        /\ run'[r].next = run[r].next /\ run'[r].depth = run[r].depth
        /\ run[r].unremoved \subseteq run'[r].unremoved
        /\ run'[r].dirs = run[r].dirs
        /\ Len(run[r].files) \in Nat
        /\ Len(run'[r].files) = Len(run[r].files) - 1
        /\ \A n \in 1..(Len(run[r].files) - 1) : run'[r].files[n] = run[r].files[n]
    BY <1>1, Dropping
  <1>3. PICK f \in File : f = Target(r)
    BY <1>1, TargetIsAPath
  <1>4. TreeShape' /\ \A d \in Dir : tree'[d] = tree[d]
    <2>1. f \in Path
      BY DEF Path
    <2>2. \A p \in Path : p # f => tree'[p] = tree[p]
      BY <1>3
    <2>3. touched \subseteq touched' /\ touched' \subseteq File
      BY <1>1 DEF TreeShape
    <2>4. /\ tree'[f] # Absent => ParentOpens(f)
          /\ tree'[f] # Absent => tree'[f] = tree[f]
      <3>1. tree'[f] = tree[f] \/ tree'[f] = Absent
        BY <2>1
      <3>2. tree[f] # Absent => ParentOpens(f)
        BY <1>1, <2>1 DEF TreeShape, ParentOpens, Above
      <3> QED
        BY <3>1, <3>2
    <2> QED
      BY <1>1, <2>2, <2>3, <2>4, ShapeWithAFile
  <1>5. Bounds(r)'
    <2>1. \A n \in 1..Len(run'[r].files) :
            n \in 1..Len(run[r].files) /\ run'[r].files[n] = run[r].files[n]
      BY <1>2
    <2> QED
      BY <1>1, <1>2, <2>1 DEF Bounds
  <1> QED
    BY <1>2, <1>4, <1>5, DirsUnmoved

(* A directory is only taken away when nothing is left below it. *)
LEMMA ShapeWithoutADir ==
  ASSUME ScaffoldTypes, TreeShape, NEW r \in Run, NEW d \in Dir,
         MadeBy(d, r), tree' = Removed(d), touched' = touched
  PROVE  /\ TreeShape' /\ OwnDirs(r)
         /\ \A q \in Path : tree'[q] = tree[q] \/ (q = d /\ tree'[q] = Absent)
         /\ MadeBy(d, r)' => ~IsEmpty(d)
  <1>1. /\ d \in Path /\ \A e \in Dir : e \in Path
        /\ tree \in [Path -> Node]
    BY DEF Path, ScaffoldTypes
  <1>2. Absent.kind = "absent" /\ Absent.by = User /\ r # User
        /\ DirBy(r) # Absent /\ DirBy(r).by = r /\ DirBy(r).kind = "dir"
    BY NodesDiffer
  <1>3. /\ \A q \in Path : tree'[q] = tree[q] \/ (q = d /\ tree'[q] = Absent)
        /\ ~IsEmpty(d) => tree' = tree
        /\ IsEmpty(d) => tree'[d] = Absent
    BY <1>1, <1>2, RemovedIs DEF MadeBy, IsDir
  <1>4. OwnDirs(r)
    BY <1>1, <1>2, <1>3 DEF OwnDirs, MadeBy
  <1>5. CASE ~IsEmpty(d)
    <2>1. TreeShape'
      BY <1>3, <1>5 DEF TreeShape, IsDir, MadeBy
    <2> QED
      BY <1>3, <1>4, <1>5, <2>1
  <1>6. CASE IsEmpty(d)
    <2>3. tree'[d] = Absent
      BY <1>3, <1>6
    <2>4. ASSUME NEW p \in Path, tree'[p] # Absent
          PROVE  p # d /\ tree'[p] = tree[p] /\ d \notin Above(p)
      <3>1. p # d /\ tree'[p] = tree[p]
        BY <1>3, <2>3, <2>4
      <3> SUFFICES ASSUME d \in Above(p) PROVE FALSE
        BY <3>1
      <3>2. PICK q \in Path : /\ q = p \/ q \in Above(p)
                              /\ Ancestors[q] # <<>> /\ Last(Ancestors[q]) = d
        BY AboveIsAChain
      <3>3. tree[q] = Absent
        BY <1>6, <3>2 DEF IsEmpty
      <3>4. tree[p] # Absent
        BY <2>4, <3>1
      <3>5. q \in Above(p)
        BY <3>2, <3>3, <3>4
      <3>6. IsDir(q)
        BY <3>4, <3>5 DEF TreeShape
      <3> QED
        BY <1>2, <3>3, <3>6 DEF IsDir
    <2>5. \A p \in Path : tree'[p] # Absent => \A e \in Above(p) : tree'[e] = tree[e]
      <3> SUFFICES ASSUME NEW p \in Path, tree'[p] # Absent, NEW e \in Above(p)
                   PROVE  tree'[e] = tree[e]
        OBVIOUS
      <3>1. e \in Path /\ e # d
        BY <2>4, AboveIsAChain
      <3> QED
        BY <1>3, <3>1
    <2>6. \A p \in Path : tree'[p] # Absent => \A e \in Above(p) : IsDir(e)'
      BY <2>4, <2>5 DEF TreeShape, IsDir
    <2>7. \A e \in Dir : tree'[e].by # User => MadeBy(e, tree[e].by)'
      BY <1>1, <1>2, <1>3 DEF TreeShape, MadeBy
    <2>8. \A p \in Path : tree'[p] # Absent /\ tree'[p].by = User =>
            p \in touched' \/ \A e \in Above(p) : tree'[e].by = User
      BY <2>4, <2>5 DEF TreeShape
    <2>9. TreeShape'
      BY <2>6, <2>7, <2>8 DEF TreeShape
    <2>10. ~MadeBy(d, r)'
      BY <1>2, <2>3 DEF MadeBy
    <2> QED
      BY <1>3, <1>4, <2>9, <2>10
  <1> QED
    BY <1>5, <1>6

(* When the last of its directories is not empty, and its files are gone,  *)
(* somebody else has come to use it, or the run has one below that it      *)
(* could not open, or something that it could not remove.                  *)
LEMMA WhyItStays ==
  ASSUME ScaffoldInvariant, DirsInvariant, NEW r \in Run, NEW d \in Dir,
         run[r].phase \in {"rollback", "remove"}, run[r].files = <<>>, run[r].dirs # <<>>,
         d = Last(run[r].dirs), MadeBy(d, r), ~IsEmpty(d)
  PROVE  CameToUse(d, r) \/ Excused(d, r)
  <1>1. /\ ScaffoldTypes /\ TreeShape
        /\ Listed(r) /\ DirsInOrder(r) /\ DirsAccounted(r)
    BY DEF ScaffoldInvariant, DirsInvariant
  <1>2. PICK p \in Path : Ancestors[p] # <<>> /\ Last(Ancestors[p]) = d /\ tree[p] # Absent
    BY DEF IsEmpty
  <1>3. d \in Above(p)
    <2>1. Ancestors[p] \in Seq(Dir)
      OBVIOUS
    <2>2. Last(Ancestors[p]) = Ancestors[p][Len(Ancestors[p])] /\ Len(Ancestors[p]) >= 1
          /\ Len(Ancestors[p]) \in Nat
      BY <1>2, <2>1, LastIsTaken
    <2> QED
      BY <1>2, <2>1, <2>2 DEF Above, ToSet
  <1>4. DirBy(r).by = r /\ r # User
    BY NodesDiffer
  <1>5. tree[p].by \in Run \cup {User}
    <2>1. tree[p] \in Node
      BY <1>1 DEF ScaffoldTypes
    <2> QED
      BY <2>1 DEF Node, Absent, DirBy, FileBy
  <1>6. ASSUME NEW f \in File, NEW s \in Run, s # r, Writes(s), run[s].status[f] = "create",
               d \in Above(f)
        PROVE  CameToUse(d, r)
    BY <1>6 DEF CameToUse, Writes, Above
  <1>7. CASE tree[p].by = User
    <2>1. p \in touched
      BY <1>1, <1>2, <1>3, <1>4, <1>7 DEF TreeShape, MadeBy
    <2> QED
      BY <1>1, <1>3, <2>1 DEF TreeShape, CameToUse, Above
  <1>8. CASE p \in File /\ tree[p].by # User
    <2>1. PICK s \in Run : s = tree[p].by
      BY <1>5, <1>8
    <2>2. tree[p].kind = "file" /\ Listed(s)
      BY <1>1, <1>2, <1>8, FilesOrNothing DEF ScaffoldInvariant
    <2>3. /\ Writes(s) /\ run[s].status[p] = "create"
          /\ \/ p \in run[s].unremoved
             \/ \E n \in 1..Len(run[s].files) : run[s].files[n] = p
      BY <1>8, <2>1, <2>2 DEF Listed, OnFileList, Writes
    <2>4. CASE s # r
      BY <1>3, <1>6, <1>8, <2>3, <2>4
    <2>5. CASE s = r
      <3>1. Len(run[r].files) = 0
        OBVIOUS
      <3>2. p \in run[r].unremoved
        BY <2>3, <2>5, <3>1
      <3> QED
        BY <1>3, <3>2 DEF Excused
    <2> QED
      BY <2>4, <2>5
  <1>9. CASE p \in Dir /\ tree[p].by # User
    <2>1. PICK s \in Run : s = tree[p].by /\ MadeBy(p, s)
      BY <1>1, <1>5, <1>9 DEF TreeShape
    <2>2. DirsAccounted(s)
      BY DEF DirsInvariant
    <2>3. Above(p) \subseteq Path /\ d \notin Above(d) /\ p # d
      BY <1>3, AboveIsAChain
    <2>4. ASSUME NEW q \in Path, p \in Above(q) PROVE d \in Above(q)
      BY <1>3, <2>4, AboveIsAChain
    <2>5. CASE s # r
      <3>1. PICK f \in File : run[s].status[f] = "create" /\ p \in Above(f)
        BY <1>9, <2>1, <2>2 DEF DirsAccounted
      <3>2. Writes(s)
        BY <1>9, <2>1, <2>2 DEF DirsAccounted
      <3>3. d \in Above(f)
        BY <2>4, <3>1 DEF Path
      <3> QED
        BY <1>6, <2>5, <3>1, <3>2, <3>3
    <2>6. CASE s = r
      <3>1. OnItsList(p, r) \/ CameToUse(p, r) \/ Excused(p, r)
        BY <1>1, <1>9, <2>1, <2>6 DEF DirsAccounted
      <3>2. ~OnItsList(p, r)
        <4> SUFFICES ASSUME NEW n \in 1..Len(run[r].dirs), run[r].dirs[n] = p PROVE FALSE
          BY DEF OnItsList
        <4>1. run[r].dirs \in Seq(Dir)
          BY <1>1 DEF ScaffoldTypes, RunRecord
        <4>2. /\ Len(run[r].dirs) \in Nat /\ Len(run[r].dirs) >= 1
              /\ d = run[r].dirs[Len(run[r].dirs)]
          BY <4>1, LastIsTaken
        <4>3. n # Len(run[r].dirs)
          BY <2>3, <4>2
        <4>4. n < Len(run[r].dirs) /\ Len(run[r].dirs) \in 1..Len(run[r].dirs)
          BY <4>2, <4>3
        <4>5. run[r].dirs[Len(run[r].dirs)] \notin Above(run[r].dirs[n])
          BY <1>1, <4>4 DEF DirsInOrder
        <4> QED
          BY <1>3, <4>2, <4>5
      <3>3. CASE CameToUse(p, r)
        <4>1. PICK f \in File :
                /\ p \in Above(f)
                /\ \/ f \in touched
                   \/ \E q \in Run \ {r} : Writes(q) /\ run[q].status[f] = "create"
          BY <3>3 DEF CameToUse, Writes, Above
        <4>2. d \in Above(f)
          BY <2>4, <4>1 DEF Path
        <4> QED
          BY <4>1, <4>2 DEF CameToUse, Writes, Above
      <3>4. CASE Excused(p, r)
        <4>1. PICK c \in Path :
                /\ (NotEntered(c, r) /\ ~OnItsList(c, r)) \/ c \in run[r].unremoved
                /\ p = c \/ p \in Above(c)
          BY <3>4 DEF Excused
        <4>2. d \in Above(c)
          BY <1>3, <2>4, <4>1
        <4> QED
          BY <4>1, <4>2 DEF Excused
      <3> QED
        BY <3>1, <3>2, <3>3, <3>4
    <2> QED
      BY <2>5, <2>6
  <1> QED
    BY <1>7, <1>8, <1>9 DEF Path

(* A directory leaves the list of the rollback, and is gone unless it has  *)
(* to stay or could not be removed.                                        *)
LEMMA DirsOfDirDropped ==
  ASSUME ScaffoldInvariant, DirsInvariant, NEW r \in Run, touched' = touched,
         run[r].phase \in {"rollback", "remove"}, run[r].files = <<>>, run[r].dirs # <<>>,
         NEW more, Drops(r, more), TreeShape', OwnDirs(r),
         \A q \in Path : tree'[q] = tree[q] \/ (q = Target(r) /\ tree'[q] = Absent),
         tree'[Target(r)] = DirBy(r) => ~IsEmpty(Target(r)) \/ more = {Target(r)}
  PROVE  DirsInvariant'
  <1>1. ScaffoldTypes /\ TreeShape /\ Bounds(r) /\ DirsInOrder(r) /\ DirsAccounted(r)
    BY DEF ScaffoldInvariant, DirsInvariant
  <1>2. PICK last \in Dir : last = Target(r) /\ last = Last(run[r].dirs)
    BY <1>1, TargetIsAPath DEF Target
  <1>3. /\ \A s \in Run : s # r => run'[s] = run[s]
        /\ run'[r].phase = "rollback" /\ run'[r].status = run[r].status
        /\ run'[r].next = run[r].next /\ run'[r].depth = run[r].depth
        /\ run'[r].unremoved = run[r].unremoved \cup more
        /\ run'[r].files = run[r].files
        /\ Len(run[r].dirs) \in Nat /\ Len(run[r].dirs) >= 1
        /\ Len(run'[r].dirs) = Len(run[r].dirs) - 1
        /\ \A n \in 1..(Len(run[r].dirs) - 1) : run'[r].dirs[n] = run[r].dirs[n]
        /\ last = run[r].dirs[Len(run[r].dirs)]
    BY <1>1, <1>2, Dropping
  <1>4. Bounds(r)'
    BY <1>1, <1>3 DEF Bounds
  <1>5. \A n \in 1..Len(run'[r].dirs) : n \in 1..Len(run[r].dirs) /\ run'[r].dirs[n] = run[r].dirs[n]
    BY <1>3
  <1>6. DirsInOrder(r)'
    BY <1>1, <1>3, <1>5 DEF DirsInOrder
  <1>7. DirsAccounted(r)'
    <2> SUFFICES ASSUME NEW d \in Dir, MadeBy(d, r)'
                 PROVE  /\ \E f \in File : run[r].status[f] = "create" /\ d \in Above(f)
                        /\ OnItsList(d, r)' \/ CameToUse(d, r)' \/ Excused(d, r)'
      BY <1>3 DEF DirsAccounted, Writes
    <2>1. MadeBy(d, r)
      <3>1. tree'[d] # Absent
        BY NodesDiffer DEF MadeBy
      <3> QED
        BY <3>1 DEF MadeBy, Path
    <2>2. /\ \E f \in File : run[r].status[f] = "create" /\ d \in Above(f)
          /\ OnItsList(d, r) \/ CameToUse(d, r) \/ Excused(d, r)
      BY <1>1, <2>1 DEF DirsAccounted
    <2>3. \A s \in Run : Writes(s) => Writes(s)' /\ run'[s].status = run[s].status
      BY <1>3 DEF Writes
    <2>4. CameToUse(d, r) => CameToUse(d, r)'
      BY <2>3, UsesGrow
    <2>5. \A c : OnItsList(c, r)' => OnItsList(c, r)
      BY <1>5 DEF OnItsList
    <2>6. OnItsList(last, r)
      <3>1. Len(run[r].dirs) \in 1..Len(run[r].dirs)
        BY <1>3
      <3> QED
        BY <1>3, <3>1 DEF OnItsList
    <2>7. Excused(d, r) => Excused(d, r)'
      <3> SUFFICES ASSUME NEW c \in Path,
                          (NotEntered(c, r) /\ ~OnItsList(c, r)) \/ c \in run[r].unremoved
                   PROVE  (NotEntered(c, r)' /\ ~OnItsList(c, r)') \/ c \in run'[r].unremoved
        BY DEF Excused
      <3>1. CASE c \in run[r].unremoved
        BY <1>3, <3>1
      <3>2. CASE NotEntered(c, r) /\ ~OnItsList(c, r)
        <4>1. c # last
          BY <2>6, <3>2
        <4>2. tree'[c] = tree[c]
          BY <1>2, <4>1
        <4> QED
          BY <1>3, <2>5, <3>2, <4>2 DEF NotEntered, Current, Component
      <3> QED
        BY <3>1, <3>2
    <2>8. CASE d = last /\ more # {last}
      <3>1. CameToUse(d, r) \/ Excused(d, r)
        BY <1>2, <2>1, <2>8, WhyItStays DEF MadeBy
      <3> QED
        BY <2>2, <2>4, <2>7, <3>1
    <2>9. CASE d = last /\ more = {last}
      <3>1. d \in run'[r].unremoved /\ d \in Path
        BY <1>3, <2>9 DEF Path
      <3> QED
        BY <2>2, <3>1 DEF Excused
    <2>10. CASE d # last
      <3>1. OnItsList(d, r) => OnItsList(d, r)'
        <4> SUFFICES ASSUME NEW n \in 1..Len(run[r].dirs), run[r].dirs[n] = d
                     PROVE  OnItsList(d, r)'
          BY DEF OnItsList
        <4>1. n # Len(run[r].dirs)
          BY <1>3, <2>10
        <4>2. n \in 1..Len(run'[r].dirs) /\ run'[r].dirs[n] = d
          BY <1>3, <4>1
        <4> QED
          BY <4>2 DEF OnItsList
      <3> QED
        BY <2>2, <2>4, <2>7, <3>1
    <2> QED
      BY <2>8, <2>9, <2>10
  <1>8. Writes(r) => Writes(r)' /\ run'[r].status = run[r].status
    BY <1>3 DEF Writes
  <1> QED
    BY <1>3, <1>4, <1>6, <1>7, <1>8, OneRunsDirs

(* What the rollback looks at is its own, and stays on its list, or is     *)
(* dropped.                                                                *)
LEMMA DirsOfLook ==
  ASSUME ScaffoldInvariant, DirsInvariant, NEW r \in Run, LookAtTarget(r)
  PROVE  DirsInvariant'
  <1>1. /\ ScaffoldTypes /\ TreeShape /\ Bounds(r)
        /\ run[r].phase = "rollback" /\ tree' = tree /\ touched' = touched
        /\ run[r].files # <<>> \/ run[r].dirs # <<>>
    BY DEF ScaffoldInvariant, DirsInvariant, LookAtTarget
  <1>2. PICK old \in RunRecord : old = run[r]
    BY <1>1 DEF ScaffoldTypes
  <1>3. TreeShape' /\ OwnDirs(r)
    BY <1>1, SameTree
  <1>4. CASE /\ SameFile(r, Target(r))
             /\ Becomes(r, [run[r] EXCEPT !.phase = "remove", !.found = tree[Target(r)].by])
    <2>1. tree[Target(r)].by = r /\ r \in Run \cup {User}
      BY <1>4 DEF SameFile
    <2>2. PICK record \in RunRecord : record = [old EXCEPT !.phase = "remove", !.found = r]
      BY <2>1 DEF RunRecord
    <2>3. /\ record.phase = "remove" /\ record.status = old.status /\ record.next = old.next
          /\ record.depth = old.depth /\ record.files = old.files /\ record.dirs = old.dirs
          /\ record.unremoved = old.unremoved
      BY <2>2 DEF RunRecord
    <2>4. Becomes(r, record)
      BY <1>2, <1>4, <2>1, <2>2
    <2>5. /\ \A s \in Run : s # r => run'[s] = run[s]
          /\ run'[r] = record
      BY <1>1, <2>4, OneRecordChanges
    <2>6. Bounds(r)'
      BY <1>1, <1>2, <2>3, <2>5 DEF Bounds
    <2> QED
      BY <1>1, <1>2, <1>3, <2>3, <2>5, <2>6, DirsUnmoved
  <1>5. ASSUME NEW more, Drops(r, more),
               more = {Target(r)} \/ ~SameFile(r, Target(r))
        PROVE  DirsInvariant'
    <2>1. CASE run[r].files # <<>>
      BY <1>1, <1>5, <2>1, DirsOfFileDropped
    <2>2. CASE run[r].files = <<>>
      <3>1. tree'[Target(r)] = DirBy(r) => SameFile(r, Target(r))
        BY <1>1, NodesDiffer DEF SameFile
      <3> QED
        BY <1>1, <1>3, <1>5, <2>2, <3>1, DirsOfDirDropped
    <2> QED
      BY <2>1, <2>2
  <1> QED
    BY <1>4, <1>5 DEF LookAtTarget, NotRemoved, Drops

(* What it removes is a file, or a directory of its own. *)
LEMMA DirsOfRemove ==
  ASSUME ScaffoldInvariant, DirsInvariant, NEW r \in Run, RemoveTarget(r)
  PROVE  DirsInvariant'
  <1>1. /\ ScaffoldTypes /\ TreeShape /\ tree \in [Path -> Node]
        /\ run[r].phase = "remove" /\ touched' = touched
        /\ run[r].files # <<>> \/ run[r].dirs # <<>>
        /\ tree[Target(r)].by = r \/ Target(r) \in touched
    BY DEF ScaffoldInvariant, ScaffoldTypes, DirsInvariant, RemoveTarget, Looked
  <1>2. Target(r) \in Path
    BY <1>1, TargetIsAPath
  <1>3. CASE NotRemoved(r) /\ tree' = tree
    <2>1. Drops(r, {Target(r)})
      BY <1>3 DEF NotRemoved, Drops
    <2>2. TreeShape' /\ OwnDirs(r)
      BY <1>1, <1>3, SameTree
    <2> QED
      BY <1>1, <1>3, <2>1, <2>2, DirsOfFileDropped, DirsOfDirDropped
  <1>4. CASE tree' = Removed(Target(r)) /\ Becomes(r, Dropped(r))
    <2>1. Drops(r, {})
      BY <1>4 DEF Drops
    <2>2. CASE run[r].files # <<>>
      <3>1. \A p \in Path : tree'[p] = tree[p] \/ (p = Target(r) /\ tree'[p] = Absent)
        BY <1>1, <1>2, <1>4, RemovedIs
      <3> QED
        BY <1>1, <2>1, <2>2, <3>1, DirsOfFileDropped
    <2>3. CASE run[r].files = <<>>
      <3>1. Target(r) \in Dir
        BY <1>1, <2>3, TargetIsAPath
      <3>2. Target(r) \notin touched
        BY <1>1, <3>1 DEF TreeShape
      <3>3. MadeBy(Target(r), r)
        <4>1. tree[Target(r)].by = r /\ r # User
          BY <1>1, <3>2
        <4> QED
          BY <1>1, <3>1, <4>1 DEF TreeShape
      <3>4. /\ TreeShape' /\ OwnDirs(r)
            /\ \A q \in Path : tree'[q] = tree[q] \/ (q = Target(r) /\ tree'[q] = Absent)
            /\ tree'[Target(r)] = DirBy(r) => ~IsEmpty(Target(r))
        <4>1. PICK d \in Dir : d = Target(r)
          BY <3>1
        <4>2. /\ TreeShape' /\ OwnDirs(r)
              /\ \A q \in Path : tree'[q] = tree[q] \/ (q = d /\ tree'[q] = Absent)
              /\ tree'[d] = DirBy(r) => ~IsEmpty(d)
          BY <1>1, <1>4, <3>3, <4>1, ShapeWithoutADir DEF MadeBy
        <4> QED
          BY <4>1, <4>2
      <3> QED
        BY <1>1, <2>1, <2>3, <3>4, DirsOfDirDropped
    <2> QED
      BY <2>2, <2>3
  <1> QED
    BY <1>3, <1>4 DEF RemoveTarget

(* The user changes one file, and it counts as touched. *)
LEMMA DirsOfUser ==
  ASSUME ScaffoldInvariant, DirsInvariant, UserSteps
  PROVE  DirsInvariant'
  <1>1. ScaffoldTypes /\ TreeShape
    BY DEF ScaffoldInvariant, DirsInvariant
  <1>2. PICK f \in File :
          /\ run' = run /\ touched' = touched \cup {f}
          /\ \A p \in Path : p # f => tree'[p] = tree[p]
          /\ tree'[f] # Absent => ParentOpens(f)
    <2>1. PICK f \in File : \/ UserRemoves(f)
                            \/ \E bytes \in {"template", "other"} :
                                  UserWrites(f, bytes) \/ UserEdits(f, bytes)
      BY DEF UserSteps
    <2>2. \A p \in Path : p # f => tree'[p] = tree[p]
      BY <1>1, <2>1 DEF ScaffoldTypes, UserRemoves, UserWrites, UserEdits
    <2>3. tree'[f] # Absent => ParentOpens(f)
      <3>1. CASE UserRemoves(f)
        BY <1>1, <3>1 DEF ScaffoldTypes, UserRemoves, Path
      <3>2. CASE \E bytes \in {"template", "other"} : UserWrites(f, bytes)
        BY <3>2 DEF UserWrites
      <3>3. CASE \E bytes \in {"template", "other"} : UserEdits(f, bytes)
        <4>1. tree[f] # Absent /\ f \in Path
          BY <3>3 DEF UserEdits, Absent, Path
        <4> QED
          BY <1>1, <4>1 DEF TreeShape, ParentOpens, Above
      <3> QED
        BY <2>1, <3>1, <3>2, <3>3
    <2> QED
      BY <2>1, <2>2, <2>3 DEF UserRemoves, UserWrites, UserEdits
  <1>3. TreeShape' /\ \A d \in Dir : tree'[d] = tree[d]
    <2>1. touched \subseteq touched' /\ touched' \subseteq File /\ f \in touched'
      BY <1>1, <1>2 DEF TreeShape
    <2> QED
      BY <1>1, <1>2, <2>1, ShapeWithAFile
  <1>4. ASSUME NEW s \in Run PROVE Bounds(s)' /\ DirsInOrder(s)' /\ DirsAccounted(s)'
    <2>1. \A d \in Dir : MadeBy(d, s)' <=> MadeBy(d, s)
      BY <1>3 DEF MadeBy
    <2>2. Bounds(s) /\ DirsInOrder(s) /\ DirsAccounted(s)
      BY DEF DirsInvariant
    <2>3. \A q \in Run : Writes(q) => Writes(q)' /\ run'[q].status = run[q].status
      BY <1>2 DEF Writes
    <2>4. touched \subseteq touched' /\ run'[s] = run[s]
      BY <1>2
    <2> QED
      BY <1>1, <2>1, <2>2, <2>3, <2>4, OthersStay
  <1> QED
    BY <1>3, <1>4 DEF DirsInvariant

(* At first everything is the user's, and lies in directories. *)
LEMMA DirsInit ==
  ASSUME Init
  PROVE  DirsInvariant
  <1>1. /\ tree \in [Path -> {Absent, DirBy(User), FileBy(User, "template"),
                              FileBy(User, "other")}]
        /\ \A p \in Path : tree[p] # Absent => \A d \in ToSet(Ancestors[p]) : tree[d] = DirBy(User)
        /\ run = [r \in Run |-> NewRun] /\ touched = {}
    BY DEF Init, InitialTree
  <1>2. \A p \in Path : tree[p].by = User
    BY <1>1 DEF Absent, DirBy, FileBy
  <1>3. TreeShape
    <2>1. \A d \in Dir : d \in Path
      BY DEF Path
    <2>2. \A p \in Path : \A d \in Above(p) : d \in Path
      BY AboveIsAChain
    <2>3. DirBy(User).kind = "dir"
      BY DEF DirBy
    <2> QED
      BY <1>1, <1>2, <2>1, <2>2, <2>3 DEF TreeShape, IsDir, Above
  <1>4. ASSUME NEW r \in Run PROVE Bounds(r) /\ DirsInOrder(r) /\ DirsAccounted(r)
    <2>1. run[r] = NewRun
      BY <1>1
    <2>2. /\ NewRun.phase = "plan" /\ NewRun.next = 1
          /\ NewRun.files = <<>> /\ NewRun.dirs = <<>>
      BY DEF NewRun
    <2>3. Len(Files[r]) \in Nat
      OBVIOUS
    <2>4. Bounds(r)
      BY <2>1, <2>2, <2>3 DEF Bounds
    <2>5. DirsInOrder(r)
      BY <2>1, <2>2 DEF DirsInOrder
    <2>6. DirsAccounted(r)
      <3>1. DirBy(r).by # User
        BY NodesDiffer
      <3>2. \A d \in Dir : ~MadeBy(d, r)
        BY <1>2, <3>1 DEF MadeBy, Path
      <3> QED
        BY <3>2 DEF DirsAccounted
    <2> QED
      BY <2>4, <2>5, <2>6
  <1> QED
    BY <1>3, <1>4 DEF DirsInvariant

(* Every step preserves what is said of the directories. *)
LEMMA DirsStep ==
  ASSUME ScaffoldInvariant, DirsInvariant, [Next]_vars
  PROVE  DirsInvariant'
  <1>1. CASE UserSteps
    BY <1>1, DirsOfUser
  <1>2. CASE \E r \in Run : RunSteps(r)
    <2>1. PICK r \in Run : RunSteps(r)
      BY <1>2
    <2>2. CASE (\E dryRun \in BOOLEAN : Plan(r, dryRun)) \/ Compare(r) \/ Stage(r)
      BY <2>2, DirsPlanned
    <2>3. CASE SkipUnchanged(r) \/ EnterDirectory(r) \/ Commit(r) \/ CallFails(r) \/ Kill(r)
      BY <2>3, DirsKept
    <2>4. CASE MakeDirectory(r)
      BY <2>4, DirsMade
    <2>5. CASE Link(r)
      BY <2>5, DirsOfLink
    <2>6. CASE LookAtTarget(r) \/ RemoveTarget(r) \/ RollBackEnds(r)
      BY <2>6, DirsOfLook, DirsOfRemove, DirsKept
    <2> QED
      BY <2>1, <2>2, <2>3, <2>4, <2>5, <2>6 DEF RunSteps
  <1>3. CASE UNCHANGED vars
    <2>1. tree' = tree /\ run' = run /\ touched' = touched
      BY <1>3 DEF vars
    <2>2. ScaffoldTypes
      BY DEF ScaffoldInvariant
    <2>3. TreeShape'
      BY <2>1 DEF DirsInvariant, TreeShape, IsDir, MadeBy
    <2>4. ASSUME NEW s \in Run PROVE Bounds(s)' /\ DirsInOrder(s)' /\ DirsAccounted(s)'
      <3>1. \A d \in Dir : MadeBy(d, s)' <=> MadeBy(d, s)
        BY <2>1 DEF MadeBy
      <3>2. Bounds(s) /\ DirsInOrder(s) /\ DirsAccounted(s)
        BY DEF DirsInvariant
      <3>3. \A q \in Run : Writes(q) => Writes(q)' /\ run'[q].status = run[q].status
        BY <2>1 DEF Writes
      <3>4. touched \subseteq touched' /\ run'[s] = run[s]
        BY <2>1
      <3> QED
        BY <2>2, <3>1, <3>2, <3>3, <3>4, OthersStay
    <2> QED
      BY <2>3, <2>4 DEF DirsInvariant
  <1> QED
    BY <1>1, <1>2, <1>3 DEF Next

LEMMA DirsInvariantHolds == Spec => []DirsInvariant
  <1>1. Init => DirsInvariant
    BY DirsInit
  <1>2. ScaffoldInvariant /\ DirsInvariant /\ [Next]_vars => DirsInvariant'
    BY DirsStep
  <1> QED
    BY <1>1, <1>2, ScaffoldInvariantHolds, PTL DEF Spec

(* A run that ends with an error has left no file of its own behind,       *)
(* except one that it failed to remove, and no directory but those that    *)
(* somebody else came to use, the one it could not open and those in which *)
(* something could not be removed, with the directories above these.       *)
THEOREM FailedRunsCleanUp == Spec => []FailedRunCleansUp
  <1>1. ScaffoldInvariant /\ DirsInvariant => FailedRunCleansUp
    <2> SUFFICES ASSUME ScaffoldInvariant, DirsInvariant, NEW r \in Run,
                        run[r].phase \in {"failed", "conflict", "previewed"}
                 PROVE  /\ \A f \in File : \/ tree[f] = Absent \/ tree[f].by # r
                                           \/ f \in run[r].unremoved
                        /\ \A d \in Dir : tree[d] = DirBy(r) =>
                              \/ CameToUse(d, r)
                              \/ \E c \in Path : /\ NotEntered(c, r) \/ c \in run[r].unremoved
                                                 /\ d = c \/ d \in ToSet(Ancestors[c])
      BY DEF FailedRunCleansUp
    <2>1. ASSUME NEW f \in File, tree[f] # Absent, tree[f].by = r, f \notin run[r].unremoved
          PROVE  FALSE
      <3>1. ScaffoldTypes /\ Listed(r)
        BY DEF ScaffoldInvariant
      <3>2. tree[f].kind = "file"
        BY <2>1, <3>1, FilesOrNothing
      <3> QED
        BY <2>1, <3>1, <3>2 DEF Listed
    <2>2. ASSUME NEW d \in Dir, tree[d] = DirBy(r)
          PROVE  \/ CameToUse(d, r)
                 \/ \E c \in Path : /\ NotEntered(c, r) \/ c \in run[r].unremoved
                                    /\ d = c \/ d \in ToSet(Ancestors[c])
      <3>1. Writes(r) /\ (run[r].phase = "failed" =>
                            OnItsList(d, r) \/ CameToUse(d, r) \/ Excused(d, r))
        BY <2>2 DEF DirsInvariant, DirsAccounted, MadeBy
      <3>2. run[r].phase = "failed"
        BY <3>1 DEF Writes
      <3>3. run[r].dirs = <<>> /\ Len(run[r].dirs) = 0
        BY <3>2 DEF DirsInvariant, DirsInOrder
      <3>4. ~OnItsList(d, r)
        BY <3>3 DEF OnItsList
      <3> QED
        BY <3>1, <3>2, <3>4 DEF Excused, Above
    <2> QED
      BY <2>1, <2>2
  <1> QED
    BY <1>1, ScaffoldInvariantHolds, DirsInvariantHolds, PTL

(* Every variable has its declared shape, and what exists lies in          *)
(* directories that exist.                                                 *)
THEOREM ScaffoldTypeCorrect == Spec => []TypeOK
  <1>1. ScaffoldInvariant /\ DirsInvariant => TypeOK
    <2> SUFFICES ASSUME ScaffoldInvariant, DirsInvariant PROVE TypeOK
      OBVIOUS
    <2>1. /\ tree \in [Path -> Node] /\ touched \subseteq File
          /\ \A p \in Path : tree[p] # Absent => ParentOpens(p)
      BY DEF ScaffoldInvariant, ScaffoldTypes, DirsInvariant, TreeShape, ParentOpens, Above
    <2>2. ASSUME NEW r \in Run
          PROVE  /\ run[r].phase \in {"plan", "previewed", "compare", "conflict", "enter",
                                      "make", "rollback", "remove", "done", "failed", "killed"}
                 /\ \A f \in File :
                       run[r].status[f] \in {"unknown", "create", "unchanged", "conflict"}
                 /\ run[r].next \in 1..(Len(Files[r]) + 1)
                 /\ ToSet(run[r].files) \subseteq ToSet(Files[r])
                 /\ ToSet(run[r].dirs) \subseteq Dir
                 /\ run[r].found \in Run \cup {User}
                 /\ run[r].unremoved \subseteq Path
      <3>1. PICK old \in RunRecord : old = run[r]
        BY DEF ScaffoldInvariant, ScaffoldTypes
      <3>2. Progress(r) /\ Bounds(r)
        BY DEF ScaffoldInvariant, DirsInvariant
      <3>3. /\ old.phase \in {"plan", "previewed", "compare", "conflict", "enter",
                              "make", "rollback", "remove", "done", "failed", "killed"}
            /\ \A f \in File :
                  old.status[f] \in {"unknown", "create", "unchanged", "conflict"}
            /\ old.next \in Nat /\ old.files \in Seq(File) /\ old.dirs \in Seq(Dir)
            /\ old.found \in Run \cup {User} /\ old.unremoved \subseteq Path
        BY DEF RunRecord
      <3>4. old.next \in 1..(Len(Files[r]) + 1)
        BY <3>1, <3>2, <3>3 DEF Progress, Bounds
      <3>5. ToSet(old.files) \subseteq ToSet(Files[r])
        <4> SUFFICES ASSUME NEW f \in ToSet(old.files) PROVE f \in ToSet(Files[r])
          OBVIOUS
        <4>1. PICK n \in 1..Len(old.files) : f = old.files[n]
          BY <3>3 DEF ToSet
        <4> QED
          BY <3>1, <3>2, <4>1 DEF Bounds
      <3>6. ToSet(old.dirs) \subseteq Dir
        BY <3>3 DEF ToSet
      <3> QED
        BY <3>1, <3>3, <3>4, <3>5, <3>6
    <2> QED
      BY <2>1, <2>2 DEF TypeOK
  <1> QED
    BY <1>1, ScaffoldInvariantHolds, DirsInvariantHolds, PTL

(* When a run has succeeded, all its files are in place, except what the   *)
(* user has changed, or what it found and its creator rolled back.         *)
THEOREM SuccessesAreComplete == Spec => []SuccessIsComplete
  <1>1. ScaffoldInvariant => SuccessIsComplete
    <2> SUFFICES ASSUME ScaffoldInvariant, NEW r \in Run, run[r].phase = "done",
                        NEW f \in ToSet(Files[r])
                 PROVE  \/ tree[f] # Absent /\ tree[f].bytes = "template"
                        \/ f \in touched
                        \/ /\ run[r].status[f] = "unchanged"
                           /\ \E s \in Run \ {r} :
                                 /\ run[s].phase \in {"rollback", "remove", "failed", "killed"}
                                 /\ run[s].status[f] = "create"
      BY DEF SuccessIsComplete
    <2>1. PICK n \in 1..Len(Files[r]) : f = Files[r][n] /\ f \in File
      BY FilesAreFiles DEF ToSet
    <2>2. ScaffoldTypes /\ Progress(r) /\ Found(r) /\ Created(r)
      BY DEF ScaffoldInvariant
    <2>3. InPlace(f) => tree[f] # Absent /\ tree[f].bytes = "template"
      BY DEF InPlace, Absent
    <2>4. run[r].status[f] \in {"create", "unchanged"} /\ n < run[r].next
      BY <2>1, <2>2 DEF Progress, ScaffoldTypes, RunRecord
    <2>5. CASE run[r].status[f] = "create"
      BY <2>1, <2>2, <2>3, <2>4, <2>5 DEF Created
    <2>6. CASE run[r].status[f] = "unchanged"
      BY <2>1, <2>2, <2>3, <2>6 DEF Found, GivesUp
    <2> QED
      BY <2>4, <2>5, <2>6
  <1> QED
    BY <1>1, ScaffoldInvariantHolds, PTL

(* No step of a run changes what the user put there, unless it is about to *)
(* remove that, having found a file of its own: the user has saved into    *)
(* it, or has put another in its place since.                              *)
THEOREM UserFilesAreUntouched == Spec => UserFilesUntouched
  <1>1. ScaffoldInvariant /\ [Next]_vars =>
          [UserSteps \/ \A p \in Path :
             IsUsers(p) => tree'[p] = tree[p] \/ \E r \in Run : TakenForOwn(p, r)]_vars
    <2> SUFFICES ASSUME ScaffoldInvariant, NEW r \in Run, RunSteps(r),
                        NEW p \in Path, IsUsers(p)
                 PROVE  tree'[p] = tree[p] \/ TakenForOwn(p, r)
      BY DEF Next
    <2>0. tree \in [Path -> Node] /\ tree[p] # Absent
      BY DEF ScaffoldInvariant, ScaffoldTypes, IsUsers
    <2>1. CASE tree' = tree
      BY <2>1
    <2>2. CASE MakeDirectory(r)
      BY <2>0, <2>2 DEF MakeDirectory
    <2>3. CASE Link(r)
      BY <2>0, <2>3 DEF Link
    <2>4. CASE RemoveTarget(r)
      <3>1. run[r].phase = "remove" /\ Looked(r) /\ ScaffoldTypes
        BY <2>4 DEF RemoveTarget, ScaffoldInvariant
      <3>2. run[r].found = r /\ Target(r) \in Path
        BY <3>1, TargetIsAPath DEF Looked
      <3>3. p = Target(r) => TakenForOwn(p, r)
        BY <3>1, <3>2 DEF TakenForOwn
      <3>4. p # Target(r) => tree'[p] = tree[p]
        BY <2>0, <2>4, <3>2, RemovedIs DEF RemoveTarget
      <3> QED
        BY <3>3, <3>4
    <2> QED
      BY <2>1, <2>2, <2>3, <2>4
      DEF RunSteps, Plan, Compare, Stage,
          SkipUnchanged, EnterDirectory, Commit, CallFails,
          LookAtTarget, RollBackEnds, Kill
  <1> QED
    BY <1>1, ScaffoldInvariantHolds, PTL DEF Spec, UserFilesUntouched
================================================================================
