----------------------------- MODULE LocalInstall ------------------------------
(***************************************************************************)
(* scripts/local-install.sh: the installation of the binary, the package   *)
(* and the skill over a former one, command by command, where any command  *)
(* may fail, a signal may arrive between any two, and the script may be    *)
(* killed outright, in its clean-up too.                                   *)
(*                                                                         *)
(* A place holds nothing or a version: 0 for what was there at first, n    *)
(* for what the n-th run installs.  A move is a rename within one          *)
(* directory tree and takes place or not; a removal that fails is taken to *)
(* have removed nothing.  The parent directories that mkdir -p makes, and  *)
(* nothing removes again, are left out.  Nobody else writes to the places  *)
(* while the script runs: it takes no lock, and two runs at the same time  *)
(* are outside this model.                                                 *)
(***************************************************************************)
EXTENDS Integers, Sequences, SequencesExt

CONSTANTS
    None,
    MaxRuns         \* bound on the runs of the script

ASSUME InstallAssumption == MaxRuns \in Nat /\ None \notin Nat

Installed == <<"binary", "package", "skill">>
Legacy == <<"legacyBinary", "legacyPackage", "legacySkill">>
Item == ToSet(Installed \o Legacy)

VARIABLES
    phase, at,              \* what the script does, and with which item
    version,                \* the number of the run
    place,                  \* per item: what is installed
    backup,                 \* per item: what this run moved away
    stages,                 \* the items with a staged copy
    reserved,               \* the items whose backup path mktemp has just made
    backupIntent,           \* the items the script may have moved away
    placeIntent,            \* the items the script may have put in place
    committed,
    warned,                 \* backups that could not be removed
    before                  \* what was installed when the run began

installVars == <<phase, at, version, place, backup, stages, reserved, backupIntent,
                 placeIntent, committed, warned, before>>

disk == <<place, backup, stages, reserved>>
intents == <<backupIntent, placeIntent, committed>>
runVars == <<version, before, warned>>

Nothing == [i \in Item |-> None]

InstallInit ==
    /\ phase = "idle" /\ at = 1 /\ version = 0
    /\ place \in [Item -> {0, None}]
    /\ backup = Nothing /\ stages = {} /\ reserved = {}
    /\ backupIntent = {} /\ placeIntent = {} /\ committed = FALSE
    /\ warned = {}
    /\ before = place

Over == phase \in {"idle", "exited", "aborted", "killed"}

Goes(where) == phase' = where /\ at' = 1
GoesOn(items, next) == IF at < Len(items) THEN phase' = phase /\ at' = at + 1 ELSE Goes(next)

--------------------------------------------------------------------------------
(* The script up to its commit *)

(* The staging paths are made, and then the traps are set.  A failure      *)
(* before that leaves the staging paths made so far.                       *)
Begin ==
    /\ Over /\ version < MaxRuns
    /\ \E made \in {SubSeq(Installed, 1, n) : n \in 0..3} :
          /\ stages' = ToSet(made)
          /\ Goes(IF Len(made) = 3 THEN "staging" ELSE "killed")
    /\ version' = version + 1
    /\ before' = place
    /\ backup' = Nothing /\ reserved' = {} /\ warned' = {}
    /\ backupIntent' = {} /\ placeIntent' = {} /\ committed' = FALSE
    /\ UNCHANGED place

(* The copies are made and found complete. *)
StageCopies ==
    /\ phase = "staging"
    /\ Goes("backup")
    /\ UNCHANGED <<disk, intents, runVars>>

ToBackUp == (Installed \o Legacy)[at]

SkipBackup ==
    /\ phase = "backup"
    /\ place[ToBackUp] = None
    /\ GoesOn(Installed \o Legacy, "place")
    /\ UNCHANGED <<disk, intents, runVars>>

(* mktemp picks the name of the backup and leaves an empty one there ...   *)
ReserveBackup ==
    /\ phase = "backup"
    /\ place[ToBackUp] # None /\ ToBackUp \notin backupIntent \cup reserved
    /\ reserved' = reserved \cup {ToBackUp}
    /\ UNCHANGED <<phase, at, place, backup, stages, intents, runVars>>

(* ... which makes way for the real one.                                   *)
IntendBackup ==
    /\ phase = "backup"
    /\ ToBackUp \in reserved
    /\ reserved' = reserved \ {ToBackUp}
    /\ backupIntent' = backupIntent \cup {ToBackUp}
    /\ UNCHANGED <<phase, at, place, backup, stages, placeIntent, committed, runVars>>

MoveToBackup ==
    /\ phase = "backup"
    /\ ToBackUp \in backupIntent /\ place[ToBackUp] # None
    /\ backup' = [backup EXCEPT ![ToBackUp] = place[ToBackUp]]
    /\ place' = [place EXCEPT ![ToBackUp] = None]
    /\ UNCHANGED <<phase, at, stages, reserved, intents, runVars>>

ToPlace == Installed[at]

IntendPlace ==
    /\ phase = "place"
    /\ ToPlace \notin placeIntent
    /\ placeIntent' = placeIntent \cup {ToPlace}
    /\ UNCHANGED <<phase, at, disk, backupIntent, committed, runVars>>

MoveIntoPlace ==
    /\ phase = "place"
    /\ ToPlace \in placeIntent
    /\ place' = [place EXCEPT ![ToPlace] = version]
    /\ stages' = stages \ {ToPlace}
    /\ GoesOn(Installed, "verify")
    /\ UNCHANGED <<backup, reserved, intents, runVars>>

(* Slip: what was put in place is removed whether committed or not. *)
CommitThenUnplace ==
    /\ phase = "verify"
    /\ committed' = TRUE
    /\ Goes("unplace")
    /\ UNCHANGED <<disk, backupIntent, placeIntent, runVars>>

(* The package in place is complete, and the script reaches its end. *)
CommitInstall ==
    /\ phase = "verify"
    /\ committed' = TRUE
    /\ Goes("unstage")
    /\ UNCHANGED <<disk, backupIntent, placeIntent, runVars>>

(* A command or a check fails, or HUP, INT or TERM arrives. *)
Interrupted ==
    /\ phase \in {"staging", "backup", "place", "verify"}
    /\ Goes("unplace")
    /\ UNCHANGED <<disk, intents, runVars>>

--------------------------------------------------------------------------------
(* cleanup: with the traps reset and errexit still set, a command that     *)
(* fails ends it on the spot.                                              *)

(* Slip: what is in place is removed whoever put it there. *)
UnplaceAnything ==
    LET item == Reverse(Installed)[at]
    IN  /\ phase = "unplace"
        /\ place' = [place EXCEPT ![item] = None]
        /\ GoesOn(Installed, "restore")
        /\ UNCHANGED <<backup, stages, reserved, intents, runVars>>

(* What the script may have put in place is removed. *)
Unplace ==
    LET item == Reverse(Installed)[at]
    IN  /\ phase = "unplace"
        /\ place' = IF item \in placeIntent THEN [place EXCEPT ![item] = None] ELSE place
        /\ GoesOn(Installed, "restore")
        /\ UNCHANGED <<backup, stages, reserved, intents, runVars>>

(* Slip: only what was about to be replaced is put back. *)
RestoreReplaced ==
    LET item == (Reverse(Installed) \o Reverse(Legacy))[at]
    IN  /\ phase = "restore"
        /\ IF item \in placeIntent /\ backup[item] # None /\ place[item] = None
           THEN /\ place' = [place EXCEPT ![item] = backup[item]]
                /\ backup' = [backup EXCEPT ![item] = None]
           ELSE UNCHANGED <<place, backup>>
        /\ GoesOn(Installed \o Legacy, "unstage")
        /\ UNCHANGED <<stages, reserved, intents, runVars>>

(* restore_backup: what was moved away is put back. *)
Restore ==
    LET item == (Reverse(Installed) \o Reverse(Legacy))[at]
    IN  /\ phase = "restore"
        /\ IF item \in backupIntent /\ backup[item] # None /\ place[item] = None
           THEN /\ place' = [place EXCEPT ![item] = backup[item]]
                /\ backup' = [backup EXCEPT ![item] = None]
           ELSE UNCHANGED <<place, backup>>
        /\ GoesOn(Installed \o Legacy, "unstage")
        /\ UNCHANGED <<stages, reserved, intents, runVars>>

(* The staged copies are removed. *)
Unstage ==
    /\ phase = "unstage"
    /\ stages' = stages \ {Installed[at]}
    /\ GoesOn(Installed, "discard")
    /\ UNCHANGED <<place, backup, reserved, intents, runVars>>

(* The backups are removed if the run is committed; one that cannot be is  *)
(* warned about.  Otherwise the empty ones go that mktemp left; what was   *)
(* put back is none, and what could not be stays.                          *)
Discard ==
    LET item == (Installed \o Legacy)[at]
    IN  /\ phase = "discard"
        /\ \/ /\ backup' = IF committed THEN [backup EXCEPT ![item] = None] ELSE backup
              /\ reserved' = IF item \in backupIntent THEN reserved ELSE reserved \ {item}
              /\ UNCHANGED warned
           \/ /\ committed /\ backup[item] # None
              /\ warned' = warned \cup {item}
              /\ UNCHANGED <<backup, reserved>>
        /\ GoesOn(Installed \o Legacy, "exited")
        /\ UNCHANGED <<place, stages, intents, version, before>>

CleanupFails ==
    /\ \/ phase \in {"unplace", "restore", "unstage"}
       \/ phase = "discard" /\ ~committed /\ (Installed \o Legacy)[at] \in reserved
    /\ Goes("aborted")
    /\ UNCHANGED <<disk, intents, runVars>>

(* The script is killed, or a second signal hits its clean-up. *)
KillScript ==
    /\ ~Over
    /\ Goes("killed")
    /\ UNCHANGED <<disk, intents, runVars>>

(* `local-install.sh uninstall`: errexit ends it if the binary cannot be   *)
(* removed; one rm removes the package and the skill, either though it     *)
(* cannot remove the other.                                                *)
Uninstall ==
    /\ Over
    /\ \E gone \in {{}} \cup {{"binary"} \cup more : more \in SUBSET {"package", "skill"}} :
          place' = [i \in Item |-> IF i \in gone THEN None ELSE place[i]]
    /\ before' = place'
    /\ Goes("idle")
    /\ committed' = FALSE
    /\ UNCHANGED <<backup, stages, reserved, backupIntent, placeIntent, version, warned>>

--------------------------------------------------------------------------------
InstallNext ==
    \/ Begin \/ StageCopies
    \/ SkipBackup \/ ReserveBackup \/ IntendBackup \/ MoveToBackup
    \/ IntendPlace \/ MoveIntoPlace
    \/ CommitInstall \/ Interrupted
    \/ Unplace \/ Restore \/ Unstage \/ Discard \/ CleanupFails
    \/ KillScript \/ Uninstall

InstallSpec == InstallInit /\ [][InstallNext]_installVars

--------------------------------------------------------------------------------
(* A run that fails or is interrupted anywhere before its commit, and      *)
(* whose clean-up gets through, leaves every place, the three legacy ones  *)
(* too, as it found it, with no staged copy and no backup, full or empty,  *)
(* beside it (cleanup reads intents that are set before each move, so it   *)
(* need not know whether the move took place).                             *)
FailedInstallChangesNothing ==
    phase = "exited" /\ ~committed =>
        place = before /\ backup = Nothing /\ stages = {} /\ reserved = {}

(* At no instant before the commit is the former version of anything lost, *)
(* even if the script is killed or its clean-up breaks off: it is in its   *)
(* place or in its backup.                                                 *)
FormerVersionSurvives ==
    ~committed => \A i \in Item : before[i] # None => before[i] \in {place[i], backup[i]}

(* A committed run has put all three items in place, each in this version, *)
(* and moved the legacy ones away; when it has exited, a backup is left    *)
(* only where a warning says so.                                           *)
CommittedInstallIsComplete ==
    committed =>
        /\ \A i \in ToSet(Installed) : place[i] = version
        /\ \A i \in ToSet(Legacy) : place[i] = None
        /\ phase = "exited" => /\ stages = {} /\ reserved = {}
                              /\ \A i \in Item : backup[i] # None => i \in warned
================================================================================
