--------------------------- MODULE RecordingCommands ---------------------------
(***************************************************************************)
(* The commands `recording start` and `recording stop` of the CLI, run     *)
(* from several shells against one App: every command is a sequence of     *)
(* HTTP requests on connections of their own, each of which may be lost    *)
(* before or after the App handled it.  A command that gives up (deadline, *)
(* broken connection, a killed process) leaves its last request to the     *)
(* App.  The App is seen through its recording routes: the phases of       *)
(* RecordingService and the completed recordings with their creation       *)
(* instants, to which cleanup() applies RetentionRule.                     *)
(*                                                                         *)
(* A removal by the retention rule may fail, and is tried again with the   *)
(* next cleanup(); metadata left without a movie, which the rule then      *)
(* counts, belong to RecordingController and are left out.                 *)
(*                                                                         *)
(* `recording status` changes nothing here and is left out.  Of `request`, *)
(* which sends a GET or a HEAD, a read of a recording matters, because it  *)
(* begins with a cleanup().                                                *)
(***************************************************************************)
EXTENDS RetentionRule

CONSTANTS
    None,
    Recording,      \* identifiers
    Shell,          \* the shells that run commands, one at a time each
    MaxClock,       \* bound on the App's clock
    MaxRestarts     \* bound on the App's restarts

ASSUME CommandsAssumption ==
    /\ Recording \subseteq Nat
    /\ None \notin Recording
    /\ None \notin Int
    /\ MaxClock \in Nat
    /\ MaxRestarts \in Nat

VARIABLES
    clock,      \* the App's clock
    phase,      \* the phase of the App's recording state machine
    current,    \* the recording a ready machine offers
    createdAt,  \* completed recordings on the device -> createdAt
    stoppedAt,  \* when the running stop was requested
    used,       \* identifiers drawn
    restarts,   \* restarts so far
    request,    \* per shell: the request it has with the App
    command,    \* per shell: the command it runs
    local,      \* per recording: the file at the command's destination
    aged        \* recordings that the retention rule removed

appVars == <<phase, current, createdAt, stoppedAt, used, aged>>
shellVars == <<request, command, local>>
vars == <<appVars, shellVars, clock, restarts>>

NoRequest == [op |-> "none", id |-> None, state |-> "none"]

(* step is the call of the command that waits for its answer; exit and     *)
(* deleted are what the last command printed.                              *)
NoCommand == [step |-> "none", id |-> None, exit |-> "none", deleted |-> FALSE]

Init ==
    /\ clock = 0 /\ restarts = 0
    /\ phase = "idle" /\ current = None
    /\ createdAt = [r \in {} |-> 0]
    /\ stoppedAt = None
    /\ used = {}
    /\ request = [s \in Shell |-> NoRequest]
    /\ command = [s \in Shell |-> NoCommand]
    /\ local = [r \in Recording |-> "none"]
    /\ aged = {}

--------------------------------------------------------------------------------
(* The App *)

Stored == DOMAIN createdAt

Without(gone) == [r \in Stored \ gone |-> createdAt[r]]

(* What the rule removes, and the sets of it whose removal may succeed. *)
Expiring == ToDelete(clock, createdAt)

Removals == SUBSET Expiring

(* The recordings in `gone` go by the rule, those in `removed` on request. *)
Remove(gone, removed) ==
    /\ createdAt' = Without(gone \cup removed)
    /\ aged' = aged \cup gone

Answer(s, answer) == request' = [request EXCEPT ![s].state = answer]

Asked(s, op) == request[s].op = op /\ request[s].state = "sent"

(* POST /v1/recording/start: refused, or accepted with a cleanup *)
HandleStart(s) ==
    /\ Asked(s, "start")
    /\ IF phase \in {"idle", "failed"}
       THEN /\ phase' = "starting"
            /\ \E gone \in Removals : Remove(gone, {})
            /\ Answer(s, "running")
       ELSE Answer(s, "error") /\ UNCHANGED <<phase, createdAt, aged>>
    /\ UNCHANGED <<current, stoppedAt, used, command, local, clock, restarts>>

FinishStart(s) ==
    /\ request[s].op = "start" /\ request[s].state = "running"
    /\ \/ phase' = "recording" /\ Answer(s, "ok")
       \/ phase' = "failed" /\ Answer(s, "error")
    /\ UNCHANGED <<current, createdAt, stoppedAt, used, aged, command, local, clock, restarts>>

(* Slip: a second stop joins the one that is running. *)
HandleStopJoins(s) ==
    /\ Asked(s, "stop")
    /\ IF phase \in {"recording", "stopping"}
       THEN phase' = "stopping" /\ stoppedAt' = clock /\ Answer(s, "running")
       ELSE Answer(s, "error") /\ UNCHANGED <<phase, stoppedAt>>
    /\ UNCHANGED <<current, createdAt, used, aged, command, local, clock, restarts>>

(* POST /v1/recording/stop *)
HandleStop(s) ==
    /\ Asked(s, "stop")
    /\ IF phase = "recording"
       THEN phase' = "stopping" /\ stoppedAt' = clock /\ Answer(s, "running")
       ELSE Answer(s, "error") /\ UNCHANGED <<phase, stoppedAt>>
    /\ UNCHANGED <<current, createdAt, used, aged, command, local, clock, restarts>>

(* The maximum duration is reached, or the capture failed. *)
AutomaticStop ==
    /\ phase = "recording"
    /\ phase' = "stopping"
    /\ stoppedAt' = clock
    /\ UNCHANGED <<current, createdAt, used, aged, shellVars, clock, restarts>>

(* The recording is complete. *)
Publish(r) ==
    /\ r \notin used
    /\ phase' = "ready"
    /\ current' = r
    /\ createdAt' = [x \in Stored \cup {r} |-> IF x = r THEN stoppedAt ELSE createdAt[x]]
    /\ used' = used \cup {r}

(* The answer goes to whoever asked; after an automatic stop to nobody. *)
FinishStop ==
    /\ phase = "stopping"
    /\ \/ \E r \in Recording :
             /\ Publish(r)
             /\ request' = [s \in Shell |->
                   IF request[s].op = "stop" /\ request[s].state = "running"
                   THEN [request[s] EXCEPT !.state = "ok", !.id = r] ELSE request[s]]
       \/ /\ phase' = "failed"
          /\ request' = [s \in Shell |->
                IF request[s].op = "stop" /\ request[s].state = "running"
                THEN [request[s] EXCEPT !.state = "error"] ELSE request[s]]
          /\ UNCHANGED <<current, createdAt, used>>
    /\ stoppedAt' = None
    /\ UNCHANGED <<aged, command, local, clock, restarts>>

(* cleanup() and the removal of `removed`; a ready machine whose recording *)
(* was to go becomes idle.                                                 *)
CleanupAndRemove(gone, removed) ==
    /\ Remove(gone, removed)
    /\ IF phase = "ready" /\ current \in Expiring \cup removed
       THEN phase' = "idle" /\ current' = None
       ELSE UNCHANGED <<phase, current>>

(* GET /v1/recordings/{id} of a command *)
HandleOpen(s) ==
    /\ Asked(s, "open")
    /\ \E gone \in Removals :
          /\ CleanupAndRemove(gone, {})
          /\ Answer(s, IF request[s].id \in Stored \ gone THEN "ok" ELSE "error")
    /\ UNCHANGED <<stoppedAt, used, command, local, clock, restarts>>

(* `request get` or `request head` of /v1/recordings/{id} *)
ReadRecording ==
    /\ \E gone \in Removals : CleanupAndRemove(gone, {})
    /\ UNCHANGED <<stoppedAt, used, shellVars, clock, restarts>>

(* Slip: the machine stays ready when its recording is deleted. *)
HandleDeleteKeepsReady(s) ==
    /\ Asked(s, "delete")
    /\ \E gone \in Removals :
          \/ /\ request[s].id \in Stored \ gone
             /\ Remove(gone, {request[s].id})
             /\ Answer(s, "ok")
          \/ Remove(gone, {}) /\ Answer(s, "error")
    /\ UNCHANGED <<phase, current, stoppedAt, used, command, local, clock, restarts>>

(* DELETE /v1/recordings/{id}: an error if the recording is not there, or  *)
(* its movie cannot be removed.                                            *)
HandleDelete(s) ==
    /\ Asked(s, "delete")
    /\ \E gone \in Removals :
          \/ /\ request[s].id \in Stored \ gone
             /\ CleanupAndRemove(gone, {request[s].id})
             /\ Answer(s, "ok")
          \/ CleanupAndRemove(gone, {}) /\ Answer(s, "error")
    /\ UNCHANGED <<stoppedAt, used, command, local, clock, restarts>>

(* The App is started again: the connections are gone, the completed       *)
(* recordings are still there, and the new runtime cleans up.              *)
Restart ==
    /\ restarts < MaxRestarts
    /\ restarts' = restarts + 1
    /\ phase' = "idle" /\ current' = None /\ stoppedAt' = None
    /\ \E gone \in Removals : Remove(gone, {})
    /\ request' = [s \in Shell |->
          IF request[s].op = "none" THEN NoRequest ELSE [request[s] EXCEPT !.state = "error"]]
    /\ UNCHANGED <<used, command, local, clock>>

Tick ==
    /\ clock < MaxClock
    /\ clock' = clock + 1
    /\ UNCHANGED <<appVars, shellVars, restarts>>

--------------------------------------------------------------------------------
(* The network *)

(* The request never reaches the App, or its answer never reaches the      *)
(* shell: to the command both are an error.                                *)
Lose(s) ==
    /\ request[s].state \in {"sent", "ok"}
    /\ Answer(s, "error")
    /\ UNCHANGED <<appVars, command, local, clock, restarts>>

(* The App is done with a request whose command has gone. *)
Forget(s) ==
    /\ command[s].step = "none"
    /\ request[s].state \in {"ok", "error"}
    /\ request' = [request EXCEPT ![s] = NoRequest]
    /\ UNCHANGED <<appVars, command, local, clock, restarts>>

--------------------------------------------------------------------------------
(* The commands *)

Send(s, op, id) == request' = [request EXCEPT ![s] = [op |-> op, id |-> id, state |-> "sent"]]

Exit(s, exit, deleted) ==
    command' = [command EXCEPT ![s].step = "none", ![s].exit = exit, ![s].deleted = deleted]

Invoke(s, op) ==
    /\ command[s].step = "none"
    /\ request[s] = NoRequest
    /\ Send(s, op, None)
    /\ command' = [command EXCEPT ![s] = [NoCommand EXCEPT !.step = op]]
    /\ UNCHANGED <<appVars, local, clock, restarts>>

Answered(s, step, answer) ==
    command[s].step = step /\ request[s].op = step /\ request[s].state = answer

(* An error answer ends any command but one that waits for its delete. *)
CommandFails(s) ==
    /\ \E step \in {"start", "stop", "open"} : Answered(s, step, "error")
    /\ request' = [request EXCEPT ![s] = NoRequest]
    /\ Exit(s, "error", FALSE)
    /\ UNCHANGED <<appVars, local, clock, restarts>>

(* The deadline passes or the process is killed; the request stays with    *)
(* the App.  `recording stop` whose delete is cut off by the deadline has  *)
(* done its work and exits well.                                           *)
GiveUp(s) ==
    /\ command[s].step # "none"
    /\ \/ Exit(s, "error", FALSE)
       \/ command[s].step = "delete" /\ Exit(s, "success", FALSE)
    /\ UNCHANGED <<appVars, request, local, clock, restarts>>

StartReturns(s) ==
    /\ Answered(s, "start", "ok")
    /\ request' = [request EXCEPT ![s] = NoRequest]
    /\ Exit(s, "success", FALSE)
    /\ UNCHANGED <<appVars, local, clock, restarts>>

(* Slip: the device copy is deleted as soon as the download is open. *)
StopReturnsAndDeletes(s) ==
    /\ Answered(s, "stop", "ok")
    /\ Send(s, "delete", request[s].id)
    /\ command' = [command EXCEPT ![s].step = "delete", ![s].id = request[s].id]
    /\ UNCHANGED <<appVars, local, clock, restarts>>

(* service.Stop returns the metadata: open the download. *)
StopReturns(s) ==
    /\ Answered(s, "stop", "ok")
    /\ Send(s, "open", request[s].id)
    /\ command' = [command EXCEPT ![s].step = "open", ![s].id = request[s].id]
    /\ UNCHANGED <<appVars, local, clock, restarts>>

(* Slip: the artifact is committed before its digest is compared. *)
DownloadCommitsFirst(s, content) ==
    /\ Answered(s, "open", "ok")
    /\ local[command[s].id] = "none"
    /\ local' = [local EXCEPT ![command[s].id] = content]
    /\ IF content = "whole"
       THEN /\ Send(s, "delete", command[s].id)
            /\ command' = [command EXCEPT ![s].step = "delete"]
       ELSE /\ request' = [request EXCEPT ![s] = NoRequest]
            /\ Exit(s, "error", FALSE)
    /\ UNCHANGED <<appVars, clock, restarts>>

(* artifact.Write copies the body, compares its digest, validates the MP4  *)
(* and links it to the destination (ArtifactCommand has its steps).        *)
Download(s, content) ==
    /\ Answered(s, "open", "ok")
    /\ IF content = "whole"
       THEN /\ local' = [local EXCEPT ![command[s].id] = content]
            /\ Send(s, "delete", command[s].id)
            /\ command' = [command EXCEPT ![s].step = "delete"]
       ELSE /\ request' = [request EXCEPT ![s] = NoRequest]
            /\ Exit(s, "error", FALSE)
            /\ UNCHANGED local
    /\ UNCHANGED <<appVars, clock, restarts>>

(* service.Delete returns: a failure is only a warning. *)
DeleteReturns(s) ==
    /\ command[s].step = "delete"
    /\ request[s].state \in {"ok", "error"}
    /\ request' = [request EXCEPT ![s] = NoRequest]
    /\ Exit(s, "success", request[s].state = "ok")
    /\ UNCHANGED <<appVars, local, clock, restarts>>

--------------------------------------------------------------------------------
AppStep(s) ==
    \/ HandleStart(s)
    \/ FinishStart(s)
    \/ HandleStop(s)
    \/ HandleOpen(s)
    \/ HandleDelete(s)

CommandStep(s) ==
    \/ CommandFails(s)
    \/ StartReturns(s)
    \/ StopReturns(s)
    \/ \E content \in {"whole", "cut"} : Download(s, content)
    \/ DeleteReturns(s)

Next ==
    \/ \E s \in Shell :
          \/ AppStep(s)
          \/ CommandStep(s)
          \/ Invoke(s, "start")
          \/ Invoke(s, "stop")
          \/ Lose(s)
          \/ Forget(s)
          \/ GiveUp(s)
    \/ AutomaticStop
    \/ FinishStop
    \/ ReadRecording
    \/ Restart
    \/ Tick

Spec == Init /\ [][Next]_vars

(* The App answers, the commands go on, time passes, and users keep        *)
(* running both commands.                                                  *)
FairSpec ==
    /\ Spec
    /\ WF_vars(Tick)
    /\ WF_vars(AutomaticStop)
    /\ WF_vars(FinishStop)
    /\ \A s \in Shell :
          /\ WF_vars(AppStep(s))
          /\ WF_vars(CommandStep(s))
          /\ WF_vars(Forget(s))
          /\ SF_vars(Invoke(s, "start"))
          /\ SF_vars(Invoke(s, "stop"))
--------------------------------------------------------------------------------
(* Every variable has its declared shape. *)
TypeOK ==
    /\ clock \in 0..MaxClock /\ restarts \in 0..MaxRestarts
    /\ phase \in {"idle", "starting", "recording", "stopping", "ready", "failed"}
    /\ current \in Recording \cup {None}
    /\ Stored \subseteq Recording /\ \A r \in Stored : createdAt[r] \in 0..MaxClock
    /\ stoppedAt \in (0..MaxClock) \cup {None}
    /\ used \subseteq Recording
    /\ aged \subseteq Recording
    /\ request \in [Shell ->
          [op : {"none", "start", "stop", "open", "delete"},
           id : Recording \cup {None},
           state : {"none", "sent", "running", "ok", "error"}]]
    /\ command \in [Shell ->
          [step : {"none", "start", "stop", "open", "delete"},
           id : Recording \cup {None},
           exit : {"none", "success", "error"},
           deleted : BOOLEAN]]
    /\ local \in [Recording -> {"none", "whole", "cut"}]

(* A completed recording is never lost between device and computer: it is  *)
(* on the device, or whole on the computer, or the retention rule removed  *)
(* it, whatever requests and answers are lost and wherever the command is  *)
(* cut off.                                                                *)
NothingLost ==
    \A r \in used : r \in Stored \/ local[r] = "whole" \/ r \in aged

(* No truncated or corrupt file is left at the destination of a command,   *)
(* a `recording stop` that reports success has saved its recording, and    *)
(* device_file_deleted is reported only of a recording that is gone.       *)
ArtifactsAreWhole ==
    /\ \A r \in Recording : local[r] # "cut"
    /\ \A s \in Shell :
          /\ command[s].exit = "success" /\ command[s].id # None => local[command[s].id] = "whole"
          /\ command[s].deleted => command[s].id \notin Stored

(* Only one command works on a recording: a stop that another shell's stop *)
(* overtook is refused, and never downloads or deletes what the other one  *)
(* was answered.                                                           *)
OneCommandPerRecording ==
    \A s, t \in Shell :
        s # t /\ command[s].id # None => command[s].id # command[t].id

(* The App of this module keeps to the contract of the recording routes,   *)
(* which RecordingController is shown to implement.                        *)
Service == INSTANCE RecordingService WITH NoRecording <- None, library <- Stored

KeepsServiceContract == Service!Spec

(* "device cleanup will retry through the App retention policy"            *)
(* (recording.go), "failed downloads remain available for retry"           *)
(* (protocol.md): a completed recording that no command took from the App  *)
(* is released sooner or later, so that recording can go on.               *)
ReadyIsReleased == phase = "ready" ~> phase # "ready"
================================================================================
