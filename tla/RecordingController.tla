-------------------------- MODULE RecordingController --------------------------
(***************************************************************************)
(* The actor RecordingController of APIOSDebugKit with everything that     *)
(* runs beside it: the start and stop calls suspended in withTimeout, the  *)
(* operation and the timeout that race for their TimeoutRaceGate, the      *)
(* automatic stop, the tasks spawned by capture failures, the sample       *)
(* intake and its worker, ReplayKit (external), the recordings directory   *)
(* and the wall clock, which may be stepped back.  The process may crash   *)
(* at any time and start again on the files it left.                       *)
(*                                                                         *)
(* Code between two suspension points of the actor is one step.  A         *)
(* recording is named by the identifier its start drew; every task of the  *)
(* program belongs to one identifier.  A request that is rejected changes  *)
(* nothing and is not an action.  writer and intake are set and cleared    *)
(* with activeID and are not variables of their own.  A removal may fail;  *)
(* but for one, of the movie in delete(id:), the code ignores it.          *)
(***************************************************************************)
EXTENDS RecordingEvents, RetentionRule

CONSTANTS
    MaximumDuration,    \* the duration passed to start, within its bounds
    MaxClock,           \* bound on the wall clock
    MaxStepBacks,       \* bound on how often the wall clock is stepped back
    MaxRestarts         \* bound on the number of crashes

ASSUME ControllerAssumption ==
    /\ Id \subseteq Nat
    /\ IsFiniteSet(Id)
    /\ MaximumDuration \in Nat \ {0}
    /\ MaxClock \in Nat
    /\ MaxStepBacks \in Nat
    /\ MaxRestarts \in Nat
    /\ Code = {"recordingPermissionTimeout", "requestTimeout", "recordingNotAvailable"}

VARIABLES
    clock,              \* what clock.now() returns
    machine,            \* the state machine of RecordingEvents
    activeID,           \* the recording being made or held ready
    activeURL,          \* its file: "partial", "mp4" or None
    captureStartedAt,   \* the instant its capture was published
    unsettledStartID,   \* the start whose capture call has not settled
    automaticStop,      \* the handle of the automatic stop task
    autoTask,           \* per recording: the automatic stop task
    failTask,           \* recordings with a failure task waiting for the actor
    start,              \* per recording: its start call, operation and gate
    stop,               \* per recording: its stop call, operation and gate
    intake,             \* per recording: its RecordingSampleIntake and writer
    capture,            \* the recording whose capture ReplayKit runs
    disk,               \* per recording: its files
    used,               \* identifiers drawn so far
    restarts,           \* crashes so far
    stepBacks,          \* how often the clock has been stepped back
    kept                \* recordings promised to a caller and not yet released

actorVars == <<machine, activeID, activeURL, captureStartedAt, unsettledStartID, automaticStop>>
taskVars == <<autoTask, failTask, start, stop, intake>>
worldVars == <<clock, stepBacks, capture, disk, used, restarts, kept>>
vars == <<actorVars, taskVars, worldVars>>

NoFiles == [partial |-> FALSE, mp4 |-> FALSE, json |-> None]
NoStart == [frame |-> "none", op |-> "none", gate |-> "open"]
NoStop == [frame |-> "none", op |-> "none", gate |-> "open", at |-> None]
NewIntake ==
    [accepting |-> FALSE, queued |-> FALSE, configured |-> FALSE,
     workerFailed |-> FALSE, captureFailure |-> FALSE]

(* The state of a fresh process. *)
VolatileInit ==
    /\ machine = IdleMachine
    /\ activeID = None /\ activeURL = None /\ captureStartedAt = None
    /\ unsettledStartID = None /\ automaticStop = None
    /\ autoTask = [i \in Id |-> "none"]
    /\ failTask = {}
    /\ start = [i \in Id |-> NoStart]
    /\ stop = [i \in Id |-> NoStop]
    /\ intake = [i \in Id |-> NewIntake]
    /\ capture = None

Init ==
    /\ VolatileInit
    /\ clock = 0 /\ stepBacks = 0
    /\ disk = [i \in Id |-> NoFiles]
    /\ used = {}
    /\ restarts = 0
    /\ kept = {}

--------------------------------------------------------------------------------
(* Files and cleanup. *)

(* The creation instants in the decodable metadata files. *)
CreatedAt == [i \in {j \in Id : disk[j].json # None} |-> disk[i].json]

FileKind == {"partial", "mp4", "json"}

(* The files that have to be removed for `wanted` to be what is there *)
ToRemove(wanted) ==
    {file \in Id \X FileKind : disk[file[1]][file[2]] # wanted[file[1]][file[2]]}

(* What is there then, if those in `stuck` cannot be removed *)
Remaining(wanted, stuck) ==
    [i \in Id |->
        [partial |-> IF <<i, "partial">> \in stuck THEN disk[i].partial ELSE wanted[i].partial,
         mp4 |-> IF <<i, "mp4">> \in stuck THEN disk[i].mp4 ELSE wanted[i].mp4,
         json |-> IF <<i, "json">> \in stuck THEN disk[i].json ELSE wanted[i].json]]

(* try? FileManager.default.removeItem, for one file after the other *)
RemoveFiles(wanted) ==
    \E stuck \in SUBSET ToRemove(wanted) : disk' = Remaining(wanted, stuck)

(* Slip: cleanup spares only the movie at activeURL. *)
CleanedFilesSparesActive(deleted) ==
    [i \in Id |->
        [partial |-> disk[i].partial /\ activeID = i /\ activeURL = "partial",
         mp4 |-> disk[i].mp4 /\ activeID = i /\ i \notin deleted,
         json |-> IF i \in deleted THEN None ELSE disk[i].json]]

CleanedFiles(deleted) ==
    [i \in Id |->
        [partial |-> disk[i].partial /\ activeID = i /\ activeURL = "partial",
         mp4 |-> disk[i].mp4 /\ i \in DOMAIN CreatedAt \ deleted,
         json |-> IF i \in deleted THEN None ELSE disk[i].json]]

(* discardPartial's removal of the file at activeURL *)
WithoutActiveFile ==
    IF activeID = None THEN disk
    ELSE [disk EXCEPT ![activeID] =
             [partial |-> @.partial /\ activeURL # "partial",
              mp4 |-> @.mp4 /\ activeURL # "mp4",
              json |-> @.json]]

(* automaticStop?.cancel(): a task past its sleep is no longer affected. *)
Cancelled(tasks) ==
    IF automaticStop # None /\ tasks[automaticStop] = "sleeping"
    THEN [tasks EXCEPT ![automaticStop] = "none"]
    ELSE tasks

Closed(intakes) ==
    IF activeID = None THEN intakes
    ELSE [intakes EXCEPT ![activeID].accepting = FALSE]

ClearActive ==
    /\ activeID' = None
    /\ activeURL' = None
    /\ captureStartedAt' = None
    /\ automaticStop' = None
    /\ autoTask' = Cancelled(autoTask)
    /\ intake' = Closed(intake)

DiscardPartial ==
    /\ RemoveFiles(WithoutActiveFile)
    /\ ClearActive

(* try? machine.apply(.failed(code, now)) *)
FailedIfCurrent(m, code) == IF AcceptsFailed(m, clock) THEN Failed(m, code, clock) ELSE m

(* cleanup(), followed by the removal of the recordings `removed` that     *)
(* survived it, whose movies do go; the ready recording is released with   *)
(* its files, and if none of them could be removed.                        *)
CleanupAndRemove(removed) ==
    LET deleted == ToDelete(clock, CreatedAt)
        gone == deleted \cup removed
        cleaned == CleanedFiles(deleted)
    IN  /\ RemoveFiles([i \in Id |-> IF i \in removed THEN NoFiles ELSE cleaned[i]])
        /\ \A i \in removed : ~disk'[i].mp4
        /\ kept' = kept \ gone
        /\ IF machine.phase = "ready" /\ machine.recording.id \in gone
           THEN machine' = ClearToIdle(machine) /\ ClearActive
           ELSE UNCHANGED <<machine, activeID, activeURL, captureStartedAt,
                            automaticStop, autoTask, intake>>

--------------------------------------------------------------------------------
(* start(maximumDuration:) *)

(* The machine a start call works on: a failed one is reset first. *)
StartableMachine == IF AcceptsReset(machine) THEN ClearToIdle(machine) ELSE machine

StartGuard ==
    /\ unsettledStartID = None
    /\ AcceptsStartRequested(StartableMachine, MaximumDuration)

(* Up to the suspension in withTimeout; the operation has called ReplayKit. *)
StartCall(id) ==
    /\ id \notin used
    /\ StartGuard
    /\ machine' = StartRequested(StartableMachine, clock, MaximumDuration)
    /\ RemoveFiles(CleanedFiles(ToDelete(clock, CreatedAt)))
    /\ kept' = kept \ ToDelete(clock, CreatedAt)
    /\ activeID' = id
    /\ activeURL' = "partial"
    /\ unsettledStartID' = id
    /\ start' = [start EXCEPT ![id] = [frame |-> "awaiting", op |-> "calling", gate |-> "open"]]
    /\ intake' = [intake EXCEPT ![id].accepting = TRUE]
    /\ used' = used \cup {id}
    /\ UNCHANGED <<captureStartedAt, automaticStop, autoTask, failTask, stop, capture,
                   clock, stepBacks, restarts>>

(* cleanup() throws, or ReplayKit is not available *)
StartUnavailable ==
    /\ StartGuard
    /\ machine' = Failed(StartRequested(StartableMachine, clock, MaximumDuration),
                         "recordingNotAvailable", clock)
    /\ \/ UNCHANGED <<disk, kept>>
       \/ /\ RemoveFiles(CleanedFiles(ToDelete(clock, CreatedAt)))
          /\ kept' = kept \ ToDelete(clock, CreatedAt)
    /\ UNCHANGED <<activeID, activeURL, captureStartedAt, unsettledStartID, automaticStop,
                   taskVars, capture, clock, stepBacks, used, restarts>>

(* The completion handler of recorder.startCapture. *)
ReplayKitStarts(id) ==
    /\ start[id].op = "calling"
    /\ capture = None
    /\ capture' = id
    /\ start' = [start EXCEPT ![id].op = "started"]
    /\ UNCHANGED <<actorVars, autoTask, failTask, stop, intake, clock, stepBacks, disk, used, restarts, kept>>

ReplayKitRefuses(id) ==
    /\ start[id].op = "calling"
    /\ start' = [start EXCEPT ![id].op = "refused"]
    /\ unsettledStartID' = IF unsettledStartID = id THEN None ELSE unsettledStartID
    /\ UNCHANGED <<machine, activeID, activeURL, captureStartedAt, automaticStop,
                   autoTask, failTask, stop, intake, worldVars>>

BelongsToCurrentStart(id) ==
    unsettledStartID = id /\ activeID = id /\ machine.phase = "starting"

(* Slip: a capture that failed while starting is reported, not stopped. *)
StartCaptureResumesWithoutStop(id) ==
    /\ start[id].op = "started"
    /\ IF ~BelongsToCurrentStart(id)
       THEN /\ start' = [start EXCEPT ![id].op = "stoppingLate"]
            /\ UNCHANGED unsettledStartID
       ELSE /\ unsettledStartID' = None
            /\ start' = [start EXCEPT ![id].op =
                  IF intake[id].captureFailure THEN "refused" ELSE "succeeded"]
    /\ UNCHANGED <<machine, activeID, activeURL, captureStartedAt, automaticStop,
                   autoTask, failTask, stop, intake, worldVars>>

(* startCapture resumes on the actor after ReplayKit has started. *)
StartCaptureResumes(id) ==
    /\ start[id].op = "started"
    /\ IF ~BelongsToCurrentStart(id)
       THEN /\ start' = [start EXCEPT ![id].op = "stoppingLate"]
            /\ UNCHANGED unsettledStartID
       ELSE /\ unsettledStartID' = None
            /\ start' = [start EXCEPT ![id].op =
                  IF intake[id].captureFailure THEN "stoppingFailed" ELSE "succeeded"]
    /\ UNCHANGED <<machine, activeID, activeURL, captureStartedAt, automaticStop,
                   autoTask, failTask, stop, intake, worldVars>>

(* source.stop() of a start that is given up returns, having stopped the   *)
(* capture or not (try?); a late start settles now.                        *)
StartCaptureGivesUp(id, stopped) ==
    /\ start[id].op \in {"stoppingLate", "stoppingFailed"}
    /\ capture' = IF stopped /\ capture = id THEN None ELSE capture
    /\ start' = [start EXCEPT ![id].op = "abandoned"]
    /\ unsettledStartID' = IF unsettledStartID = id THEN None ELSE unsettledStartID
    /\ UNCHANGED <<machine, activeID, activeURL, captureStartedAt, automaticStop,
                   autoTask, failTask, stop, intake, clock, stepBacks, disk, used, restarts, kept>>

(* gate.resolve of the operation; a gate that is closed ignores it. *)
StartOperationReturns(id) ==
    /\ start[id].gate = "open"
    /\ \/ start[id].op = "succeeded"
          /\ start' = [start EXCEPT ![id].gate = "ok"]
       \/ start[id].op \in {"refused", "abandoned"}
          /\ start' = [start EXCEPT ![id].gate = "error"]
    /\ UNCHANGED <<actorVars, autoTask, failTask, stop, intake, worldVars>>

(* gate.resolve of the 60 second timeout *)
StartTimesOut(id) ==
    /\ start[id].frame = "awaiting"
    /\ start[id].gate = "open"
    /\ start' = [start EXCEPT ![id].gate = "timeout"]
    /\ UNCHANGED <<actorVars, autoTask, failTask, stop, intake, worldVars>>

StartErrorCode(gate) ==
    IF gate = "timeout" THEN "recordingPermissionTimeout" ELSE "recordingNotAvailable"

(* Slip: the timeout waits for the operation it gave up. *)
StartFailsAfterOperation(id) ==
    /\ start[id].frame = "awaiting"
    /\ start[id].gate \in {"error", "timeout"}
    /\ start[id].op \in {"refused", "abandoned", "succeeded"}
    /\ machine' = FailedIfCurrent(machine, StartErrorCode(start[id].gate))
    /\ DiscardPartial
    /\ start' = [start EXCEPT ![id].frame = "done"]
    /\ UNCHANGED <<unsettledStartID, failTask, stop, clock, stepBacks, capture, used, restarts, kept>>

(* start resumes with an error, or publication is refused: the catch block. *)
StartFails(id) ==
    /\ start[id].frame = "awaiting"
    /\ \/ start[id].gate \in {"error", "timeout"}
       \/ start[id].gate = "ok" /\ ~AcceptsCaptureStarted(machine, clock)
    /\ machine' = IF machine.phase = "starting"
                  THEN FailedIfCurrent(machine, StartErrorCode(start[id].gate))
                  ELSE machine
    /\ DiscardPartial
    /\ start' = [start EXCEPT ![id].frame = "done"]
    /\ UNCHANGED <<unsettledStartID, failTask, stop, clock, stepBacks, capture, used, restarts, kept>>

(* Slip: a failure that came before the publication is not looked at. *)
StartPublishesBlindly(id) ==
    /\ start[id].frame = "awaiting"
    /\ start[id].gate = "ok"
    /\ AcceptsCaptureStarted(machine, clock)
    /\ machine' = CaptureStarted(machine, clock)
    /\ captureStartedAt' = clock
    /\ automaticStop' = id
    /\ autoTask' = [autoTask EXCEPT ![id] = "sleeping"]
    /\ start' = [start EXCEPT ![id].frame = "done"]
    /\ UNCHANGED <<activeID, activeURL, unsettledStartID, failTask, stop, intake, worldVars>>

(* publishCaptureStarted, and the automatic stop is armed *)
StartPublishes(id) ==
    /\ start[id].frame = "awaiting"
    /\ start[id].gate = "ok"
    /\ AcceptsCaptureStarted(machine, clock)
    /\ ~intake[id].captureFailure
    /\ machine' = CaptureStarted(machine, clock)
    /\ captureStartedAt' = clock
    /\ automaticStop' = id
    /\ autoTask' = [autoTask EXCEPT ![id] = "sleeping"]
    /\ start' = [start EXCEPT ![id].frame = "done"]
    /\ UNCHANGED <<activeID, activeURL, unsettledStartID, failTask, stop, intake, worldVars>>

(* publishCaptureStarted finds that the capture has failed: start calls    *)
(* stop at once and stays suspended in it.                                 *)
StartPublishesFailure(id) ==
    /\ start[id].frame = "awaiting"
    /\ start[id].gate = "ok"
    /\ AcceptsCaptureStarted(machine, clock)
    /\ intake[id].captureFailure
    /\ machine' = StopRequested(CaptureStarted(machine, clock), clock)
    /\ captureStartedAt' = clock
    /\ automaticStop' = None
    /\ autoTask' = Cancelled(autoTask)
    /\ start' = [start EXCEPT ![id].frame = "stopping"]
    /\ stop' = [stop EXCEPT ![id] =
          [frame |-> "awaiting", op |-> "stoppingCapture", gate |-> "open", at |-> clock]]
    /\ UNCHANGED <<activeID, activeURL, unsettledStartID, failTask, intake, worldVars>>

--------------------------------------------------------------------------------
(* stop() *)

(* Up to the suspension in withTimeout.  Without an active recording the   *)
(* guard fails and the catch block ends the session.                       *)
StopCall ==
    /\ AcceptsStopRequested(machine, clock)
    /\ IF activeID # None /\ captureStartedAt # None
       THEN /\ machine' = StopRequested(machine, clock)
            /\ stop' = [stop EXCEPT ![activeID] =
                  [frame |-> "awaiting", op |-> "stoppingCapture", gate |-> "open", at |-> clock]]
            /\ automaticStop' = None
            /\ autoTask' = Cancelled(autoTask)
            /\ UNCHANGED <<activeID, activeURL, captureStartedAt, intake, disk>>
       ELSE /\ machine' = Failed(StopRequested(machine, clock), "recordingNotAvailable", clock)
            /\ DiscardPartial
            /\ UNCHANGED stop

RequestStop ==
    /\ StopCall
    /\ UNCHANGED <<unsettledStartID, failTask, start, clock, stepBacks, capture, used, restarts, kept>>

(* Slip: a recording that has failed already is left to someone else. *)
StopIfCurrentGuardSkipsFailed(id) ==
    /\ activeID = id /\ machine.phase = "recording" /\ AcceptsStopRequested(machine, clock)
    /\ ~intake[id].captureFailure

StopIfCurrentGuard(id) ==
    activeID = id /\ machine.phase = "recording" /\ AcceptsStopRequested(machine, clock)

(* The automatic stop task wakes up and waits for the actor. *)
AutomaticStopDue(id) ==
    /\ autoTask[id] = "sleeping"
    /\ autoTask' = [autoTask EXCEPT ![id] = "due"]
    /\ UNCHANGED <<actorVars, failTask, start, stop, intake, worldVars>>

(* stopIfCurrent from the automatic stop; an error is swallowed (try?). *)
AutomaticStop(id) ==
    /\ autoTask[id] = "due"
    /\ IF StopIfCurrentGuard(id)
       THEN /\ machine' = StopRequested(machine, clock)
            /\ stop' = [stop EXCEPT ![id] =
                  [frame |-> "awaiting", op |-> "stoppingCapture", gate |-> "open", at |-> clock]]
            /\ automaticStop' = None
       ELSE UNCHANGED <<machine, stop, automaticStop>>
    /\ autoTask' = [autoTask EXCEPT ![id] = "none"]
    /\ UNCHANGED <<activeID, activeURL, captureStartedAt, unsettledStartID,
                   failTask, start, intake, worldVars>>

(* ReplayKit reports an error instead of a sample, and may have ended the  *)
(* capture: the failure handler marks the intake and spawns a task.        *)
ReplayKitFails(id) ==
    /\ capture = id
    /\ ~intake[id].captureFailure
    /\ intake' = [intake EXCEPT ![id].captureFailure = TRUE]
    /\ failTask' = failTask \cup {id}
    /\ capture' \in {id, None}
    /\ UNCHANGED <<actorVars, autoTask, start, stop, clock, stepBacks, disk, used, restarts, kept>>

(* stopIfCurrent from the failure task *)
FailureStop(id) ==
    /\ id \in failTask
    /\ failTask' = failTask \ {id}
    /\ IF StopIfCurrentGuard(id)
       THEN StopCall
       ELSE UNCHANGED <<machine, activeID, activeURL, captureStartedAt, automaticStop,
                        autoTask, stop, intake, disk>>
    /\ UNCHANGED <<unsettledStartID, start, clock, stepBacks, capture, used, restarts, kept>>

(* source.stop() inside the stop operation returns; cancellation is        *)
(* checked, then the intake is closed and drained.                         *)
StopCaptureStops(id) ==
    /\ stop[id].op = "stoppingCapture"
    /\ capture' = IF capture = id THEN None ELSE capture
    /\ IF stop[id].gate = "timeout"
       THEN stop' = [stop EXCEPT ![id].op = "failed"] /\ UNCHANGED intake
       ELSE /\ stop' = [stop EXCEPT ![id].op = "draining"]
            /\ intake' = [intake EXCEPT ![id].accepting = FALSE]
    /\ UNCHANGED <<actorVars, autoTask, failTask, start, clock, stepBacks, disk, used, restarts, kept>>

StopCaptureErrs(id) ==
    /\ stop[id].op = "stoppingCapture"
    /\ stop' = [stop EXCEPT ![id].op = "failed"]
    /\ UNCHANGED <<actorVars, autoTask, failTask, start, intake, worldVars>>

(* finishAcceptingAndDrain returns; cancellation is checked again. *)
StopDrained(id) ==
    /\ stop[id].op = "draining"
    /\ ~intake[id].queued
    /\ stop' = [stop EXCEPT ![id].op =
          IF intake[id].workerFailed \/ intake[id].captureFailure \/ stop[id].gate = "timeout"
          THEN "failed" ELSE "finishing"]
    /\ UNCHANGED <<actorVars, autoTask, failTask, start, intake, worldVars>>

(* writer.finish(): a writer without samples, and one whose file is gone,  *)
(* cannot succeed; a failed one removes its file.                          *)
StopWriterFinishes(id) ==
    /\ stop[id].op = "finishing"
    /\ \/ /\ disk[id].partial
          /\ stop' = [stop EXCEPT ![id].op = "succeeded"]
          /\ UNCHANGED disk
       \/ /\ stop' = [stop EXCEPT ![id].op = "failed"]
          /\ RemoveFiles([disk EXCEPT ![id].partial = FALSE])
    /\ UNCHANGED <<actorVars, autoTask, failTask, start, intake, clock, stepBacks, capture, used, restarts, kept>>

StopOperationReturns(id) ==
    /\ stop[id].gate = "open"
    /\ \/ stop[id].op = "succeeded" /\ stop' = [stop EXCEPT ![id].gate = "ok"]
       \/ stop[id].op = "failed" /\ stop' = [stop EXCEPT ![id].gate = "error"]
    /\ UNCHANGED <<actorVars, autoTask, failTask, start, intake, worldVars>>

(* gate.resolve of the 90 second timeout *)
StopTimesOut(id) ==
    /\ stop[id].frame = "awaiting"
    /\ stop[id].gate = "open"
    /\ stop' = [stop EXCEPT ![id].gate = "timeout"]
    /\ UNCHANGED <<actorVars, autoTask, failTask, start, intake, worldVars>>

(* A start suspended in this stop call returns with it. *)
StartReturnsToo(id) ==
    start' = [start EXCEPT ![id].frame = IF @ = "stopping" THEN "done" ELSE @]

StopMetadata(id) ==
    [id |-> id, createdAt |-> stop[id].at,
     duration |-> NonNegative(stop[id].at - captureStartedAt)]

(* Slip: the recording is published before its metadata are on disk. *)
StopPublishesWithoutMetadata(id) ==
    /\ stop[id].frame = "awaiting"
    /\ stop[id].gate = "ok"
    /\ disk[id].partial
    /\ AcceptsWriterFinished(machine, StopMetadata(id))
    /\ disk' = [disk EXCEPT ![id].partial = FALSE, ![id].mp4 = TRUE]
    /\ activeURL' = "mp4"
    /\ machine' = WriterFinished(machine, StopMetadata(id))
    /\ kept' = kept \cup {id}
    /\ stop' = [stop EXCEPT ![id].frame = "done"]
    /\ StartReturnsToo(id)
    /\ UNCHANGED <<activeID, captureStartedAt, unsettledStartID, automaticStop,
                   autoTask, failTask, intake, clock, stepBacks, capture, used, restarts>>

(* stop resumes: move, verify, write the metadata, publish *)
StopPublishes(id) ==
    /\ stop[id].frame = "awaiting"
    /\ stop[id].gate = "ok"
    /\ disk[id].partial
    /\ AcceptsWriterFinished(machine, StopMetadata(id))
    /\ disk' = [disk EXCEPT ![id] = [partial |-> FALSE, mp4 |-> TRUE, json |-> stop[id].at]]
    /\ activeURL' = "mp4"
    /\ machine' = WriterFinished(machine, StopMetadata(id))
    /\ kept' = kept \cup {id}
    /\ stop' = [stop EXCEPT ![id].frame = "done"]
    /\ StartReturnsToo(id)
    /\ UNCHANGED <<activeID, captureStartedAt, unsettledStartID, automaticStop,
                   autoTask, failTask, intake, clock, stepBacks, capture, used, restarts>>

(* Slip: the timeout waits for the operation it gave up. *)
StopFailsAfterOperation(id) ==
    /\ stop[id].frame = "awaiting"
    /\ stop[id].gate \in {"error", "timeout"}
    /\ stop[id].op \in {"succeeded", "failed"}
    /\ machine' = FailedIfCurrent(machine, "recordingNotAvailable")
    /\ DiscardPartial
    /\ stop' = [stop EXCEPT ![id].frame = "done"]
    /\ StartReturnsToo(id)
    /\ UNCHANGED <<unsettledStartID, failTask, clock, stepBacks, capture, used, restarts, kept>>

(* The file that stop has moved already could not be removed. *)
DiscardNothing(id) ==
    /\ stop[id].gate = "ok" /\ disk[id].partial
    /\ disk' = [disk EXCEPT ![id].partial = FALSE, ![id].mp4 = TRUE]
    /\ ClearActive

(* stop resumes: the operation failed or timed out, or the move, the size  *)
(* check or the metadata failed after it; the file, moved or not, goes.    *)
StopFails(id) ==
    /\ stop[id].frame = "awaiting"
    /\ stop[id].gate \in {"ok", "error", "timeout"}
    /\ machine' = FailedIfCurrent(machine,
                     IF stop[id].gate = "timeout" THEN "requestTimeout" ELSE "recordingNotAvailable")
    /\ DiscardPartial \/ DiscardNothing(id)
    /\ stop' = [stop EXCEPT ![id].frame = "done"]
    /\ StartReturnsToo(id)
    /\ UNCHANGED <<unsettledStartID, failTask, clock, stepBacks, capture, used, restarts, kept>>

--------------------------------------------------------------------------------
(* The sample intake and the writer. *)

(* The samples of a capture are one batch: its first one is queued unless  *)
(* the intake no longer accepts.                                           *)
SampleArrives(id) ==
    /\ capture = id
    /\ intake[id].accepting
    /\ ~intake[id].queued /\ ~intake[id].configured /\ ~intake[id].workerFailed
    /\ intake' = [intake EXCEPT ![id].queued = TRUE]
    /\ UNCHANGED <<actorVars, autoTask, failTask, start, stop, worldVars>>

(* The worker appends the batch; the first sample creates the file, even   *)
(* if the recording has been given up since.  An error, on the first       *)
(* sample or on a later one, ends the worker.                              *)
WriterAppends(id) ==
    /\ intake[id].queued
    /\ \E configured, failed \in BOOLEAN :
          /\ configured \/ failed
          /\ intake' = [intake EXCEPT ![id] =
                [@ EXCEPT !.queued = FALSE, !.configured = configured, !.workerFailed = failed]]
          /\ disk' = [disk EXCEPT ![id].partial = configured]
    /\ UNCHANGED <<actorVars, autoTask, failTask, start, stop, clock, stepBacks, capture, used, restarts, kept>>

--------------------------------------------------------------------------------
(* file(id:), and cleanup() when the runtime starts *)
Cleanup ==
    /\ CleanupAndRemove({})
    /\ UNCHANGED <<unsettledStartID, failTask, start, stop, clock, stepBacks, capture, used, restarts>>

(* delete(id:) of a recording that survives the cleanup *)
Delete(id) ==
    /\ disk[id].mp4
    /\ id \in DOMAIN CreatedAt \ ToDelete(clock, CreatedAt)
    /\ CleanupAndRemove({id})
    /\ UNCHANGED <<unsettledStartID, failTask, start, stop, clock, stepBacks, capture, used, restarts>>

--------------------------------------------------------------------------------
(* The world: time and crashes. *)
Tick ==
    /\ clock < MaxClock
    /\ clock' = clock + 1
    /\ UNCHANGED <<actorVars, taskVars, stepBacks, capture, disk, used, restarts, kept>>

StepBack ==
    /\ stepBacks < MaxStepBacks
    /\ clock > 0
    /\ clock' = clock - 1
    /\ stepBacks' = stepBacks + 1
    /\ UNCHANGED <<actorVars, taskVars, capture, disk, used, restarts, kept>>

(* Files a crash can leave: those on disk, those of a stop cut off between *)
(* the move and the metadata, and those of a removal cut off between the   *)
(* movie and its metadata.                                                 *)
CrashDisks ==
    {disk}
    \cup {[disk EXCEPT ![i].partial = FALSE, ![i].mp4 = TRUE] :
             i \in {j \in Id : /\ stop[j].frame = "awaiting"
                               /\ stop[j].gate = "ok"
                               /\ disk[j].partial}}
    \cup {[disk EXCEPT ![i].mp4 = FALSE] : i \in {j \in Id : disk[j].json # None}}

Crash ==
    /\ restarts < MaxRestarts
    /\ restarts' = restarts + 1
    /\ disk' \in CrashDisks
    /\ kept' = {i \in kept : disk'[i].mp4}
    /\ machine' = IdleMachine
    /\ activeID' = None /\ activeURL' = None /\ captureStartedAt' = None
    /\ unsettledStartID' = None /\ automaticStop' = None
    /\ autoTask' = [i \in Id |-> "none"]
    /\ failTask' = {}
    /\ start' = [i \in Id |-> NoStart]
    /\ stop' = [i \in Id |-> NoStop]
    /\ intake' = [i \in Id |-> NewIntake]
    /\ capture' = None
    /\ UNCHANGED <<clock, stepBacks, used>>

--------------------------------------------------------------------------------
StartStep(id) ==
    \/ StartCall(id)
    \/ StartCaptureResumes(id)
    \/ \E stopped \in BOOLEAN : StartCaptureGivesUp(id, stopped)
    \/ StartOperationReturns(id)
    \/ StartTimesOut(id)
    \/ StartFails(id)
    \/ StartPublishes(id)
    \/ StartPublishesFailure(id)

StopStep(id) ==
    \/ AutomaticStopDue(id)
    \/ AutomaticStop(id)
    \/ FailureStop(id)
    \/ StopCaptureStops(id)
    \/ StopCaptureErrs(id)
    \/ StopDrained(id)
    \/ StopWriterFinishes(id)
    \/ StopOperationReturns(id)
    \/ StopTimesOut(id)
    \/ StopPublishes(id)
    \/ StopFails(id)

CaptureStep(id) ==
    \/ ReplayKitStarts(id)
    \/ ReplayKitRefuses(id)
    \/ ReplayKitFails(id)
    \/ SampleArrives(id)
    \/ WriterAppends(id)

Next ==
    \/ \E id \in Id : StartStep(id) \/ StopStep(id) \/ CaptureStep(id) \/ Delete(id)
    \/ StartUnavailable
    \/ RequestStop
    \/ Cleanup
    \/ Tick
    \/ StepBack
    \/ Crash

Spec == Init /\ [][Next]_vars
(* Fairness: the runtime's executor runs every ready task, and timers      *)
(* fire.  Nothing is assumed of callers, of ReplayKit, of samples, of the  *)
(* clock or of crashes: a capture call that never answers is exactly what  *)
(* the timeouts are for.                                                   *)
Fairness ==
    \A id \in Id :
        /\ WF_vars(StartOperationReturns(id))
        /\ WF_vars(StartTimesOut(id))
        /\ WF_vars(StartFails(id))
        /\ WF_vars(StartPublishes(id) \/ StartPublishesFailure(id))
        /\ WF_vars(AutomaticStopDue(id))
        /\ WF_vars(AutomaticStop(id))
        /\ WF_vars(FailureStop(id))
        /\ WF_vars(StopOperationReturns(id))
        /\ WF_vars(StopTimesOut(id))
        /\ WF_vars(StopPublishes(id) \/ StopFails(id))

FairSpec == Spec /\ Fairness

--------------------------------------------------------------------------------
OptionalId == Id \cup {None}

Files == [partial : BOOLEAN, mp4 : BOOLEAN, json : Int \cup {None}]

StartCalls ==
    [frame : {"none", "awaiting", "stopping", "done"},
     op : {"none", "calling", "started", "stoppingLate", "stoppingFailed",
           "succeeded", "refused", "abandoned"},
     gate : {"open", "ok", "error", "timeout"}]

StopCalls ==
    [frame : {"none", "awaiting", "done"},
     op : {"none", "stoppingCapture", "draining", "finishing", "succeeded", "failed"},
     gate : {"open", "ok", "error", "timeout"},
     at : Int \cup {None}]

Intakes ==
    [accepting : BOOLEAN, queued : BOOLEAN, configured : BOOLEAN,
     workerFailed : BOOLEAN, captureFailure : BOOLEAN]

(* Every variable has its declared shape. *)
TypeOK ==
    /\ clock \in Int /\ stepBacks \in Nat
    /\ machine \in Machine
    /\ activeID \in OptionalId
    /\ activeURL \in {"partial", "mp4", None}
    /\ captureStartedAt \in Int \cup {None}
    /\ unsettledStartID \in OptionalId
    /\ automaticStop \in OptionalId
    /\ autoTask \in [Id -> {"none", "sleeping", "due"}]
    /\ failTask \subseteq Id
    /\ start \in [Id -> StartCalls]
    /\ stop \in [Id -> StopCalls]
    /\ intake \in [Id -> Intakes]
    /\ capture \in OptionalId
    /\ disk \in [Id -> Files]
    /\ used \subseteq Id
    /\ restarts \in Nat
    /\ kept \subseteq Id

(* What stop() returned to a caller stays downloadable, movie and metadata *)
(* both, until it is deleted on request or by the retention rule: no later *)
(* start, failure, cleanup or crash takes one of the two files away.  What *)
(* a status offers is such a recording, and still the active one.          *)
KeptIsDownloadable ==
    /\ \A i \in kept : disk[i].mp4 /\ disk[i].json # None
    /\ machine.phase = "ready" =>
         /\ machine.recording.id \in kept
         /\ activeID = machine.recording.id
         /\ activeURL = "mp4"

(* A running recording always has its end ahead of it, as long as the wall *)
(* clock has not been stepped back: its automatic stop is armed, and if    *)
(* its capture has failed, whatever the order of the failure callback, the *)
(* publication of the start and the failure task, a task is on its way to  *)
(* stop it.                                                                *)
RecordingWillBeStopped ==
    stepBacks = 0 /\ machine.phase = "recording" =>
        /\ activeID # None
        /\ autoTask[activeID] # "none"
        /\ intake[activeID].captureFailure => activeID \in failTask

(* Someone is responsible for the running capture: its start is still      *)
(* under way, or it is the active recording, or it has been told to stop.  *)
Responsible(i) ==
    \/ start[i].op \in {"started", "stoppingLate", "stoppingFailed", "abandoned"}
    \/ start[i].frame = "awaiting" /\ start[i].gate \in {"open", "ok"}
    \/ activeID = i /\ machine.phase \in {"recording", "stopping"}
    \/ stop[i].frame # "none"

(* No capture runs on unattended after a start that failed; in particular  *)
(* "late start completion after timeout is ignored and capture is stopped" *)
(* (RecordingControllerTests.swift).                                       *)
CaptureIsNeverOrphaned == capture # None => Responsible(capture)

(* The only ways to an unattended capture are a start that lost to its     *)
(* timeout and a clock that was stepped back: failures, refusals and stops *)
(* never leave one.                                                        *)
OnlyTimeoutOrphansCapture ==
    stepBacks = 0 /\ capture # None =>
        Responsible(capture) \/ start[capture].gate = "timeout"

(* The controller implements RecordingService: its phases are those of the *)
(* status route and its library the recordings that have both files.       *)
Downloadable == {i \in Id : disk[i].mp4 /\ disk[i].json # None}

Offered == IF machine.recording = None THEN None ELSE machine.recording.id

Service == INSTANCE RecordingService WITH
    Recording <- Id, NoRecording <- None,
    phase <- machine.phase, current <- Offered, library <- Downloadable

(* Every step of the controller, its tasks, ReplayKit and a crash is a     *)
(* step the recording routes' contract allows, or changes nothing of it.   *)
ImplementsService == Service!Spec

(* A start that waits is answered: the session leaves "starting". *)
StartSettles == machine.phase = "starting" ~> machine.phase # "starting"

(* A recording ends by itself at its maximum duration. *)
RecordingEnds == machine.phase = "recording" ~> machine.phase # "recording"

(* A stop is answered: the session leaves "stopping". *)
StopSettles == machine.phase = "stopping" ~> machine.phase # "stopping"
================================================================================
