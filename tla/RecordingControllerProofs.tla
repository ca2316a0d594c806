------------------------ MODULE RecordingControllerProofs ----------------------
(***************************************************************************)
(* The recording controller with its tasks and crashes, for any            *)
(* recordings, instants, timeouts and bounds of the retention rule.        *)
(***************************************************************************)
EXTENDS RecordingController, TLAPS

(* The actor's fields agree with the phase, and the one call that may be   *)
(* suspended is that of the active recording.                              *)
Sessions ==
    /\ machine.recording # None <=> machine.phase = "ready"
    /\ activeURL = IF activeID = None THEN None
                   ELSE IF machine.phase = "ready" THEN "mp4" ELSE "partial"
    /\ machine.phase \in {"idle", "failed"} => activeID = None
    /\ machine.phase \in {"recording", "ready"} => activeID # None
    /\ activeID # None /\ machine.phase \in {"recording", "stopping"} => captureStartedAt # None
    /\ \A i \in Id :
          /\ start[i].frame = "awaiting" <=> activeID = i /\ machine.phase = "starting"
          /\ stop[i].frame = "awaiting" <=> activeID = i /\ machine.phase = "stopping"
          /\ stop[i].frame # "none" => stop[i].at # None

(* What was promised has both of its files, and the active recording has   *)
(* no metadata before it is ready: a drawn identifier is new.              *)
Library ==
    /\ \A i \in kept : disk[i].mp4 /\ disk[i].json # None
    /\ machine.phase = "ready" => machine.recording.id \in kept /\ activeID = machine.recording.id
    /\ \A i \in Id : i \notin used \/ (activeID = i /\ machine.phase # "ready") => disk[i].json = None
    /\ activeID # None => activeID \in used

(* Without a step back of the clock no event is refused for its instant. *)
ClockIsMonotone ==
    stepBacks = 0 =>
        /\ machine.lastEventAt # None => machine.lastEventAt <= clock
        /\ \A i \in Id : stop[i].at # None => stop[i].at <= clock

(* The operation of a start and the gate it races for. *)
Starts ==
    \A i \in Id :
        /\ i \notin used => start[i].op = "none"
        /\ start[i].op # "none" /\ start[i].gate = "open" => start[i].frame = "awaiting"
        /\ start[i].gate = "ok" => start[i].op = "succeeded"
        /\ start[i].gate = "error" => start[i].op \in {"refused", "abandoned"}
        /\ capture = i =>
              start[i].op \in {"started", "stoppingLate", "stoppingFailed", "succeeded", "abandoned"}
        /\ stepBacks = 0 /\ start[i].gate = "ok" /\ start[i].frame # "awaiting" =>
              \/ activeID = i /\ machine.phase = "recording"
              \/ stop[i].frame # "none"

ControllerInvariant ==
    /\ TypeOK
    /\ Sessions
    /\ Library
    /\ ClockIsMonotone
    /\ Starts
    /\ RecordingWillBeStopped

USE NoneAssumption, ControllerAssumption

(* A step as the contract of RecordingService sees it. *)
ServiceStep == [Service!Next]_(Service!vars)

--------------------------------------------------------------------------------
(* The events of the state machine. *)

(* The elapsed time that a status reports is a whole number. *)
LEMMA ElapsedIsInt ==
  ASSUME NEW m \in Machine, NEW at \in Int
  PROVE  Elapsed(m, at) \in Int
  BY DEF Elapsed, NonNegative, Machine

(* The fresh machine, which a reset and a deletion return to. *)
LEMMA IdleIsAMachine ==
  /\ IdleMachine \in Machine
  /\ IdleMachine.phase = "idle"
  /\ IdleMachine.recording = None
  /\ IdleMachine.lastEventAt = None
  BY DEF IdleMachine, Machine, Phase

(* What startRequested makes of the machine. *)
LEMMA StartRequestedEffect ==
  ASSUME NEW m \in Machine, NEW at \in Int, NEW duration \in Int
  PROVE  /\ StartRequested(m, at, duration) \in Machine
         /\ StartRequested(m, at, duration).phase = "starting"
         /\ StartRequested(m, at, duration).recording = None
         /\ StartRequested(m, at, duration).lastEventAt = at
  <1> PICK e \in Int : e = 0
    OBVIOUS
  <1> QED
    BY DEF StartRequested, Machine, Phase

(* What captureStarted makes of the machine. *)
LEMMA CaptureStartedEffect ==
  ASSUME NEW m \in Machine, NEW at \in Int
  PROVE  /\ CaptureStarted(m, at) \in Machine
         /\ CaptureStarted(m, at).phase = "recording"
         /\ CaptureStarted(m, at).recording = None
         /\ CaptureStarted(m, at).lastEventAt = at
  <1>1. PICK e \in Int : e = 0
    OBVIOUS
  <1>2. CaptureStarted(m, at) =
          [m EXCEPT !.phase = "recording", !.elapsed = e, !.recording = None,
                    !.failureCode = None, !.captureStartedAt = at, !.lastEventAt = at]
    BY <1>1 DEF CaptureStarted
  <1> HIDE <1>1
  <1> QED
    BY <1>2 DEF Machine, Phase

(* What stopRequested makes of the machine. *)
LEMMA StopRequestedEffect ==
  ASSUME NEW m \in Machine, NEW at \in Int
  PROVE  /\ StopRequested(m, at) \in Machine
         /\ StopRequested(m, at).phase = "stopping"
         /\ StopRequested(m, at).recording = None
         /\ StopRequested(m, at).lastEventAt = at
  BY ElapsedIsInt DEF StopRequested, BeginStopping, Machine, Phase

(* What failed makes of the machine. *)
LEMMA FailedEffect ==
  ASSUME NEW m \in Machine, NEW code \in Code, NEW at \in Int
  PROVE  /\ Failed(m, code, at) \in Machine
         /\ Failed(m, code, at).phase = "failed"
         /\ Failed(m, code, at).recording = None
         /\ Failed(m, code, at).lastEventAt = at
  BY ElapsedIsInt DEF Failed, Fail, Machine, Phase

(* What writerFinished makes of the machine. *)
LEMMA WriterFinishedEffect ==
  ASSUME NEW m \in Machine, NEW metadata \in Metadata
  PROVE  /\ WriterFinished(m, metadata) \in Machine
         /\ WriterFinished(m, metadata).phase = "ready"
         /\ WriterFinished(m, metadata).recording = metadata
         /\ WriterFinished(m, metadata).lastEventAt = metadata.createdAt
  <1>1. metadata.duration \in Int /\ metadata.createdAt \in Int
    BY DEF Metadata
  <1> QED
    BY <1>1 DEF WriterFinished, Machine, Phase

--------------------------------------------------------------------------------
(* A step beside the actor: of an operation, of a timer, of ReplayKit, of  *)
(* the samples and their writer.                                           *)
Beside ==
    /\ UNCHANGED <<machine, activeID, activeURL, captureStartedAt, clock, stepBacks, used, kept>>
    /\ \A i \in Id :
          /\ start'[i].frame = start[i].frame
          /\ stop'[i].frame = stop[i].frame /\ stop'[i].at = stop[i].at
          /\ disk'[i].mp4 = disk[i].mp4 /\ disk'[i].json = disk[i].json
          /\ autoTask'[i] = "none" => autoTask[i] = "none"
          /\ intake'[i].captureFailure => intake[i].captureFailure \/ i \in failTask'
    /\ failTask \subseteq failTask'

(* A step beside the actor leaves the session, the library and the end of  *)
(* the recording as they are, and the contract does not see it.            *)
LEMMA BesideIsQuiet ==
  ASSUME ControllerInvariant, Beside
  PROVE  /\ Sessions' /\ Library' /\ ClockIsMonotone' /\ RecordingWillBeStopped'
         /\ ServiceStep
  <1> USE DEF ControllerInvariant, Beside
  <1>1. Sessions'
    BY DEF Sessions
  <1>2. Library'
    <2>1. kept \subseteq Id
      BY DEF TypeOK
    <2> QED
      BY <2>1 DEF Library
  <1>3. ClockIsMonotone'
    BY DEF ClockIsMonotone
  <1>4. RecordingWillBeStopped'
    <2>1. activeID # None => activeID \in Id
      BY DEF TypeOK, OptionalId
    <2> QED
      BY <2>1 DEF RecordingWillBeStopped
  <1>5. ServiceStep
    <2>1. Downloadable' = Downloadable
      BY DEF Downloadable
    <2>2. Offered' = Offered
      BY DEF Offered
    <2> QED
      BY <2>1, <2>2 DEF ServiceStep, Service!vars
  <1> QED
    BY <1>1, <1>2, <1>3, <1>4, <1>5

(* It keeps the order of the starts too when it touches none of them and   *)
(* at most ends the capture.                                               *)
LEMMA BesideKeepsStarts ==
  ASSUME ControllerInvariant, Beside, start' = start, capture' \in {capture, None}
  PROVE  Starts'
  <1>1. None \notin Id
    OBVIOUS
  <1> QED
    BY <1>1 DEF Starts, Beside, ControllerInvariant

(* A step beside the actor that touches no start at all. *)
LEMMA BesideKeepsInvariant ==
  ASSUME ControllerInvariant, Beside, start' = start, capture' \in {capture, None}, TypeOK'
  PROVE  ControllerInvariant' /\ ServiceStep
  BY BesideIsQuiet, BesideKeepsStarts DEF ControllerInvariant

(* The partial file of a recording appears or goes: the others stay. *)
LEMMA PartialFileUpdate ==
  ASSUME NEW files \in [Id -> Files], NEW id \in Id, NEW changed,
         \/ changed = [files EXCEPT ![id].partial = TRUE]
         \/ changed = [files EXCEPT ![id].partial = FALSE]
  PROVE  /\ changed \in [Id -> Files]
         /\ \A i \in Id : changed[i].mp4 = files[i].mp4 /\ changed[i].json = files[i].json
  <1>1. CASE changed = [files EXCEPT ![id].partial = TRUE]
    BY <1>1 DEF Files
  <1>2. CASE changed = [files EXCEPT ![id].partial = FALSE]
    BY <1>2 DEF Files
  <1> QED
    BY <1>1, <1>2

(* Removals, any of which may fail, leave every file as it was or as it    *)
(* was to be.                                                              *)
LEMMA RemovalEffect ==
  ASSUME disk \in [Id -> Files], NEW wanted \in [Id -> Files], RemoveFiles(wanted)
  PROVE  /\ disk' \in [Id -> Files]
         /\ \A i \in Id :
               /\ disk'[i].mp4 = disk[i].mp4 \/ disk'[i].mp4 = wanted[i].mp4
               /\ disk'[i].json = disk[i].json \/ disk'[i].json = wanted[i].json
  <1>1. PICK stuck : disk' = Remaining(wanted, stuck)
    BY DEF RemoveFiles
  <1>2. ASSUME NEW i \in Id
        PROVE  /\ disk'[i] \in Files
               /\ disk'[i].mp4 = disk[i].mp4 \/ disk'[i].mp4 = wanted[i].mp4
               /\ disk'[i].json = disk[i].json \/ disk'[i].json = wanted[i].json
    <2>1. PICK partial \in {disk[i].partial, wanted[i].partial} :
             partial = IF <<i, "partial">> \in stuck THEN disk[i].partial ELSE wanted[i].partial
      BY Zenon
    <2>2. PICK mp4 \in {disk[i].mp4, wanted[i].mp4} :
             mp4 = IF <<i, "mp4">> \in stuck THEN disk[i].mp4 ELSE wanted[i].mp4
      BY Zenon
    <2>3. PICK json \in {disk[i].json, wanted[i].json} :
             json = IF <<i, "json">> \in stuck THEN disk[i].json ELSE wanted[i].json
      BY Zenon
    <2>4. disk'[i] = [partial |-> partial, mp4 |-> mp4, json |-> json]
      BY <1>1, <2>1, <2>2, <2>3, Zenon DEF Remaining
    <2>5. disk[i] \in Files /\ wanted[i] \in Files
      OBVIOUS
    <2>6. partial \in BOOLEAN /\ mp4 \in BOOLEAN /\ json \in Int \cup {None}
      BY <2>1, <2>2, <2>3, <2>5 DEF Files
    <2>7. disk'[i] \in Files
      BY <2>4, <2>6 DEF Files
    <2>8. disk'[i].mp4 = mp4 /\ disk'[i].json = json
      BY <2>4
    <2> QED
      BY <2>2, <2>3, <2>7, <2>8, Zenon
  <1>3. disk' \in [Id -> Files]
    <2>1. disk' = [i \in Id |-> disk'[i]]
      BY <1>1 DEF Remaining
    <2> QED
      BY <1>2, <2>1
  <1> QED
    BY <1>2, <1>3

(* The six steps of a stop operation and its timer. *)
LEMMA StopOperationSteps ==
  ASSUME ControllerInvariant, NEW id \in Id,
         \/ StopCaptureStops(id) \/ StopCaptureErrs(id) \/ StopDrained(id)
         \/ StopWriterFinishes(id) \/ StopOperationReturns(id) \/ StopTimesOut(id)
  PROVE  ControllerInvariant' /\ ServiceStep
  <1>0. TypeOK
    BY DEF ControllerInvariant
  <1>1. CASE StopCaptureStops(id)
    <2>1. PICK op \in {"failed", "draining"} : stop' = [stop EXCEPT ![id].op = op]
      BY <1>1 DEF StopCaptureStops
    <2>2. /\ intake' \in [Id -> Intakes]
          /\ \A i \in Id : intake'[i].captureFailure = intake[i].captureFailure
      <3>1. CASE intake' = intake
        BY <1>0, <3>1 DEF TypeOK
      <3>2. CASE intake' = [intake EXCEPT ![id].accepting = FALSE]
        BY ZenonT(30), <1>0, <3>2 DEF TypeOK, Intakes
      <3> QED
        BY <1>1, <3>1, <3>2 DEF StopCaptureStops
    <2>3. TypeOK'
      <3>1. stop' \in [Id -> StopCalls]
        BY <1>0, <2>1 DEF TypeOK, StopCalls
      <3> QED
        BY <1>0, <1>1, <2>2, <3>1 DEF TypeOK, StopCaptureStops, actorVars, OptionalId
    <2>4. Beside /\ start' = start /\ capture' \in {capture, None}
      BY <1>0, <1>1, <2>1, <2>2 DEF Beside, StopCaptureStops, actorVars, TypeOK, StopCalls
    <2> QED
      BY <2>3, <2>4, BesideKeepsInvariant
  <1>2. ASSUME NEW op \in {"failed", "finishing", "succeeded"},
               stop' = [stop EXCEPT ![id].op = op],
               \/ disk' = disk
               \/ RemoveFiles([disk EXCEPT ![id].partial = FALSE]),
               UNCHANGED <<actorVars, autoTask, failTask, start, intake,
                           clock, stepBacks, capture, used, restarts, kept>>
        PROVE  ControllerInvariant' /\ ServiceStep
    <2>0. /\ disk' \in [Id -> Files]
          /\ \A i \in Id : disk'[i].mp4 = disk[i].mp4 /\ disk'[i].json = disk[i].json
      <3>1. CASE disk' = disk
        BY <1>0, <3>1 DEF TypeOK
      <3>2. CASE RemoveFiles([disk EXCEPT ![id].partial = FALSE])
        <4>1. disk \in [Id -> Files]
          BY <1>0 DEF TypeOK
        <4>2. PICK wanted : wanted = [disk EXCEPT ![id].partial = FALSE]
          OBVIOUS
        <4>3. /\ wanted \in [Id -> Files]
              /\ \A i \in Id : wanted[i].mp4 = disk[i].mp4 /\ wanted[i].json = disk[i].json
          BY <4>1, <4>2 DEF Files
        <4>4. RemoveFiles(wanted)
          BY <3>2, <4>2
        <4> QED
          BY <4>1, <4>3, <4>4, RemovalEffect
      <3> QED
        BY <1>2, <3>1, <3>2
    <2>1. TypeOK'
      <3>1. stop' \in [Id -> StopCalls]
        BY <1>0, <1>2 DEF TypeOK, StopCalls
      <3> QED
        BY <1>0, <1>2, <2>0, <3>1 DEF TypeOK, actorVars
    <2>2. Beside
      BY <1>0, <1>2, <2>0 DEF Beside, actorVars, TypeOK, StopCalls
    <2> QED
      BY <1>2, <2>1, <2>2, BesideKeepsInvariant
  <1>3. CASE StopCaptureErrs(id)
    BY <1>2, <1>3 DEF StopCaptureErrs, worldVars
  <1>4. CASE StopDrained(id)
    BY <1>2, <1>4 DEF StopDrained, worldVars
  <1>5. CASE StopWriterFinishes(id)
    BY <1>2, <1>5 DEF StopWriterFinishes
  <1>6. ASSUME NEW gate \in {"ok", "error", "timeout"},
               stop' = [stop EXCEPT ![id].gate = gate],
               UNCHANGED <<actorVars, autoTask, failTask, start, intake, worldVars>>
        PROVE  ControllerInvariant' /\ ServiceStep
    <2>1. TypeOK'
      BY SMTT(30), <1>0, <1>6 DEF TypeOK, actorVars, worldVars, StopCalls
    <2>2. Beside
      BY <1>0, <1>6 DEF Beside, actorVars, worldVars, TypeOK, StopCalls
    <2> QED
      BY <1>6, <2>1, <2>2, BesideKeepsInvariant DEF worldVars
  <1>7. CASE StopOperationReturns(id)
    BY <1>6, <1>7 DEF StopOperationReturns
  <1>8. CASE StopTimesOut(id)
    BY <1>6, <1>8 DEF StopTimesOut
  <1> QED
    BY <1>1, <1>3, <1>4, <1>5, <1>7, <1>8

(* A sample, the writer's append, a failure reported by ReplayKit and the  *)
(* waking of the automatic stop.                                           *)
LEMMA CaptureSteps ==
  ASSUME ControllerInvariant, NEW id \in Id,
         \/ SampleArrives(id) \/ WriterAppends(id) \/ ReplayKitFails(id) \/ AutomaticStopDue(id)
  PROVE  ControllerInvariant' /\ ServiceStep
  <1>0. TypeOK
    BY DEF ControllerInvariant
  <1>1. CASE SampleArrives(id)
    <2> USE <1>0, <1>1 DEF SampleArrives, actorVars, worldVars
    <2>1. TypeOK'
      BY ZenonT(30) DEF TypeOK, Intakes
    <2>2. Beside
      BY DEF Beside, TypeOK, Intakes
    <2> QED
      BY <2>1, <2>2, BesideKeepsInvariant
  <1>2. CASE WriterAppends(id)
    <2> DEFINE appended(c, f) ==
                 [intake[id] EXCEPT !.queued = FALSE, !.configured = c, !.workerFailed = f]
    <2>1. \E i \in {appended(TRUE, FALSE), appended(TRUE, TRUE), appended(FALSE, TRUE)} :
             intake' = [intake EXCEPT ![id] = i]
      BY <1>2, Zenon DEF WriterAppends
    <2>a. /\ appended(TRUE, FALSE) \in Intakes
          /\ appended(TRUE, TRUE) \in Intakes
          /\ appended(FALSE, TRUE) \in Intakes
      BY ZenonT(30), <1>0 DEF TypeOK, Intakes
    <2>b. /\ appended(TRUE, FALSE).captureFailure = intake[id].captureFailure
          /\ appended(TRUE, TRUE).captureFailure = intake[id].captureFailure
          /\ appended(FALSE, TRUE).captureFailure = intake[id].captureFailure
      BY <1>0 DEF TypeOK, Intakes
    <2>2. /\ intake' \in [Id -> Intakes]
          /\ \A i \in Id : intake'[i].captureFailure = intake[i].captureFailure
      <3>1. PICK i \in Intakes : /\ intake' = [intake EXCEPT ![id] = i]
                                 /\ i.captureFailure = intake[id].captureFailure
        BY <2>1, <2>a, <2>b, Zenon
      <3> HIDE DEF appended
      <3> QED
        BY <1>0, <3>1 DEF TypeOK
    <2>c. \/ disk' = [disk EXCEPT ![id].partial = TRUE]
          \/ disk' = [disk EXCEPT ![id].partial = FALSE]
      BY <1>2, Zenon DEF WriterAppends
    <2>3. /\ disk' \in [Id -> Files]
          /\ \A i \in Id : disk'[i].mp4 = disk[i].mp4 /\ disk'[i].json = disk[i].json
      BY <1>0, <2>c, PartialFileUpdate DEF TypeOK
    <2>4. TypeOK'
      BY <1>0, <1>2, <2>2, <2>3 DEF TypeOK, WriterAppends, actorVars
    <2>5. Beside
      BY <1>0, <1>2, <2>2, <2>3 DEF Beside, WriterAppends, actorVars
    <2> QED
      BY <1>2, <2>4, <2>5, BesideKeepsInvariant DEF WriterAppends
  <1>3. CASE ReplayKitFails(id)
    <2> USE <1>0, <1>3 DEF ReplayKitFails, actorVars
    <2>1. TypeOK'
      BY ZenonT(30) DEF TypeOK, Intakes, OptionalId
    <2>2. Beside
      BY DEF Beside, TypeOK, Intakes
    <2> QED
      BY <2>1, <2>2, BesideKeepsInvariant
  <1>4. CASE AutomaticStopDue(id)
    <2> USE <1>0, <1>4 DEF AutomaticStopDue, actorVars, worldVars
    <2>1. TypeOK'
      BY DEF TypeOK
    <2>2. Beside
      BY DEF Beside, TypeOK
    <2> QED
      BY <2>1, <2>2, BesideKeepsInvariant
  <1> QED
    BY <1>1, <1>2, <1>3, <1>4

(* The steps of a start operation, of ReplayKit's answer and of the timer: *)
(* the gate is won by what the operation did, and a capture runs only for  *)
(* a start whose operation knows of it.                                    *)
LEMMA StartOperationSteps ==
  ASSUME ControllerInvariant, NEW id \in Id,
         \/ StartCaptureResumes(id)
         \/ \E stopped \in BOOLEAN : StartCaptureGivesUp(id, stopped)
         \/ StartOperationReturns(id) \/ StartTimesOut(id)
         \/ ReplayKitStarts(id) \/ ReplayKitRefuses(id)
  PROVE  ControllerInvariant' /\ ServiceStep
  <1>0. TypeOK /\ Starts
    BY DEF ControllerInvariant
  <1>a. ASSUME NEW op \in {"started", "stoppingLate", "stoppingFailed", "succeeded",
                           "refused", "abandoned"},
               start' = [start EXCEPT ![id].op = op],
               start[id].op \notin {"none", "succeeded", "refused", "abandoned"},
               \/ op # "refused" /\ capture' \in {capture, None}
               \/ op = "refused" /\ capture' = capture /\ start[id].op = "calling"
               \/ op = "started" /\ capture' = id,
               unsettledStartID' \in {unsettledStartID, None},
               UNCHANGED <<machine, activeID, activeURL, captureStartedAt, automaticStop,
                           autoTask, failTask, stop, intake, clock, stepBacks, disk, used,
                           restarts, kept>>
        PROVE  ControllerInvariant' /\ ServiceStep
    <2>1. TypeOK'
      BY <1>0, <1>a DEF TypeOK, StartCalls, OptionalId
    <2>2. Beside
      BY <1>0, <1>a DEF Beside, TypeOK, StartCalls
    <2>3. /\ \A i \in Id : i # id => start'[i] = start[i]
          /\ start'[id].op = op
          /\ start'[id].gate = start[id].gate
          /\ start'[id].frame = start[id].frame
      BY <1>0, <1>a DEF TypeOK, StartCalls
    <2>4. start[id].gate \in {"open", "timeout"}
      BY <1>0, <1>a DEF Starts, TypeOK, StartCalls
    <2>5. Starts'
      BY <1>0, <1>a, <2>3, <2>4 DEF Starts
    <2> QED
      BY <2>1, <2>2, <2>5, BesideIsQuiet DEF ControllerInvariant
  <1>1. CASE StartCaptureResumes(id)
    BY <1>a, <1>1 DEF StartCaptureResumes, worldVars
  <1>2. CASE \E stopped \in BOOLEAN : StartCaptureGivesUp(id, stopped)
    BY <1>a, <1>2 DEF StartCaptureGivesUp
  <1>3. CASE ReplayKitStarts(id)
    BY <1>a, <1>3 DEF ReplayKitStarts, actorVars
  <1>4. CASE ReplayKitRefuses(id)
    BY <1>a, <1>4 DEF ReplayKitRefuses, worldVars
  <1>b. ASSUME NEW gate \in {"ok", "error", "timeout"},
               start' = [start EXCEPT ![id].gate = gate],
               start[id].gate = "open",
               gate = "ok" => start[id].op = "succeeded",
               gate = "error" => start[id].op \in {"refused", "abandoned"},
               UNCHANGED <<actorVars, autoTask, failTask, stop, intake, worldVars>>
        PROVE  ControllerInvariant' /\ ServiceStep
    <2> USE DEF actorVars, worldVars
    <2>1. TypeOK'
      BY <1>0, <1>b DEF TypeOK, StartCalls
    <2>2. Beside
      BY <1>0, <1>b DEF Beside, TypeOK, StartCalls
    <2>3. /\ \A i \in Id : i # id => start'[i] = start[i]
          /\ start'[id].op = start[id].op
          /\ start'[id].gate = gate
          /\ start'[id].frame = start[id].frame
      BY <1>0, <1>b DEF TypeOK, StartCalls
    <2>4. Starts'
      BY <1>0, <1>b, <2>3 DEF Starts
    <2> QED
      BY <2>1, <2>2, <2>4, BesideIsQuiet DEF ControllerInvariant
  <1>5. CASE StartOperationReturns(id)
    BY <1>b, <1>5 DEF StartOperationReturns
  <1>6. CASE StartTimesOut(id)
    BY <1>b, <1>6 DEF StartTimesOut
  <1> QED
    BY <1>1, <1>2, <1>3, <1>4, <1>5, <1>6

--------------------------------------------------------------------------------
(* Facts about the actor's helpers. *)

(* Cancelling the automatic stop leaves a table of tasks. *)
LEMMA CancelledType ==
  ASSUME TypeOK
  PROVE  Cancelled(autoTask) \in [Id -> {"none", "sleeping", "due"}]
  BY DEF Cancelled, TypeOK, OptionalId

(* Closing the intake of the active recording records no failure. *)
LEMMA ClosedEffect ==
  ASSUME TypeOK
  PROVE  Closed(intake) \in [Id -> Intakes]
  <1>1. CASE activeID = None
    BY <1>1 DEF Closed, TypeOK
  <1>2. CASE activeID # None
    BY ZenonT(30), <1>2 DEF Closed, TypeOK, OptionalId, Intakes
  <1> QED
    BY <1>1, <1>2

(* Without a step back of the clock every event is current. *)
LEMMA EventsAreCurrent ==
  ASSUME ControllerInvariant, stepBacks = 0
  PROVE  IsCurrent(machine, clock)
  BY DEF ControllerInvariant, TypeOK, Machine, ClockIsMonotone, IsCurrent

(* The retention rule deletes recordings that have metadata. *)
LEMMA DeletedHaveMetadata ==
  /\ DOMAIN CreatedAt = {i \in Id : disk[i].json # None}
  /\ ToDelete(clock, CreatedAt) \subseteq {i \in Id : disk[i].json # None}
  <1>1. DOMAIN CreatedAt = {i \in Id : disk[i].json # None}
    BY DEF CreatedAt
  <1>2. ToDelete(clock, CreatedAt) \subseteq DOMAIN CreatedAt
    BY DEF ToDelete, Expired, OverLimit
  <1> QED
    BY <1>1, <1>2

(* A cleanup takes both files of what the rule deletes and spares both     *)
(* files of every other complete recording.                                *)
LEMMA CleanedFilesEffect ==
  ASSUME TypeOK, NEW deleted
  PROVE  /\ CleanedFiles(deleted) \in [Id -> Files]
         /\ \A i \in Id :
               /\ CleanedFiles(deleted)[i].json = None <=> (i \in deleted \/ disk[i].json = None)
               /\ CleanedFiles(deleted)[i].mp4 <=>
                     (disk[i].mp4 /\ disk[i].json # None /\ i \notin deleted)
  <1>1. DOMAIN CreatedAt = {i \in Id : disk[i].json # None}
    BY DEF CreatedAt
  <1>2. ASSUME NEW i \in Id
        PROVE  CleanedFiles(deleted)[i] =
                 [partial |-> disk[i].partial /\ activeID = i /\ activeURL = "partial",
                  mp4 |-> disk[i].mp4 /\ i \in DOMAIN CreatedAt \ deleted,
                  json |-> IF i \in deleted THEN None ELSE disk[i].json]
    BY DEF CleanedFiles
  <1>3. ASSUME NEW i \in Id
        PROVE  (IF i \in deleted THEN None ELSE disk[i].json) \in Int \cup {None}
    BY DEF TypeOK, Files
  <1>4. ASSUME NEW i \in Id
        PROVE  /\ CleanedFiles(deleted)[i] \in Files
               /\ CleanedFiles(deleted)[i].json = IF i \in deleted THEN None ELSE disk[i].json
               /\ CleanedFiles(deleted)[i].mp4 = (disk[i].mp4 /\ i \in DOMAIN CreatedAt \ deleted)
    <2>1. PICK partial \in BOOLEAN : partial = (disk[i].partial /\ activeID = i /\ activeURL = "partial")
      BY Zenon
    <2>2. PICK mp4 \in BOOLEAN : mp4 = (disk[i].mp4 /\ i \in DOMAIN CreatedAt \ deleted)
      BY Zenon
    <2>3. PICK json \in Int \cup {None} : json = IF i \in deleted THEN None ELSE disk[i].json
      BY <1>3
    <2>4. CleanedFiles(deleted)[i] = [partial |-> partial, mp4 |-> mp4, json |-> json]
      BY <1>2, <2>1, <2>2, <2>3, Zenon
    <2>5. CleanedFiles(deleted)[i] \in Files
      BY <2>4 DEF Files
    <2>6. CleanedFiles(deleted)[i].json = json /\ CleanedFiles(deleted)[i].mp4 = mp4
      BY <2>4
    <2> QED
      BY <2>2, <2>3, <2>5, <2>6, Zenon
  <1>5. CleanedFiles(deleted) \in [Id -> Files]
    BY <1>4 DEF CleanedFiles
  <1>6. ASSUME NEW i \in Id
        PROVE  /\ CleanedFiles(deleted)[i].json = None <=> (i \in deleted \/ disk[i].json = None)
               /\ CleanedFiles(deleted)[i].mp4 <=>
                     (disk[i].mp4 /\ disk[i].json # None /\ i \notin deleted)
    BY <1>1, <1>4, Zenon
  <1> QED
    BY <1>5, <1>6

(* discardPartial takes nothing but the partial file of a recording that   *)
(* is not ready.                                                           *)
LEMMA WithoutActiveFileEffect ==
  ASSUME TypeOK, activeID \in Id, activeURL = "partial"
  PROVE  /\ WithoutActiveFile \in [Id -> Files]
         /\ \A i \in Id : /\ WithoutActiveFile[i].mp4 = disk[i].mp4
                          /\ WithoutActiveFile[i].json = disk[i].json
  <1> DEFINE partial == disk[activeID].partial /\ activeURL # "partial"
             mp4 == disk[activeID].mp4 /\ activeURL # "mp4"
             without == [partial |-> partial, mp4 |-> mp4, json |-> disk[activeID].json]
  <1>1. partial = FALSE
    BY Zenon
  <1>2. mp4 = disk[activeID].mp4
    BY DEF TypeOK, Files
  <1>3. WithoutActiveFile = [disk EXCEPT ![activeID] = without]
    <2>1. activeID # None
      OBVIOUS
    <2> QED
      BY <2>1, Zenon DEF WithoutActiveFile
  <1>4. without \in Files /\ without.mp4 = disk[activeID].mp4 /\ without.json = disk[activeID].json
    <2> HIDE DEF partial, mp4
    <2> QED
      BY <1>1, <1>2 DEF TypeOK, Files
  <1> HIDE DEF without
  <1> QED
    BY <1>3, <1>4 DEF TypeOK

--------------------------------------------------------------------------------
(* The actor's steps. *)

(* A recording that an accepted stop request ends: the one stop call of    *)
(* the session is suspended, whoever made it.                              *)
LEMMA StopBegins ==
  ASSUME ControllerInvariant,
         AcceptsStopRequested(machine, clock),
         machine' = StopRequested(machine, clock),
         stop' = [stop EXCEPT ![activeID] =
                    [frame |-> "awaiting", op |-> "stoppingCapture", gate |-> "open", at |-> clock]],
         automaticStop' = None,
         autoTask' \in [Id -> {"none", "sleeping", "due"}],
         failTask' \subseteq failTask,
         UNCHANGED <<activeID, activeURL, captureStartedAt, unsettledStartID, start, intake, worldVars>>
  PROVE  ControllerInvariant' /\ ServiceStep
  <1> USE DEF ControllerInvariant, worldVars
  <1>0. /\ machine.phase = "recording"
        /\ activeID \in Id
        /\ captureStartedAt # None
        /\ clock \in Int /\ machine \in Machine
    BY DEF AcceptsStopRequested, Sessions, TypeOK, OptionalId
  <1>1. /\ machine' \in Machine
        /\ machine'.phase = "stopping"
        /\ machine'.recording = None
        /\ machine'.lastEventAt = clock
    BY <1>0, StopRequestedEffect
  <1>2. /\ stop' \in [Id -> StopCalls]
        /\ stop'[activeID].frame = "awaiting" /\ stop'[activeID].at = clock
        /\ \A i \in Id : i # activeID => stop'[i] = stop[i]
    BY <1>0 DEF TypeOK, StopCalls
  <1>3. TypeOK'
    BY <1>1, <1>2 DEF TypeOK, OptionalId
  <1>4. Sessions'
    BY <1>0, <1>1, <1>2 DEF Sessions
  <1>5. Library'
    BY <1>0, <1>1 DEF Library
  <1>6. ClockIsMonotone'
    BY <1>0, <1>1, <1>2 DEF ClockIsMonotone
  <1>7. Starts'
    BY <1>0, <1>1, <1>2 DEF Starts
  <1>8. RecordingWillBeStopped'
    BY <1>1 DEF RecordingWillBeStopped
  <1>9. ServiceStep
    <2>1. Offered' = Offered
      BY <1>0, <1>1 DEF Offered, Sessions
    <2>2. Downloadable' = Downloadable
      BY DEF Downloadable
    <2> QED
      BY <1>0, <1>1, <2>1, <2>2 DEF ServiceStep, Service!Next, Service!BeginStop
  <1> QED
    BY <1>3, <1>4, <1>5, <1>6, <1>7, <1>8, <1>9

(* stop() never finds itself without a recording. *)
LEMMA StopCallBegins ==
  ASSUME ControllerInvariant, StopCall
  PROVE  /\ AcceptsStopRequested(machine, clock)
         /\ machine' = StopRequested(machine, clock)
         /\ stop' = [stop EXCEPT ![activeID] =
                    [frame |-> "awaiting", op |-> "stoppingCapture", gate |-> "open", at |-> clock]]
         /\ automaticStop' = None
         /\ autoTask' \in [Id -> {"none", "sleeping", "due"}]
         /\ UNCHANGED <<activeID, activeURL, captureStartedAt, intake, disk>>
  <1>1. activeID # None /\ captureStartedAt # None
    BY DEF StopCall, ControllerInvariant, Sessions, AcceptsStopRequested
  <1>2. autoTask' = Cancelled(autoTask)
    BY <1>1 DEF StopCall
  <1>3. autoTask' \in [Id -> {"none", "sleeping", "due"}]
    BY <1>2, CancelledType DEF ControllerInvariant
  <1> QED
    BY <1>1, <1>3 DEF StopCall

(* stop() on request, from the automatic stop and from a failure task: the *)
(* task that finds nothing to stop is not the one that had to.             *)
LEMMA StopSteps ==
  ASSUME ControllerInvariant,
         RequestStop \/ \E id \in Id : AutomaticStop(id) \/ FailureStop(id)
  PROVE  ControllerInvariant' /\ ServiceStep
  <1>0. TypeOK
    BY DEF ControllerInvariant
  <1>n. ASSUME NEW id \in Id, ~StopIfCurrentGuard(id), stepBacks = 0
        PROVE  ~(activeID = id /\ machine.phase = "recording")
    BY <1>n, EventsAreCurrent DEF StopIfCurrentGuard, AcceptsStopRequested
  <1>1. CASE RequestStop
    BY <1>1, StopCallBegins, StopBegins DEF RequestStop, worldVars
  <1>2. ASSUME NEW id \in Id, AutomaticStop(id)
        PROVE  ControllerInvariant' /\ ServiceStep
    <2>0. autoTask' \in [Id -> {"none", "sleeping", "due"}]
      BY <1>0, <1>2 DEF AutomaticStop, TypeOK
    <2>1. CASE StopIfCurrentGuard(id)
      <3>1. AcceptsStopRequested(machine, clock) /\ activeID = id
        BY <2>1 DEF StopIfCurrentGuard
      <3> QED
        BY <1>2, <2>0, <2>1, <3>1, StopBegins DEF AutomaticStop
    <2>2. CASE ~StopIfCurrentGuard(id)
      <3> USE DEF AutomaticStop, worldVars
      <3>1. UNCHANGED <<machine, stop, automaticStop>>
        BY <1>2, <2>2
      <3>2. \A i \in Id : i # id => autoTask'[i] = autoTask[i]
        BY <1>0, <1>2 DEF TypeOK
      <3>3. TypeOK'
        BY <1>0, <1>2, <2>0, <3>1 DEF TypeOK
      <3>4. Sessions' /\ Library' /\ ClockIsMonotone' /\ Starts'
        BY <1>2, <3>1 DEF ControllerInvariant, Sessions, Library, ClockIsMonotone, Starts
      <3>5. RecordingWillBeStopped'
        BY <1>0, <1>2, <1>n, <2>2, <3>1, <3>2
           DEF ControllerInvariant, RecordingWillBeStopped, TypeOK, OptionalId
      <3>6. ServiceStep
        BY <1>2, <3>1 DEF ServiceStep, Service!vars, Offered, Downloadable
      <3> QED
        BY <3>3, <3>4, <3>5, <3>6 DEF ControllerInvariant
    <2> QED
      BY <2>1, <2>2
  <1>3. ASSUME NEW id \in Id, FailureStop(id)
        PROVE  ControllerInvariant' /\ ServiceStep
    <2>1. CASE StopIfCurrentGuard(id)
      BY <1>3, <2>1, StopCallBegins, StopBegins DEF FailureStop, worldVars
    <2>2. CASE ~StopIfCurrentGuard(id)
      <3> USE DEF FailureStop
      <3>1. UNCHANGED <<machine, activeID, activeURL, captureStartedAt, automaticStop,
                        autoTask, stop, intake, disk>>
        BY <1>3, <2>2
      <3>3. TypeOK'
        BY <1>0, <1>3, <3>1 DEF TypeOK
      <3>4. Sessions' /\ Library' /\ ClockIsMonotone' /\ Starts'
        BY <1>3, <3>1 DEF ControllerInvariant, Sessions, Library, ClockIsMonotone, Starts
      <3>5. RecordingWillBeStopped'
        BY <1>3, <1>n, <2>2, <3>1 DEF ControllerInvariant, RecordingWillBeStopped
      <3>6. ServiceStep
        BY <3>1 DEF ServiceStep, Service!vars, Offered, Downloadable
      <3> QED
        BY <3>3, <3>4, <3>5, <3>6 DEF ControllerInvariant
    <2> QED
      BY <2>1, <2>2
  <1> QED
    BY <1>1, <1>2, <1>3

(* A failure event that the machine may refuse for its instant. *)
LEMMA FailedIfCurrentEffect ==
  ASSUME clock \in Int, NEW m \in Machine, NEW code \in Code
  PROVE  \/ FailedIfCurrent(m, code) = m
         \/ /\ FailedIfCurrent(m, code) \in Machine
            /\ FailedIfCurrent(m, code).phase = "failed"
            /\ FailedIfCurrent(m, code).recording = None
            /\ FailedIfCurrent(m, code).lastEventAt = clock
  <1>1. CASE AcceptsFailed(m, clock)
    BY <1>1, FailedEffect DEF FailedIfCurrent
  <1>2. CASE ~AcceptsFailed(m, clock)
    BY <1>2 DEF FailedIfCurrent
  <1> QED
    BY <1>1, <1>2

(* What DiscardPartial and DiscardNothing do to the files: at most a movie *)
(* appears that has no metadata.                                           *)
LEMMA DiscardEffect ==
  ASSUME TypeOK, Library, activeID \in Id, activeURL = "partial", machine.phase # "ready",
         DiscardPartial \/ DiscardNothing(activeID)
  PROVE  /\ ClearActive
         /\ disk' \in [Id -> Files]
         /\ Downloadable' = Downloadable
         /\ \A i \in Id : /\ disk'[i].json = disk[i].json
                          /\ disk[i].json # None => disk'[i].mp4 = disk[i].mp4
  <1>1. CASE DiscardPartial
    <2>1. PICK wanted \in [Id -> Files] :
             /\ wanted = WithoutActiveFile
             /\ \A i \in Id : wanted[i].mp4 = disk[i].mp4 /\ wanted[i].json = disk[i].json
      BY WithoutActiveFileEffect
    <2>2. ClearActive /\ RemoveFiles(wanted)
      BY <1>1, <2>1 DEF DiscardPartial
    <2>3. /\ disk' \in [Id -> Files]
          /\ \A i \in Id : disk'[i].mp4 = disk[i].mp4 /\ disk'[i].json = disk[i].json
      BY <2>1, <2>2, RemovalEffect DEF TypeOK
    <2> QED
      BY <2>2, <2>3 DEF Downloadable
  <1>2. CASE DiscardNothing(activeID)
    <2>1. ClearActive /\ disk' = [disk EXCEPT ![activeID].partial = FALSE, ![activeID].mp4 = TRUE]
      BY <1>2 DEF DiscardNothing
    <2>2. /\ disk' \in [Id -> Files]
          /\ \A i \in Id : /\ disk'[i].json = disk[i].json
                           /\ i # activeID => disk'[i] = disk[i]
      BY ZenonT(30), <2>1 DEF TypeOK, Files
    <2>3. disk[activeID].json = None
      BY DEF Library
    <2> QED
      BY <2>1, <2>2, <2>3 DEF Downloadable
  <1> QED
    BY <1>1, <1>2

(* The catch blocks of start and stop: the session ends, its partial file  *)
(* goes if it can be removed, and nothing that was complete goes with it.  *)
LEMMA SessionFails ==
  ASSUME ControllerInvariant,
         machine.phase \in {"starting", "stopping"}, activeID \in Id,
         NEW code \in Code, machine' = FailedIfCurrent(machine, code),
         DiscardPartial \/ DiscardNothing(activeID),
         start' \in [Id -> StartCalls], stop' \in [Id -> StopCalls],
         \A i \in Id :
            /\ start'[i].op = start[i].op /\ start'[i].gate = start[i].gate
            /\ start'[i].frame # "awaiting"
            /\ ~(start[i].op # "none" /\ start[i].gate = "open")
            /\ stepBacks = 0 /\ start[i].gate = "ok" => start[i].frame # "awaiting"
            /\ stop'[i].at = stop[i].at
            /\ stop'[i].frame # "awaiting"
            /\ stop'[i].frame = "none" <=> stop[i].frame = "none",
         UNCHANGED <<unsettledStartID, failTask, clock, stepBacks, capture, used, restarts, kept>>
  PROVE  ControllerInvariant' /\ ServiceStep
  <1> USE DEF ControllerInvariant
  <1>0. /\ clock \in Int /\ machine \in Machine /\ TypeOK /\ activeID # None
        /\ activeURL = "partial" /\ machine.phase # "ready"
    BY DEF TypeOK, Sessions
  <1>1. \/ machine' = machine
        \/ /\ machine' \in Machine
           /\ machine'.phase = "failed"
           /\ machine'.recording = None
           /\ machine'.lastEventAt = clock
    BY <1>0, FailedIfCurrentEffect
  <1>2. /\ ClearActive
        /\ disk' \in [Id -> Files]
        /\ Downloadable' = Downloadable
        /\ \A i \in Id : /\ disk'[i].json = disk[i].json
                         /\ disk[i].json # None => disk'[i].mp4 = disk[i].mp4
    BY <1>0, DiscardEffect
  <1> USE <1>2 DEF ClearActive
  <1>3. TypeOK'
    BY <1>0, <1>1, <1>2, CancelledType, ClosedEffect DEF TypeOK, OptionalId
  <1>4. Sessions'
    BY <1>0, <1>1 DEF Sessions
  <1>5. Library'
    BY <1>0, <1>1, <1>2 DEF Library, TypeOK
  <1>6. ClockIsMonotone'
    BY <1>0, <1>1 DEF ClockIsMonotone
  <1>7. Starts'
    BY <1>0 DEF Starts
  <1>8. RecordingWillBeStopped'
    BY <1>1 DEF RecordingWillBeStopped
  <1>9. ServiceStep
    <2>2. Offered' = Offered
      BY <1>1 DEF Offered, Sessions
    <2> QED
      BY <1>1, <1>2, <2>2 DEF ServiceStep, Service!vars, Service!Next, Service!Fail
  <1> QED
    BY <1>3, <1>4, <1>5, <1>6, <1>7, <1>8, <1>9

(* A start that fails, and a stop that fails. *)
LEMMA FailureSteps ==
  ASSUME ControllerInvariant, NEW id \in Id, StartFails(id) \/ StopFails(id)
  PROVE  ControllerInvariant' /\ ServiceStep
  <1>0. TypeOK /\ Sessions /\ Starts
    BY DEF ControllerInvariant
  <1>1. CASE StartFails(id)
    <2>1. activeID = id /\ machine.phase = "starting"
      BY <1>0, <1>1 DEF StartFails, Sessions
    <2>2. PICK code \in Code : machine' = FailedIfCurrent(machine, code)
      <3>1. StartErrorCode(start[id].gate) \in Code
        BY DEF StartErrorCode
      <3> QED
        BY <1>1, <2>1, <3>1 DEF StartFails
    <2>3. /\ start' \in [Id -> StartCalls]
          /\ start'[id].frame = "done"
          /\ \A i \in Id : /\ start'[i].op = start[i].op /\ start'[i].gate = start[i].gate
                           /\ i # id => start'[i] = start[i]
      BY <1>0, <1>1 DEF StartFails, TypeOK, StartCalls
    <2>4. start[id].gate # "open" /\ (stepBacks = 0 => start[id].gate # "ok")
      <3>1. stepBacks = 0 => AcceptsCaptureStarted(machine, clock)
        BY <2>1, EventsAreCurrent DEF AcceptsCaptureStarted
      <3> QED
        BY <1>1, <3>1 DEF StartFails
    <2>5. \A i \in Id : i # id => start[i].frame # "awaiting"
      BY <1>0, <2>1 DEF Sessions
    <2>6. \A i \in Id : stop[i].frame # "awaiting"
      BY <1>0, <2>1 DEF Sessions
    <2>7. \A i \in Id : ~(start[i].op # "none" /\ start[i].gate = "open")
      BY <1>0, <2>4, <2>5 DEF Starts
    <2>8. \A i \in Id : start'[i].frame # "awaiting"
      BY <2>3, <2>5
    <2>9. \A i \in Id : stepBacks = 0 /\ start[i].gate = "ok" => start[i].frame # "awaiting"
      BY <2>4, <2>5
    <2>10. stop' \in [Id -> StopCalls]
      BY <1>0, <1>1 DEF StartFails, TypeOK
    <2> QED
      BY <1>1, <2>1, <2>2, <2>3, <2>6, <2>7, <2>8, <2>9, <2>10, SessionFails DEF StartFails
  <1>2. CASE StopFails(id)
    <2>1. activeID = id /\ machine.phase = "stopping"
      BY <1>0, <1>2 DEF StopFails, Sessions
    <2>2. PICK code \in Code : machine' = FailedIfCurrent(machine, code)
      BY <1>2 DEF StopFails
    <2>3. /\ stop' \in [Id -> StopCalls]
          /\ stop'[id].frame = "done"
          /\ \A i \in Id : stop'[i].at = stop[i].at /\ (i # id => stop'[i] = stop[i])
      BY <1>0, <1>2 DEF StopFails, TypeOK, StopCalls
    <2>4. \A i \in Id : start[i].frame # "awaiting"
      BY <1>0, <2>1 DEF Sessions
    <2>5. \A i \in Id : stop[i].frame = "awaiting" <=> i = id
      BY <1>0, <2>1 DEF Sessions
    <2>6. PICK frame \in {"none", "stopping", "done"} : start' = [start EXCEPT ![id].frame = frame]
      BY <1>0, <1>2, <2>4 DEF StopFails, StartReturnsToo, TypeOK, StartCalls
    <2>7. /\ start' \in [Id -> StartCalls]
          /\ \A i \in Id : /\ start'[i].op = start[i].op /\ start'[i].gate = start[i].gate
                           /\ start'[i].frame # "awaiting"
      BY <1>0, <2>4, <2>6 DEF TypeOK, StartCalls
    <2>8. \A i \in Id : ~(start[i].op # "none" /\ start[i].gate = "open")
      BY <1>0, <2>4 DEF Starts
    <2>9. \A i \in Id : stop'[i].frame # "awaiting" /\ (stop'[i].frame = "none" <=> stop[i].frame = "none")
      BY <2>3, <2>5
    <2> QED
      BY <1>2, <2>1, <2>2, <2>3, <2>4, <2>7, <2>8, <2>9, SessionFails DEF StopFails
  <1> QED
    BY <1>1, <1>2

(* The publication of a started capture, and the stop of one that failed   *)
(* before it could be published.                                           *)
LEMMA PublicationSteps ==
  ASSUME ControllerInvariant, NEW id \in Id, StartPublishes(id) \/ StartPublishesFailure(id)
  PROVE  ControllerInvariant' /\ ServiceStep
  <1> USE DEF ControllerInvariant, worldVars
  <1>0. /\ activeID = id /\ machine.phase = "starting"
        /\ clock \in Int /\ machine \in Machine /\ TypeOK
        /\ machine.recording = None
    BY DEF StartPublishes, StartPublishesFailure, Sessions, TypeOK
  <1>d. Downloadable' = Downloadable
    BY DEF StartPublishes, StartPublishesFailure, Downloadable
  <1>1. CASE StartPublishes(id)
    <2> USE <1>1 DEF StartPublishes
    <2>1. /\ machine' \in Machine
          /\ machine'.phase = "recording"
          /\ machine'.recording = None
          /\ machine'.lastEventAt = clock
      BY <1>0, CaptureStartedEffect
    <2>2. /\ start' \in [Id -> StartCalls]
          /\ start'[id].frame = "done"
          /\ \A i \in Id : /\ start'[i].op = start[i].op /\ start'[i].gate = start[i].gate
                           /\ i # id => start'[i] = start[i]
      BY <1>0 DEF TypeOK, StartCalls
    <2>3. TypeOK'
      BY <1>0, <2>1, <2>2 DEF TypeOK, OptionalId
    <2>4. Sessions'
      BY <1>0, <2>1, <2>2 DEF Sessions
    <2>5. Library'
      BY <1>0, <2>1 DEF Library
    <2>6. ClockIsMonotone'
      BY <1>0, <2>1 DEF ClockIsMonotone
    <2>7. Starts'
      BY <1>0, <2>1, <2>2 DEF Starts
    <2>8. RecordingWillBeStopped'
      BY <1>0 DEF RecordingWillBeStopped, TypeOK
    <2>9. ServiceStep
      BY <1>0, <1>d, <2>1 DEF ServiceStep, Service!Next, Service!Begin, Offered
    <2> QED
      BY <2>3, <2>4, <2>5, <2>6, <2>7, <2>8, <2>9
  <1>2. CASE StartPublishesFailure(id)
    <2> USE <1>2 DEF StartPublishesFailure
    <2>1. /\ machine' \in Machine
          /\ machine'.phase = "stopping"
          /\ machine'.recording = None
          /\ machine'.lastEventAt = clock
      <3>1. PICK m \in Machine : m = CaptureStarted(machine, clock)
        BY <1>0, CaptureStartedEffect
      <3>2. machine' = StopRequested(m, clock)
        BY <3>1
      <3>3. /\ StopRequested(m, clock) \in Machine
            /\ StopRequested(m, clock).phase = "stopping"
            /\ StopRequested(m, clock).recording = None
            /\ StopRequested(m, clock).lastEventAt = clock
        BY <1>0, StopRequestedEffect
      <3> QED
        BY <3>2, <3>3
    <2>2. /\ start' \in [Id -> StartCalls]
          /\ start'[id].frame = "stopping"
          /\ \A i \in Id : /\ start'[i].op = start[i].op /\ start'[i].gate = start[i].gate
                           /\ i # id => start'[i] = start[i]
      BY <1>0 DEF TypeOK, StartCalls
    <2>a. /\ stop' \in [Id -> StopCalls]
          /\ stop'[id].frame = "awaiting" /\ stop'[id].at = clock
          /\ \A i \in Id : i # id => stop'[i] = stop[i]
      BY <1>0 DEF TypeOK, StopCalls
    <2>3. TypeOK'
      BY <1>0, <2>1, <2>2, <2>a, CancelledType DEF TypeOK, OptionalId
    <2>4. Sessions'
      BY <1>0, <2>1, <2>2, <2>a DEF Sessions
    <2>5. Library'
      BY <1>0, <2>1 DEF Library
    <2>6. ClockIsMonotone'
      BY <1>0, <2>1, <2>a DEF ClockIsMonotone
    <2>7. Starts'
      BY <1>0, <2>1, <2>2, <2>a DEF Starts
    <2>8. RecordingWillBeStopped'
      BY <2>1 DEF RecordingWillBeStopped
    <2>9. ServiceStep
      BY <1>0, <1>d, <2>1 DEF ServiceStep, Service!Next, Service!Begin, Offered
    <2> QED
      BY <2>3, <2>4, <2>5, <2>6, <2>7, <2>8, <2>9
  <1> QED
    BY <1>1, <1>2

(* What the cleanup of a start leaves of the library. *)
LEMMA StartCleans ==
  ASSUME TypeOK, Library,
         \/ UNCHANGED <<disk, kept>>
         \/ /\ RemoveFiles(CleanedFiles(ToDelete(clock, CreatedAt)))
            /\ kept' = kept \ ToDelete(clock, CreatedAt)
  PROVE  /\ disk' \in [Id -> Files]
         /\ kept' \subseteq Id
         /\ \A i \in kept' : disk'[i].mp4 /\ disk'[i].json # None
         /\ \A i \in Id : disk[i].json = None => disk'[i].json = None
         /\ Downloadable' \subseteq Downloadable
  <1>1. CASE UNCHANGED <<disk, kept>>
    BY <1>1 DEF TypeOK, Library, Downloadable
  <1>2. CASE /\ RemoveFiles(CleanedFiles(ToDelete(clock, CreatedAt)))
             /\ kept' = kept \ ToDelete(clock, CreatedAt)
    <2>1. PICK deleted : deleted = ToDelete(clock, CreatedAt)
      OBVIOUS
    <2>2. PICK cleaned \in [Id -> Files] :
             /\ cleaned = CleanedFiles(deleted)
             /\ \A i \in Id :
                  /\ cleaned[i].json = None <=> (i \in deleted \/ disk[i].json = None)
                  /\ cleaned[i].mp4 <=> (disk[i].mp4 /\ disk[i].json # None /\ i \notin deleted)
      BY CleanedFilesEffect
    <2>3. kept' = kept \ deleted /\ RemoveFiles(cleaned)
      BY <1>2, <2>1, <2>2
    <2>4. /\ disk' \in [Id -> Files]
          /\ \A i \in Id :
               /\ disk'[i].mp4 = disk[i].mp4 \/ disk'[i].mp4 = cleaned[i].mp4
               /\ disk'[i].json = disk[i].json \/ disk'[i].json = cleaned[i].json
      BY <2>3, RemovalEffect DEF TypeOK
    <2>5. \A i \in Id :
            /\ disk[i].json = None => disk'[i].json = None
            /\ disk'[i].mp4 => disk[i].mp4
            /\ disk[i].mp4 /\ disk[i].json # None /\ i \notin deleted =>
                  disk'[i].mp4 /\ disk'[i].json # None
      BY <2>2, <2>4
    <2>6. Downloadable' \subseteq Downloadable
      BY <2>5 DEF Downloadable
    <2> QED
      BY <2>3, <2>4, <2>5, <2>6 DEF TypeOK, Library
  <1> QED
    BY <1>1, <1>2

(* A start that is accepted, and one that fails before its capture: the    *)
(* recordings that were kept stay whole, and the session begins anew.      *)
LEMMA StartSteps ==
  ASSUME ControllerInvariant, (\E id \in Id : StartCall(id)) \/ StartUnavailable
  PROVE  ControllerInvariant' /\ ServiceStep
  <1> USE DEF ControllerInvariant
  <1>0. /\ TypeOK /\ Sessions /\ Library /\ Starts
        /\ clock \in Int
        /\ MaximumDuration \in Int
    BY DEF TypeOK
  <1>1. /\ machine.phase \in {"idle", "failed"}
        /\ StartableMachine \in Machine
    BY <1>0, IdleIsAMachine
       DEF StartCall, StartUnavailable, StartGuard, AcceptsStartRequested, StartableMachine,
           AcceptsReset, ClearToIdle, TypeOK
  <1>2. activeID = None /\ activeURL = None /\ machine.recording = None
    BY <1>0, <1>1 DEF Sessions
  <1>3. \A i \in Id : start[i].frame # "awaiting" /\ stop[i].frame # "awaiting"
    BY <1>0, <1>2 DEF Sessions
  <1>4. PICK started \in Machine :
           /\ started = StartRequested(StartableMachine, clock, MaximumDuration)
           /\ started.phase = "starting"
           /\ started.recording = None
           /\ started.lastEventAt = clock
    BY <1>0, <1>1, StartRequestedEffect
  <1>5. /\ disk' \in [Id -> Files]
        /\ kept' \subseteq Id
        /\ \A i \in kept' : disk'[i].mp4 /\ disk'[i].json # None
        /\ \A i \in Id : disk[i].json = None => disk'[i].json = None
        /\ Downloadable' \subseteq Downloadable
    <2>1. \/ UNCHANGED <<disk, kept>>
          \/ /\ RemoveFiles(CleanedFiles(ToDelete(clock, CreatedAt)))
             /\ kept' = kept \ ToDelete(clock, CreatedAt)
      BY DEF StartCall, StartUnavailable
    <2> QED
      BY <1>0, <2>1, StartCleans
  <1>6. Offered = None
    BY <1>2 DEF Offered
  <1>7. ASSUME NEW id \in Id, StartCall(id)
        PROVE  ControllerInvariant' /\ ServiceStep
    <2>1. machine' = started
      BY <1>4, <1>7 DEF StartCall
    <2> HIDE <1>4
    <2> USE <1>7 DEF StartCall
    <2>2. /\ start' \in [Id -> StartCalls]
          /\ start'[id] = [frame |-> "awaiting", op |-> "calling", gate |-> "open"]
          /\ \A i \in Id : i # id => start'[i] = start[i]
      BY <1>0 DEF TypeOK, StartCalls
    <2>3. intake' \in [Id -> Intakes]
      BY ZenonT(30), <1>0 DEF TypeOK, Intakes
    <2>4. /\ started.phase = "starting"
          /\ started.recording = None
          /\ started.lastEventAt = clock
      BY <1>4
    <2>5. TypeOK'
      BY <1>0, <1>5, <2>1, <2>2, <2>3 DEF TypeOK, OptionalId
    <2>6. Sessions'
      BY <1>0, <1>3, <2>1, <2>2, <2>4 DEF Sessions
    <2>7. Library'
      BY <1>0, <1>5, <2>1, <2>4 DEF Library
    <2>8. ClockIsMonotone'
      BY <1>0, <2>1, <2>4 DEF ClockIsMonotone
    <2>9. Starts'
      BY <1>0, <1>1, <1>3, <2>1, <2>2, <2>4 DEF Starts
    <2>10. RecordingWillBeStopped'
      BY <2>1, <2>4 DEF RecordingWillBeStopped
    <2>11. ServiceStep
      <3>1. Offered' = None
        BY <2>1, <2>4 DEF Offered
      <3> QED
        BY <1>1, <1>5, <2>1, <2>4, <3>1 DEF ServiceStep, Service!Next, Service!Start
    <2> QED
      BY <2>5, <2>6, <2>7, <2>8, <2>9, <2>10, <2>11
  <1>8. CASE StartUnavailable
    <2>1. machine' = Failed(started, "recordingNotAvailable", clock)
      BY <1>4, <1>8 DEF StartUnavailable
    <2>2. /\ machine' \in Machine
          /\ machine'.phase = "failed"
          /\ machine'.recording = None
          /\ machine'.lastEventAt = clock
      BY <1>0, <2>1, FailedEffect
    <2> USE <1>8 DEF StartUnavailable, taskVars
    <2>3. TypeOK'
      BY <1>0, <1>5, <2>2 DEF TypeOK
    <2>4. Sessions'
      BY <1>0, <1>2, <1>3, <2>2 DEF Sessions
    <2>5. Library'
      BY <1>0, <1>2, <1>5, <2>2 DEF Library
    <2>6. ClockIsMonotone'
      BY <1>0, <2>2 DEF ClockIsMonotone
    <2>7. Starts'
      BY <1>0, <1>2 DEF Starts
    <2>8. RecordingWillBeStopped'
      BY <2>2 DEF RecordingWillBeStopped
    <2>9. ServiceStep
      <3>1. Offered' = None
        BY <2>2 DEF Offered
      <3> QED
        BY <1>1, <1>5, <2>2, <3>1 DEF ServiceStep, Service!Next, Service!Start
    <2> QED
      BY <2>3, <2>4, <2>5, <2>6, <2>7, <2>8, <2>9
  <1> QED
    BY <1>7, <1>8

(* A stop that succeeds: the recording it publishes is new to the library  *)
(* and has both of its files.                                              *)
LEMMA StopPublishesStep ==
  ASSUME ControllerInvariant, NEW id \in Id, StopPublishes(id)
  PROVE  ControllerInvariant' /\ ServiceStep
  <1> USE DEF ControllerInvariant, StopPublishes
  <1>0. /\ TypeOK /\ Sessions /\ Library /\ Starts
        /\ activeID = id /\ machine.phase = "stopping"
        /\ stop[id].at \in Int /\ captureStartedAt \in Int
        /\ id \in used
        /\ disk[id].json = None
        /\ machine \in Machine
    BY DEF Sessions, Library, TypeOK, StopCalls
  <1>1. PICK metadata \in Metadata : /\ metadata = StopMetadata(id)
                                     /\ metadata.id = id
                                     /\ metadata.createdAt = stop[id].at
    <2>1. PICK duration \in Int : duration = NonNegative(stop[id].at - captureStartedAt)
      BY <1>0 DEF NonNegative
    <2>2. StopMetadata(id) = [id |-> id, createdAt |-> stop[id].at, duration |-> duration]
      BY <2>1 DEF StopMetadata
    <2> QED
      BY <1>0, <2>2 DEF Metadata
  <1>2. /\ machine' \in Machine
        /\ machine'.phase = "ready"
        /\ machine'.recording = metadata
        /\ machine'.lastEventAt = stop[id].at
    <2>1. machine' = WriterFinished(machine, metadata)
      BY <1>1
    <2> HIDE DEF StopPublishes
    <2> QED
      BY <1>0, <1>1, <2>1, WriterFinishedEffect
  <1>3. machine'.recording # None
    BY <1>2
  <1>4. /\ stop' \in [Id -> StopCalls]
        /\ stop'[id].frame = "done" /\ stop'[id].at = stop[id].at
        /\ \A i \in Id : i # id => stop'[i] = stop[i]
    BY <1>0 DEF TypeOK, StopCalls
  <1>5. \A i \in Id : start[i].frame # "awaiting"
    BY <1>0 DEF Sessions
  <1>6. PICK frame \in {"none", "stopping", "done"} : start' = [start EXCEPT ![id].frame = frame]
    BY <1>0, <1>5 DEF StartReturnsToo, TypeOK, StartCalls
  <1>7. /\ start' \in [Id -> StartCalls]
        /\ \A i \in Id : /\ start'[i].op = start[i].op /\ start'[i].gate = start[i].gate
                         /\ start'[i].frame # "awaiting"
    BY <1>0, <1>5, <1>6 DEF TypeOK, StartCalls
  <1>8. /\ disk' \in [Id -> Files]
        /\ disk'[id].mp4 /\ disk'[id].json = stop[id].at
        /\ \A i \in Id : i # id => disk'[i] = disk[i]
    BY <1>0 DEF TypeOK, Files
  <1>9. TypeOK'
    BY <1>0, <1>2, <1>4, <1>7, <1>8 DEF TypeOK
  <1>10. Sessions'
    BY <1>0, <1>2, <1>3, <1>4, <1>7 DEF Sessions
  <1>11. Library'
    <2>1. \A i \in kept' : disk'[i].mp4 /\ disk'[i].json # None
      BY <1>0, <1>8 DEF Library, TypeOK
    <2> QED
      BY <1>0, <1>1, <1>2, <1>8, <2>1 DEF Library
  <1>12. ClockIsMonotone'
    BY <1>0, <1>2, <1>4 DEF ClockIsMonotone
  <1>13. Starts'
    BY <1>0, <1>4, <1>5, <1>7 DEF Starts
  <1>14. RecordingWillBeStopped'
    BY <1>2 DEF RecordingWillBeStopped
  <1>15. ServiceStep
    <2>1. Offered' = id
      BY <1>1, <1>2, <1>3 DEF Offered
    <2>2. id \notin Downloadable
      BY <1>0 DEF Downloadable
    <2>3. Downloadable' = Downloadable \cup {id}
      BY <1>0, <1>8 DEF Downloadable
    <2> QED
      BY <1>0, <1>2, <2>1, <2>2, <2>3 DEF ServiceStep, Service!Next, Service!Publish
  <1> QED
    BY <1>9, <1>10, <1>11, <1>12, <1>13, <1>14, <1>15

(* A cleanup, with or without the removal of one recording: what is not    *)
(* gone stays whole, and the session ends exactly when its own recording   *)
(* is gone.                                                                *)
LEMMA CleanupSteps ==
  ASSUME ControllerInvariant, NEW removed \in SUBSET Id, CleanupAndRemove(removed),
         UNCHANGED <<unsettledStartID, failTask, start, stop, clock, stepBacks, capture, used, restarts>>
  PROVE  ControllerInvariant' /\ ServiceStep
  <1>0. /\ TypeOK /\ Sessions /\ Library /\ ClockIsMonotone /\ Starts
        /\ RecordingWillBeStopped
    BY DEF ControllerInvariant
  <1>1. PICK deleted : deleted = ToDelete(clock, CreatedAt)
    OBVIOUS
  <1>2. PICK cleaned : cleaned = CleanedFiles(deleted)
    OBVIOUS
  <1>3. PICK gone \in SUBSET Id : gone = deleted \cup removed
    BY <1>1, DeletedHaveMetadata
  <1>4. PICK wanted : wanted = [i \in Id |-> IF i \in removed THEN NoFiles ELSE cleaned[i]]
    OBVIOUS
  <1>a. RemoveFiles(wanted) /\ kept' = kept \ gone
    BY <1>1, <1>2, <1>3, <1>4 DEF CleanupAndRemove
  <1>5. /\ cleaned \in [Id -> Files]
        /\ \A i \in Id :
             /\ cleaned[i].json = None <=> (i \in deleted \/ disk[i].json = None)
             /\ cleaned[i].mp4 <=> (disk[i].mp4 /\ disk[i].json # None /\ i \notin deleted)
    BY <1>0, <1>2, CleanedFilesEffect
  <1>6. NoFiles \in Files /\ NoFiles.json = None /\ ~NoFiles.mp4
    BY DEF NoFiles, Files
  <1>b. /\ wanted \in [Id -> Files]
        /\ \A i \in Id :
             /\ disk[i].json = None => wanted[i].json = None
             /\ wanted[i].mp4 => disk[i].mp4
             /\ disk[i].mp4 /\ disk[i].json # None /\ i \notin gone =>
                   wanted[i].mp4 /\ wanted[i].json # None
    BY <1>3, <1>4, <1>5, <1>6
  <1>7. /\ disk' \in [Id -> Files]
        /\ \A i \in Id :
             /\ disk[i].json = None => disk'[i].json = None
             /\ disk'[i].mp4 => disk[i].mp4
             /\ disk[i].mp4 /\ disk[i].json # None /\ i \notin gone =>
                   disk'[i].mp4 /\ disk'[i].json # None
    <2>1. /\ disk' \in [Id -> Files]
          /\ \A i \in Id :
               /\ disk'[i].mp4 = disk[i].mp4 \/ disk'[i].mp4 = wanted[i].mp4
               /\ disk'[i].json = disk[i].json \/ disk'[i].json = wanted[i].json
      BY <1>0, <1>a, <1>b, RemovalEffect DEF TypeOK
    <2> QED
      BY <1>b, <2>1
  <1>8. Downloadable' \subseteq Downloadable /\ Downloadable \ gone \subseteq Downloadable'
    BY <1>7 DEF Downloadable
  <1>9. \A i \in kept' : disk'[i].mp4 /\ disk'[i].json # None
    BY <1>0, <1>a, <1>7 DEF Library, TypeOK
  <1>10. CASE machine.phase = "ready" /\ machine.recording.id \in gone
    <2>1. machine' = IdleMachine /\ ClearActive
      BY <1>1, <1>3, <1>10 DEF CleanupAndRemove, ClearToIdle
    <2> USE <2>1 DEF ClearActive
    <2>2. /\ machine' \in Machine
          /\ machine'.phase = "idle"
          /\ machine'.recording = None
          /\ machine'.lastEventAt = None
      BY <2>1, IdleIsAMachine
    <2>3. TypeOK'
      BY <1>0, <1>a, <1>7, <2>2, CancelledType, ClosedEffect DEF TypeOK, OptionalId
    <2>4. Sessions'
      BY <1>0, <1>10, <2>2 DEF Sessions
    <2>5. Library'
      BY <1>0, <1>7, <1>9, <1>10, <2>2 DEF Library
    <2>6. ClockIsMonotone'
      BY <1>0, <2>2 DEF ClockIsMonotone
    <2>7. Starts'
      BY <1>0, <1>10 DEF Starts
    <2>8. RecordingWillBeStopped'
      BY <2>2 DEF RecordingWillBeStopped
    <2>9. ServiceStep
      <3>1. Offered = machine.recording.id /\ Offered' = None
        BY <1>0, <1>10, <2>2 DEF Offered, Sessions
      <3> QED
        BY <1>8, <1>10, <2>2, <3>1 DEF ServiceStep, Service!Next, Service!Release
    <2> QED
      BY <2>3, <2>4, <2>5, <2>6, <2>7, <2>8, <2>9 DEF ControllerInvariant
  <1>11. CASE ~(machine.phase = "ready" /\ machine.recording.id \in gone)
    <2>1. UNCHANGED <<machine, activeID, activeURL, captureStartedAt,
                      automaticStop, autoTask, intake>>
      BY <1>1, <1>3, <1>11 DEF CleanupAndRemove
    <2>2. TypeOK'
      BY <1>0, <1>a, <1>7, <2>1 DEF TypeOK
    <2>3. Sessions' /\ ClockIsMonotone' /\ Starts' /\ RecordingWillBeStopped'
      BY <1>0, <2>1 DEF Sessions, ClockIsMonotone, Starts, RecordingWillBeStopped
    <2>4. Library'
      BY <1>0, <1>a, <1>7, <1>9, <1>11, <2>1 DEF Library
    <2>5. ServiceStep
      <3>1. Offered' = Offered
        BY <2>1 DEF Offered
      <3>2. Offered \notin gone
        BY <1>0, <1>11 DEF Offered, Sessions
      <3> QED
        BY <1>8, <2>1, <3>1, <3>2 DEF ServiceStep, Service!Next, Service!Release
    <2> QED
      BY <2>2, <2>3, <2>4, <2>5 DEF ControllerInvariant
  <1> QED
    BY <1>10, <1>11

(* The wall clock goes on, or is stepped back. *)
LEMMA ClockSteps ==
  ASSUME ControllerInvariant, Tick \/ StepBack
  PROVE  ControllerInvariant' /\ ServiceStep
  <1> USE DEF ControllerInvariant, Tick, StepBack, actorVars, taskVars
  <1>1. TypeOK'
    <2>1. clock' \in Int /\ stepBacks' \in Nat
      BY DEF TypeOK
    <2>2. UNCHANGED <<actorVars, taskVars, capture, disk, used, restarts, kept>>
      OBVIOUS
    <2> HIDE DEF Tick, StepBack
    <2> QED
      BY <2>1, <2>2 DEF TypeOK
  <1>2. Sessions' /\ Library'
    BY DEF Sessions, Library
  <1>3. ClockIsMonotone'
    BY DEF ClockIsMonotone, TypeOK, Machine, StopCalls
  <1>4. Starts' /\ RecordingWillBeStopped'
    BY DEF Starts, RecordingWillBeStopped, TypeOK
  <1>5. ServiceStep
    BY DEF ServiceStep, Service!vars, Offered, Downloadable
  <1> QED
    BY <1>1, <1>2, <1>3, <1>4, <1>5

(* A crash: of a recording that was promised and keeps its movie, the      *)
(* metadata are on disk too, and no file of a new identifier appears.      *)
LEMMA CrashStep ==
  ASSUME ControllerInvariant, Crash
  PROVE  ControllerInvariant' /\ ServiceStep
  <1> USE DEF ControllerInvariant, Crash
  <1>1. /\ disk' \in [Id -> Files]
        /\ \A i \in Id : /\ disk'[i].json = disk[i].json
                         /\ disk'[i].mp4 /\ disk'[i].json # None =>
                               disk[i].mp4 \/ (stop[i].frame = "awaiting" /\ disk[i].json # None)
    <2>1. CASE disk' = disk
      BY <2>1 DEF TypeOK
    <2>2. ASSUME NEW j \in Id, stop[j].frame = "awaiting",
                 disk' = [disk EXCEPT ![j].partial = FALSE, ![j].mp4 = TRUE]
          PROVE  /\ disk' \in [Id -> Files]
                 /\ \A i \in Id : disk'[i].json = disk[i].json /\ (i # j => disk'[i] = disk[i])
      BY ZenonT(30), <2>2 DEF TypeOK, Files
    <2>3. ASSUME NEW j \in Id, disk' = [disk EXCEPT ![j].mp4 = FALSE]
          PROVE  /\ disk' \in [Id -> Files]
                 /\ \A i \in Id : disk'[i].json = disk[i].json /\ (i # j => disk'[i] = disk[i])
                 /\ ~disk'[j].mp4
      BY <2>3 DEF TypeOK, Files
    <2>4. \/ disk' = disk
          \/ \E j \in Id : /\ stop[j].frame = "awaiting"
                           /\ disk' = [disk EXCEPT ![j].partial = FALSE, ![j].mp4 = TRUE]
          \/ \E j \in Id : disk' = [disk EXCEPT ![j].mp4 = FALSE]
      BY DEF CrashDisks
    <2> QED
      BY <2>1, <2>2, <2>3, <2>4
  <1>2. \A i \in Id : stop[i].frame = "awaiting" => disk[i].json = None
    BY DEF Sessions, Library
  <1>3. Downloadable' \subseteq Downloadable
    BY <1>1, <1>2 DEF Downloadable
  <1>4. /\ machine' \in Machine
        /\ machine'.phase = "idle"
        /\ machine'.recording = None
        /\ machine'.lastEventAt = None
    BY IdleIsAMachine
  <1>5. NoStart \in StartCalls /\ NoStop \in StopCalls /\ NewIntake \in Intakes
    BY DEF NoStart, StartCalls, NoStop, StopCalls, NewIntake, Intakes
  <1>6. TypeOK'
    <2>1. /\ autoTask' \in [Id -> {"none", "sleeping", "due"}]
          /\ start' \in [Id -> StartCalls]
          /\ stop' \in [Id -> StopCalls]
          /\ intake' \in [Id -> Intakes]
      BY <1>5
    <2>2. kept' \subseteq Id /\ restarts' \in Nat
      <3>1. kept' \subseteq kept /\ restarts' = restarts + 1
        BY Zenon
      <3> HIDE DEF Crash
      <3> QED
        BY <3>1 DEF TypeOK
    <2>3. /\ clock' \in Int /\ stepBacks' \in Nat /\ used' \subseteq Id
          /\ failTask' \subseteq Id
          /\ activeID' = None /\ activeURL' = None /\ captureStartedAt' = None
          /\ unsettledStartID' = None /\ automaticStop' = None /\ capture' = None
      BY DEF TypeOK
    <2> HIDE DEF Crash
    <2> QED
      BY <1>1, <1>4, <2>1, <2>2, <2>3 DEF TypeOK, OptionalId
  <1>7. \A i \in Id : /\ start'[i] = NoStart /\ stop'[i] = NoStop
                      /\ start'[i].op = "none" /\ start'[i].gate = "open"
                      /\ start'[i].frame = "none"
                      /\ stop'[i].frame = "none" /\ stop'[i].at = None
    BY DEF NoStart, NoStop
  <1>8. Sessions'
    BY <1>4, <1>7 DEF Sessions
  <1>9. Library'
    BY <1>1, <1>4 DEF Library, TypeOK
  <1>10. ClockIsMonotone'
    BY <1>4, <1>7 DEF ClockIsMonotone
  <1>11. Starts'
    BY <1>7 DEF Starts
  <1>12. RecordingWillBeStopped'
    BY <1>4 DEF RecordingWillBeStopped
  <1>13. ServiceStep
    BY <1>3, <1>4 DEF ServiceStep, Service!Next, Service!Crash, Offered
  <1> QED
    BY <1>6, <1>8, <1>9, <1>10, <1>11, <1>12, <1>13

--------------------------------------------------------------------------------
(* The theorems. *)

(* A fresh process on an empty directory satisfies the invariant, and the  *)
(* contract's initial state.                                               *)
LEMMA InitSatisfies == Init => ControllerInvariant /\ Service!Init
  <1> SUFFICES ASSUME Init PROVE ControllerInvariant /\ Service!Init
    OBVIOUS
  <1> USE DEF Init, VolatileInit
  <1>1. /\ machine \in Machine
        /\ machine.phase = "idle"
        /\ machine.recording = None
        /\ machine.lastEventAt = None
    BY IdleIsAMachine
  <1>2. /\ NoStart \in StartCalls /\ NoStop \in StopCalls /\ NewIntake \in Intakes
        /\ NoFiles \in Files
    BY DEF NoStart, StartCalls, NoStop, StopCalls, NewIntake, Intakes, NoFiles, Files
  <1>3. TypeOK
    BY <1>1, <1>2 DEF TypeOK, OptionalId
  <1>4. \A i \in Id : /\ start[i].op = "none" /\ start[i].gate = "open"
                      /\ start[i].frame = "none"
                      /\ stop[i].frame = "none" /\ stop[i].at = None
                      /\ disk[i].json = None
    BY DEF NoStart, NoStop, NoFiles
  <1>5. Sessions /\ Library /\ ClockIsMonotone /\ Starts /\ RecordingWillBeStopped
    BY <1>1, <1>4 DEF Sessions, Library, ClockIsMonotone, Starts, RecordingWillBeStopped
  <1>6. Service!Init
    BY <1>1, <1>4 DEF Service!Init, Offered, Downloadable
  <1> QED
    BY <1>3, <1>5, <1>6 DEF ControllerInvariant

(* Every step of the actor, of its tasks, of ReplayKit and of the world    *)
(* keeps the invariant and is a step of the contract.                      *)
LEMMA NextPreserves ==
  ASSUME ControllerInvariant, [Next]_vars
  PROVE  ControllerInvariant' /\ ServiceStep
  <1>1. ASSUME NEW id \in Id, StartStep(id)
        PROVE  ControllerInvariant' /\ ServiceStep
    BY <1>1, StartSteps, StartOperationSteps, FailureSteps, PublicationSteps DEF StartStep
  <1>2. ASSUME NEW id \in Id, StopStep(id)
        PROVE  ControllerInvariant' /\ ServiceStep
    BY <1>2, CaptureSteps, StopSteps, StopOperationSteps, StopPublishesStep, FailureSteps DEF StopStep
  <1>3. ASSUME NEW id \in Id, CaptureStep(id)
        PROVE  ControllerInvariant' /\ ServiceStep
    BY <1>3, StartOperationSteps, CaptureSteps DEF CaptureStep
  <1>4. ASSUME NEW id \in Id, Delete(id)
        PROVE  ControllerInvariant' /\ ServiceStep
    BY <1>4, CleanupSteps DEF Delete
  <1>5. CASE Cleanup
    <2>1. PICK none \in SUBSET Id : none = {}
      OBVIOUS
    <2> QED
      BY <1>5, <2>1, CleanupSteps DEF Cleanup
  <1>6. CASE StartUnavailable \/ RequestStop
    BY <1>6, StartSteps, StopSteps
  <1>7. CASE Tick \/ StepBack
    BY <1>7, ClockSteps
  <1>8. CASE Crash
    BY <1>8, CrashStep
  <1>9. CASE UNCHANGED vars
    <2> USE <1>9 DEF vars, actorVars, taskVars, worldVars, ControllerInvariant
    <2>1. TypeOK' /\ Sessions' /\ Library' /\ ClockIsMonotone'
      BY DEF TypeOK, Sessions, Library, ClockIsMonotone
    <2>2. Starts' /\ RecordingWillBeStopped'
      BY DEF Starts, RecordingWillBeStopped
    <2>3. ServiceStep
      BY DEF ServiceStep, Service!vars, Offered, Downloadable
    <2> QED
      BY <2>1, <2>2, <2>3
  <1> QED
    BY <1>1, <1>2, <1>3, <1>4, <1>5, <1>6, <1>7, <1>8, <1>9 DEF Next

(* The inductive invariant holds in every reachable state. *)
LEMMA ControllerInvariantHolds == Spec => []ControllerInvariant
  <1>1. Init => ControllerInvariant
    BY InitSatisfies
  <1>2. ControllerInvariant /\ [Next]_vars => ControllerInvariant'
    BY NextPreserves
  <1> QED
    BY <1>1, <1>2, PTL DEF Spec

(* The fields of the actor, its calls and its files keep their types; in   *)
(* particular, every instant the machine is given is a whole number.       *)
THEOREM ControllerTypeCorrect == Spec => []TypeOK
  <1>1. ControllerInvariant => TypeOK
    BY DEF ControllerInvariant
  <1> QED
    BY <1>1, ControllerInvariantHolds, PTL

(* What stop() returned to a caller stays downloadable, with both of its   *)
(* files, through later starts, failures, cleanups and crashes, until it   *)
(* is released; and a status offers only such a recording.                 *)
THEOREM RecordingsAreKept == Spec => []KeptIsDownloadable
  <1>1. ControllerInvariant => KeptIsDownloadable
    BY DEF ControllerInvariant, Sessions, Library, KeptIsDownloadable, TypeOK
  <1> QED
    BY <1>1, ControllerInvariantHolds, PTL

(* A running recording always has a task that will stop it, unless the     *)
(* wall clock has been stepped back.                                       *)
THEOREM RecordingsWillEnd == Spec => []RecordingWillBeStopped
  <1>1. ControllerInvariant => RecordingWillBeStopped
    BY DEF ControllerInvariant
  <1> QED
    BY <1>1, ControllerInvariantHolds, PTL

(* A capture runs unattended only after its start lost to the timeout, or  *)
(* after the wall clock has been stepped back.                             *)
THEOREM OrphansComeFromTheTimeout == Spec => []OnlyTimeoutOrphansCapture
  <1>1. ControllerInvariant => OnlyTimeoutOrphansCapture
    <2> SUFFICES ASSUME ControllerInvariant, stepBacks = 0, capture # None
                 PROVE  Responsible(capture) \/ start[capture].gate = "timeout"
      BY DEF OnlyTimeoutOrphansCapture
    <2>1. capture \in Id
      BY DEF ControllerInvariant, TypeOK, OptionalId
    <2>2. start[capture].gate \in {"open", "ok", "error", "timeout"}
      BY <2>1 DEF ControllerInvariant, TypeOK, StartCalls
    <2> QED
      BY <2>1, <2>2 DEF ControllerInvariant, Starts, Responsible
  <1> QED
    BY <1>1, ControllerInvariantHolds, PTL

(* The controller, with its tasks, timeouts, failures, retention and       *)
(* crashes, implements the contract of the recording routes.               *)
THEOREM ControllerImplementsService == Spec => ImplementsService
  <1>1. Init => Service!Init
    BY InitSatisfies
  <1>2. ControllerInvariant /\ [Next]_vars => [Service!Next]_(Service!vars)
    BY NextPreserves DEF ServiceStep
  <1> QED
    BY <1>1, <1>2, ControllerInvariantHolds, PTL DEF Spec, ImplementsService, Service!Spec
================================================================================
