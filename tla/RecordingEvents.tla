---------------------------- MODULE RecordingEvents ----------------------------
(***************************************************************************)
(* The value type RecordingStateMachine of APIOSDebugCore: its fields, and *)
(* for every RecordingEvent the guard under which `apply` accepts it and   *)
(* the machine it yields.  A rejected event throws recording_invalid_state *)
(* and leaves the machine as it was.  An optional field is None or its     *)
(* value.  Byte counts, digests and message texts are left out.            *)
(***************************************************************************)
EXTENDS Integers

CONSTANTS
    None,               \* the value of an empty optional
    Id,                 \* recording identifiers
    Code,               \* failure codes
    PermissionTimeout,  \* 60 000 ms: the age at which permissionTimedOut is accepted
    StopTimeout         \* 90 000 ms: the age at which stopTimedOut is accepted

ASSUME TimeoutAssumption == PermissionTimeout \in Nat /\ StopTimeout \in Nat

Phase == {"idle", "starting", "recording", "stopping", "ready", "failed"}

(* RecordingMetadata; createdAt is the instant stop() was requested. *)
Metadata == [id : Id, createdAt : Int, duration : Int]

ASSUME NoneAssumption ==
    None \notin Int /\ None \notin Id /\ None \notin Code /\ None \notin Metadata

Machine ==
    [phase : Phase,
     elapsed : Int,
     recording : Metadata \cup {None},
     failureCode : Code \cup {None},
     startRequestedAt : Int \cup {None},
     captureStartedAt : Int \cup {None},
     stopRequestedAt : Int \cup {None},
     maximumDuration : Int \cup {None},
     lastEventAt : Int \cup {None}]

IdleMachine ==
    [phase |-> "idle",
     elapsed |-> 0,
     recording |-> None,
     failureCode |-> None,
     startRequestedAt |-> None,
     captureStartedAt |-> None,
     stopRequestedAt |-> None,
     maximumDuration |-> None,
     lastEventAt |-> None]

--------------------------------------------------------------------------------
NonNegative(n) == IF n < 0 THEN 0 ELSE n

(* Slip: an event is compared with the start of its session only. *)
IsCurrentSinceStart(m, at) == m.startRequestedAt = None \/ at >= m.startRequestedAt

IsCurrent(m, at) == m.lastEventAt = None \/ at >= m.lastEventAt

Elapsed(m, at) ==
    IF m.captureStartedAt = None THEN 0 ELSE NonNegative(at - m.captureStartedAt)

BeginStopping(m, at) ==
    [m EXCEPT !.phase = "stopping",
              !.elapsed = Elapsed(m, at),
              !.recording = None,
              !.failureCode = None,
              !.stopRequestedAt = at,
              !.lastEventAt = at]

Fail(m, code, at) ==
    [m EXCEPT !.phase = "failed",
              !.elapsed = Elapsed(m, at),
              !.recording = None,
              !.failureCode = code,
              !.lastEventAt = at]

(* Slip: the capture's instant survives the session. *)
ClearToIdleKeepsCapture(m) == [IdleMachine EXCEPT !.captureStartedAt = m.captureStartedAt]

ClearToIdle(m) == IdleMachine

--------------------------------------------------------------------------------
(* startRequested(at, maximumDuration) *)
AcceptsStartRequested(m, duration) == m.phase = "idle" /\ duration > 0

StartRequested(m, at, duration) ==
    [m EXCEPT !.phase = "starting",
              !.elapsed = 0,
              !.recording = None,
              !.failureCode = None,
              !.startRequestedAt = at,
              !.maximumDuration = duration,
              !.lastEventAt = at]

(* Slip: the publication of a capture is always current. *)
AcceptsCaptureStartedAnytime(m, at) == m.phase = "starting"

(* captureStarted(at) *)
AcceptsCaptureStarted(m, at) == m.phase = "starting" /\ IsCurrent(m, at)

CaptureStarted(m, at) ==
    [m EXCEPT !.phase = "recording",
              !.elapsed = 0,
              !.recording = None,
              !.failureCode = None,
              !.captureStartedAt = at,
              !.lastEventAt = at]

(* Slip: a stop request is always current. *)
AcceptsStopRequestedAnytime(m, at) == m.phase = "recording"

(* stopRequested(at) *)
AcceptsStopRequested(m, at) == m.phase = "recording" /\ IsCurrent(m, at)

StopRequested(m, at) == BeginStopping(m, at)

(* writerFinished(metadata) *)
AcceptsWriterFinished(m, metadata) ==
    m.phase = "stopping" /\ IsCurrent(m, metadata.createdAt)

WriterFinished(m, metadata) ==
    [m EXCEPT !.phase = "ready",
              !.elapsed = metadata.duration,
              !.recording = metadata,
              !.failureCode = None,
              !.lastEventAt = metadata.createdAt]

(* failed(code, at) *)
AcceptsFailed(m, at) ==
    m.phase \in {"starting", "recording", "stopping"} /\ IsCurrent(m, at)

Failed(m, code, at) == Fail(m, code, at)

(* permissionTimedOut(at) *)
AcceptsPermissionTimedOut(m, at) ==
    /\ m.phase = "starting"
    /\ IsCurrent(m, at)
    /\ m.startRequestedAt # None
    /\ at - m.startRequestedAt >= PermissionTimeout

(* stopTimedOut(at) *)
AcceptsStopTimedOut(m, at) ==
    /\ m.phase = "stopping"
    /\ IsCurrent(m, at)
    /\ m.stopRequestedAt # None
    /\ at - m.stopRequestedAt >= StopTimeout

(* maximumDurationReached(at) *)
AcceptsMaximumDurationReached(m, at) ==
    /\ m.phase = "recording"
    /\ IsCurrent(m, at)
    /\ m.captureStartedAt # None
    /\ m.maximumDuration # None
    /\ at - m.captureStartedAt >= m.maximumDuration

(* downloadedAndDeleted(id) *)
AcceptsDownloadedAndDeleted(m, id) ==
    m.phase = "ready" /\ m.recording # None /\ m.recording.id = id

(* reset *)
AcceptsReset(m) == m.phase = "failed"
================================================================================
