------------------------- MODULE RecordingStateMachine -------------------------
(***************************************************************************)
(* RecordingStateMachine driven by every event of its interface, in any    *)
(* order and with any instants: the caller may pass an instant that lies   *)
(* before an earlier one (the wall clock of RecordingController may be     *)
(* stepped back), and the machine has to keep its session consistent.      *)
(***************************************************************************)
EXTENDS RecordingEvents

CONSTANTS
    Instant,    \* the instants a caller passes
    Duration    \* the maximum durations a caller passes, useless ones included

ASSUME InstantAssumption == Instant \subseteq Int /\ Duration \subseteq Int

VARIABLE machine

vars == <<machine>>

Init == machine = IdleMachine

ApplyStartRequested(at, duration) ==
    /\ AcceptsStartRequested(machine, duration)
    /\ machine' = StartRequested(machine, at, duration)

ApplyCaptureStarted(at) ==
    /\ AcceptsCaptureStarted(machine, at)
    /\ machine' = CaptureStarted(machine, at)

ApplyStopRequested(at) ==
    /\ AcceptsStopRequested(machine, at)
    /\ machine' = StopRequested(machine, at)

ApplyWriterFinished(metadata) ==
    /\ AcceptsWriterFinished(machine, metadata)
    /\ machine' = WriterFinished(machine, metadata)

ApplyFailed(code, at) ==
    /\ AcceptsFailed(machine, at)
    /\ machine' = Failed(machine, code, at)

ApplyPermissionTimedOut(code, at) ==
    /\ AcceptsPermissionTimedOut(machine, at)
    /\ machine' = Fail(machine, code, at)

ApplyStopTimedOut(code, at) ==
    /\ AcceptsStopTimedOut(machine, at)
    /\ machine' = Fail(machine, code, at)

ApplyMaximumDurationReached(at) ==
    /\ AcceptsMaximumDurationReached(machine, at)
    /\ machine' = BeginStopping(machine, at)

ApplyDownloadedAndDeleted(id) ==
    /\ AcceptsDownloadedAndDeleted(machine, id)
    /\ machine' = ClearToIdle(machine)

ApplyReset ==
    /\ AcceptsReset(machine)
    /\ machine' = ClearToIdle(machine)

Next ==
    \/ \E at \in Instant, duration \in Duration : ApplyStartRequested(at, duration)
    \/ \E at \in Instant : ApplyCaptureStarted(at)
    \/ \E at \in Instant : ApplyStopRequested(at)
    \/ \E id \in Id, at \in Instant, duration \in Duration :
          ApplyWriterFinished([id |-> id, createdAt |-> at, duration |-> duration])
    \/ \E code \in Code, at \in Instant : ApplyFailed(code, at)
    \/ \E code \in Code, at \in Instant : ApplyPermissionTimedOut(code, at)
    \/ \E code \in Code, at \in Instant : ApplyStopTimedOut(code, at)
    \/ \E at \in Instant : ApplyMaximumDurationReached(at)
    \/ \E id \in Id : ApplyDownloadedAndDeleted(id)
    \/ ApplyReset

Spec == Init /\ [][Next]_vars

--------------------------------------------------------------------------------
(* The machine has its declared shape. *)
TypeOK == machine \in Machine

(* No field outlives the session it was set in: an idle machine carries no *)
(* instant, a starting one no instant of a capture or of a stop, a         *)
(* recording one no stop instant.  Otherwise `elapsed` of a later failure  *)
(* would be measured from the capture of an earlier recording.             *)
NoStaleSession ==
    /\ machine.phase = "idle" =>
         machine.lastEventAt = None /\ machine.startRequestedAt = None
    /\ machine.phase \in {"idle", "starting"} =>
         machine.captureStartedAt = None /\ machine.elapsed = 0
    /\ machine.phase \in {"idle", "starting", "recording"} =>
         machine.stopRequestedAt = None
    /\ machine.phase # "idle" =>
         machine.lastEventAt # None /\ machine.startRequestedAt # None
    /\ machine.phase = "recording" => machine.captureStartedAt # None

(* The instants of a session are ordered as its events are, whatever       *)
(* instants the callers pass, and the last event is no earlier than any of *)
(* them.                                                                   *)
InstantsOrdered ==
    /\ machine.captureStartedAt # None =>
         /\ machine.startRequestedAt # None
         /\ machine.startRequestedAt <= machine.captureStartedAt
         /\ machine.captureStartedAt <= machine.lastEventAt
    /\ machine.stopRequestedAt # None =>
         /\ machine.captureStartedAt # None
         /\ machine.captureStartedAt <= machine.stopRequestedAt
         /\ machine.stopRequestedAt <= machine.lastEventAt
    /\ machine.startRequestedAt # None =>
         machine.startRequestedAt <= machine.lastEventAt

(* The elapsed time a stopping machine reports is exactly the distance     *)
(* between the capture's start and the stop request: the clamp to zero in  *)
(* `elapsed(at:)` never hides a negative one.                              *)
ElapsedIsExact ==
    machine.phase = "stopping" =>
        /\ machine.captureStartedAt # None
        /\ machine.elapsed = machine.stopRequestedAt - machine.captureStartedAt

(* A status carries a recording exactly when it is ready and a failure     *)
(* code exactly when it failed, so that /v1/recording/status never offers  *)
(* a recording that was given up.                                          *)
StatusIsCoherent ==
    /\ (machine.recording # None) <=> (machine.phase = "ready")
    /\ (machine.failureCode # None) <=> (machine.phase = "failed")

(* Within a session the last event's instant never moves back. *)
LastEventNeverMovesBack ==
    [][machine.lastEventAt # None /\ machine'.lastEventAt # None
         => machine'.lastEventAt >= machine.lastEventAt]_vars

--------------------------------------------------------------------------------
(* The inductive invariant of the theorems. *)
SessionInvariant ==
    TypeOK /\ NoStaleSession /\ InstantsOrdered /\ ElapsedIsExact /\ StatusIsCoherent
================================================================================
