------------------------- MODULE MCRecordingController -------------------------
(* Two recordings, so that a second one is made while tasks of the first   *)
(* are still around, and clocks around the retention age.                  *)
EXTENDS RecordingController

MCId == 1..2
MCCode == {"recordingPermissionTimeout", "requestTimeout", "recordingNotAvailable"}

(* The view leaves out what no guard, no later value and no invariant but  *)
(* TypeOK depends on: the instants that only feed `elapsed`, the last      *)
(* event's instant while the clock is monotone (it never exceeds the       *)
(* clock), and what is left of calls and intakes of a recording that is    *)
(* over.                                                                   *)
MachineView ==
    <<machine.phase,
      IF machine.recording = None THEN None ELSE machine.recording.id,
      machine.failureCode,
      IF stepBacks > 0 \/ MaxStepBacks > 0 THEN machine.lastEventAt ELSE None>>

StartView(i) ==
    IF /\ start[i].frame = "done"
       /\ start[i].op \in {"succeeded", "refused", "abandoned"}
       /\ capture # i
    THEN "over" ELSE start[i]

StopView(i) ==
    IF stop[i].frame # "done" THEN stop[i]
    ELSE IF stop[i].op \in {"succeeded", "failed"} THEN "over" ELSE stop[i].op

IntakeView(i) ==
    IF \/ activeID = i
       \/ stop[i].op \in {"stoppingCapture", "draining"}
    THEN intake[i]
    ELSE <<intake[i].accepting, intake[i].queued, capture = i /\ intake[i].captureFailure>>

(* Either the process crashes or the clock is stepped back, and then no    *)
(* further recording is made.                                              *)
OneDisturbance ==
    stepBacks > 0 => restarts = 0 /\ Cardinality(used) <= 1

View ==
    <<clock, stepBacks, MachineView, activeID, activeURL, captureStartedAt = None, unsettledStartID,
      automaticStop, autoTask, failTask,
      [i \in Id |-> <<StartView(i), StopView(i), IntakeView(i)>>],
      capture, disk, used, restarts, kept>>
================================================================================
