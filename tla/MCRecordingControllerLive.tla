----------------------- MODULE MCRecordingControllerLive -----------------------
(* One recording at a time, its tasks, timeouts and a crash, under the     *)
(* fairness of the executor and its timers.                                *)
EXTENDS RecordingController

MCId == {1}
MCCode == {"recordingPermissionTimeout", "requestTimeout", "recordingNotAvailable"}
================================================================================
