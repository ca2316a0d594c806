-------------------------- MODULE MCRecordingCommands --------------------------
(* Two shells, so that commands overlap, and two recordings, so that the   *)
(* first one can be over the limit or too old when the second is made.     *)
EXTENDS RecordingCommands

MCRecording == 1..2
================================================================================
