------------------------ MODULE MCRecordingStateMachine ------------------------
(* The two pure parts of APIOSDebugCore: the state machine with four       *)
(* instants and durations around the bounds, and the retention policy on   *)
(* every list of up to four entries: three identifiers, so that two are    *)
(* over the limit of one, duplicates, unfinished entries, and ages on both *)
(* sides of the bound.                                                     *)
EXTENDS RecordingCore

MCInstant == 0..3
MCDuration == 0..2

MCEntry == [identifier : 1..3, phase : {"ready", "failed"}, createdAt : 0..2]

MCNow == 0..2
MCLists == UNION {[1..length -> MCEntry] : length \in 0..4}
================================================================================
