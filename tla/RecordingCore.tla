----------------------------- MODULE RecordingCore -----------------------------
(***************************************************************************)
(* The library APIOSDebugCore: the state machine of a recording session    *)
(* and the retention policy, two pure parts that share no state.           *)
(***************************************************************************)
EXTENDS RecordingStateMachine, RecordingRetentionPolicy

(* identifiersToDelete deletes exactly what RetentionRule says, at every   *)
(* instant and from every list.  (It does not read the machine, so that    *)
(* one of the machine's states is enough to look at it.)                   *)
DeletesWhatTheRuleSays ==
    machine = IdleMachine => \A now \in Now, entries \in Lists : PolicyFollowsRule(now, entries)
================================================================================
