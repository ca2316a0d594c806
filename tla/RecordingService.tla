--------------------------- MODULE RecordingService ----------------------------
(***************************************************************************)
(* What the recording routes promise a client: one session at a time that  *)
(* moves through the published phases, and a library of downloadable       *)
(* recordings that grows only when a session becomes ready and shrinks     *)
(* only by release (deletion, retention) or in a crash.                    *)
(***************************************************************************)
CONSTANTS
    Recording,      \* identifiers
    NoRecording     \* none of them

VARIABLES
    phase,      \* the phase /v1/recording/status reports
    current,    \* the recording it offers
    library     \* the recordings /v1/recordings/{id} serves

vars == <<phase, current, library>>

Init == phase = "idle" /\ current = NoRecording /\ library = {}

(* A start is accepted; retention may release recordings on the way. *)
Start ==
    /\ phase \in {"idle", "failed"}
    /\ phase' \in {"starting", "failed"}
    /\ current' = NoRecording
    /\ library' \in SUBSET library

(* The capture runs, or it fails at that moment and is being stopped. *)
Begin ==
    /\ phase = "starting"
    /\ phase' \in {"recording", "stopping"}
    /\ UNCHANGED <<current, library>>

BeginStop ==
    /\ phase = "recording"
    /\ phase' = "stopping"
    /\ UNCHANGED <<current, library>>

Publish(r) ==
    /\ phase = "stopping"
    /\ r \notin library
    /\ phase' = "ready"
    /\ current' = r
    /\ library' = library \cup {r}

(* A session that fails takes no recording with it. *)
Fail ==
    /\ phase \in {"starting", "recording", "stopping"}
    /\ phase' = "failed"
    /\ UNCHANGED <<current, library>>

(* The session ends exactly when its own recording is released.  What is   *)
(* released is no longer promised; it goes unless it cannot be removed.    *)
Release(released) ==
    /\ library' \subseteq library
    /\ library \ released \subseteq library'
    /\ IF current \in released
       THEN phase' = "idle" /\ current' = NoRecording
       ELSE UNCHANGED <<phase, current>>

Crash ==
    /\ phase' = "idle"
    /\ current' = NoRecording
    /\ library' \in SUBSET library

Next ==
    \/ Start
    \/ Begin
    \/ BeginStop
    \/ \E r \in Recording : Publish(r)
    \/ Fail
    \/ \E released \in SUBSET Recording : Release(released)
    \/ Crash

Spec == Init /\ [][Next]_vars
================================================================================
