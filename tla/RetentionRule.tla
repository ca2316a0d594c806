----------------------------- MODULE RetentionRule -----------------------------
(***************************************************************************)
(* What RecordingRetentionPolicy promises, stated without its lists: of    *)
(* the completed recordings, those of RetentionAge or more go, and of the  *)
(* rest all but the MaxReady newest.  `createdAt` maps the identifier of   *)
(* every completed recording to its creation instant.                      *)
(***************************************************************************)
EXTENDS Integers, FiniteSets

CONSTANTS
    RetentionAge,   \* 1 800 000 ms, thirty minutes
    MaxReady        \* 3

ASSUME RetentionAssumption == RetentionAge \in Nat /\ MaxReady \in Nat

(* Oldest first, ties by identifier. *)
Older(createdAt, i, j) ==
    \/ createdAt[i] < createdAt[j]
    \/ createdAt[i] = createdAt[j] /\ i < j

Expired(now, createdAt) ==
    {i \in DOMAIN createdAt : now - createdAt[i] >= RetentionAge}

OverLimit(now, createdAt) ==
    LET candidates == DOMAIN createdAt \ Expired(now, createdAt)
    IN  {i \in candidates :
            Cardinality({j \in candidates : Older(createdAt, i, j)}) >= MaxReady}

ToDelete(now, createdAt) == Expired(now, createdAt) \cup OverLimit(now, createdAt)
================================================================================
