---------------------------- MODULE MCDebugActions -----------------------------
(* Two views share an identifier and one has another.  One command: the    *)
(* commands change nothing in the registry, so a second one would only     *)
(* multiply the states.  Six generations let an identifier be registered,  *)
(* replaced, given up and registered again before the activation arrives.  *)
EXTENDS DebugActions, TLC

CONSTANTS v1, v2, v3, i1, i2

MCDeclares == (v1 :> i1) @@ (v2 :> i1) @@ (v3 :> i2)
================================================================================
