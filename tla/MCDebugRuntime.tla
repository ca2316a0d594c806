---------------------------- MODULE MCDebugRuntime -----------------------------
(* Two callers, so that a start waits for a stop that waited for a start,  *)
(* three for the bootstrap, whose settling needs a third; two generations  *)
(* and two connections, one for each recording request.                    *)
EXTENDS DebugBootstrap
================================================================================
