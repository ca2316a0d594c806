---------------------------- MODULE MCLocalInstall -----------------------------
(* Two runs, so that one meets what a killed, aborted or committed one has *)
(* left; every subset of the six items may be installed at first.          *)
EXTENDS LocalInstall
================================================================================
