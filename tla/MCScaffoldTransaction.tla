------------------------- MODULE MCScaffoldTransaction -------------------------
(* The three kinds of destination: a file of the project's root, one in    *)
(* DebugTools and one in the package directory below it.  Two concurrent   *)
(* scaffold runs; every tree the user may have had is an initial state.    *)
EXTENDS ScaffoldTransaction, TLC

CONSTANTS tools, kit, config, bootstrap, package

MCAncestors ==
    (tools :> <<>>) @@ (kit :> <<tools>>) @@
    (config :> <<>>) @@ (bootstrap :> <<tools>>) @@ (package :> <<tools, kit>>)

MCFiles == [r \in Run |-> <<config, bootstrap, package>>]

RunSymmetry == Permutations(Run)
================================================================================
