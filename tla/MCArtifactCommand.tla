--------------------------- MODULE MCArtifactCommand ---------------------------
(* Two devices and three attachments: a device can be replaced by another  *)
(* one, and come back under a new number, during one command.              *)
EXTENDS ArtifactCommand
================================================================================
