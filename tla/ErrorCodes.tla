------------------------------- MODULE ErrorCodes ------------------------------
(***************************************************************************)
(* The errors of the CLI as the code tells them apart: a stable code of    *)
(* contract.Error, "plain" for any other error, "deadline" for an error of *)
(* a finished context, and "ok" for none.                                  *)
(***************************************************************************)
EXTENDS Integers

DeviceCode == {"no_device", "multiple_devices", "device_untrusted", "device_locked"}

TransportCode == {"app_not_reachable", "transport_failure", "request_timeout"}

AppCode == {"protocol_mismatch", "auth_required", "auth_failed", "screenshot_failed",
            "recording_not_available"}

LocalCode == {"artifact_too_large", "artifact_checksum_mismatch", "io_failure"}

StableCode == {"config_invalid", "tool_missing"}
                \cup DeviceCode \cup TransportCode \cup AppCode \cup LocalCode

(* contract.CodeOf: an error without a stable code counts as a mismatch. *)
CodeOf(err) == IF err \in StableCode THEN err ELSE "protocol_mismatch"

(* contract.ExitCode *)
ExitCode(err) ==
    LET code == CodeOf(err)
    IN  CASE code \in {"config_invalid", "tool_missing"} -> 2
          [] code \in DeviceCode -> 3
          [] code \in TransportCode -> 4
          [] code \in AppCode -> 5
          [] code \in LocalCode -> 6

(* stableCommandError: what a command returns that has no stable code *)
StableCommandError(err) == IF err \in StableCode THEN err ELSE "config_invalid"

(* The exit status of Execute; a failed command never exits with 0. *)
Execute(err) == IF err = "ok" THEN 0 ELSE ExitCode(StableCommandError(err))
================================================================================
