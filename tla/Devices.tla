-------------------------------- MODULE Devices --------------------------------
(***************************************************************************)
(* The discovery of devices through `xcrun devicectl`: how its failures    *)
(* and its documents are read, and which device a command selects.         *)
(* Selection by name (`devices resolve`) is left out.                      *)
(***************************************************************************)
EXTENDS ErrorCodes, FiniteSets

(* A run of devicectl fails: the tool is missing, its message speaks of    *)
(* pairing or of a lock, or anything else, a killed process included.      *)
DevicectlFailure == {"tool_missing", "pairing", "lock", "plain"}

(* mapDeviceCtlError *)
MapDeviceCtlError(err) ==
    CASE err = "tool_missing" -> "tool_missing"
      [] err = "pairing" -> "device_untrusted"
      [] err = "lock" -> "device_locked"
      [] OTHER -> "transport_failure"

(* parseList: the physical iOS devices among the records; one of them that *)
(* is available without an identifier makes the document invalid.          *)
ParseList(records) ==
    LET phones == {r \in records : r.phone}
    IN  IF \E r \in phones : r.available /\ ~r.identified
        THEN [code |-> "protocol_mismatch", devices |-> {}]
        ELSE [code |-> "ok", devices |-> phones]

(* resolve, with Selector{UDID, AllowSingle} as Runtime.Resolve builds it: *)
(* `anyUdid` stands for no configured identifier.  The device is returned  *)
(* as a singleton.                                                         *)
Resolve(devices, udid, anyUdid) ==
    LET matches == {d \in devices : d.available /\ (udid = anyUdid \/ d.udid = udid)}
    IN  CASE matches = {} -> [code |-> "no_device", device |-> {}]
          [] Cardinality(matches) > 1 -> [code |-> "multiple_devices", device |-> {}]
          [] OTHER -> [code |-> "ok", device |-> matches]

(* What the document of `devicectl device info lockState` says *)
LockAnswer == {"unlocked", "locked", "invalid", "other_device", "silent"}

(* CheckReady on the device as it was listed, and the answer to its query *)
CheckReady(device, answer) ==
    CASE ~device.paired -> "device_untrusted"
      [] answer \in DevicectlFailure -> MapDeviceCtlError(answer)
      [] answer = "io_failure" -> "io_failure"
      [] answer \in {"invalid", "other_device", "silent"} -> "protocol_mismatch"
      [] answer = "locked" -> "device_locked"
      [] OTHER -> "ok"
================================================================================
