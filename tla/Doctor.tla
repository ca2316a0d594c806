--------------------------------- MODULE Doctor --------------------------------
(***************************************************************************)
(* `ap-ios-debug doctor`: the configuration is loaded, six checks run one  *)
(* after the other, each under a deadline of its own, and the report is    *)
(* printed.  Execute may be called again in the same process, as the tests *)
(* of the CLI do: what survives a run is the slot of the usbmux probe and  *)
(* a listing that nobody waits for any more.                               *)
(***************************************************************************)
EXTENDS Configuration, Devices, Sequences

CONSTANTS
    Sources,    \* the configuration sources, as functions from a source to what it sets
    Listings    \* the documents that `devicectl list devices` answers

(* The environment and the flags are no documents: what they set may be    *)
(* wrong, but they cannot be malformed.                                    *)
ASSUME SourcesAssumption ==
    \A s \in Sources :
       /\ DOMAIN s = {"user", "project", "environment", "flags"}
       /\ ~s["environment"]["broken"] /\ ~s["flags"]["broken"]

VARIABLES
    step,       \* "idle", where the run is, or "exited"
    sources,    \* the configuration sources of the run, until they are loaded
    ctx,        \* the context of the current check: "live" or "done"
    state,      \* runState: what the checks use of the configuration, and two errors
    usb,        \* the probe of this run: "none", "listing", "released" or its result
    orphan,     \* whether a listing that its probe has abandoned is still running
    slot,       \* usbProbeSlot: "free" or "held"
    seen,       \* the devices listed, the one selected, the probes the App answered
    report,     \* the results of the checks, with the code of the error of each
    healthy,    \* report.Healthy
    firstErr,   \* the first error of a check, or "ok"
    exit        \* the exit status, and whether the report was printed

probeVars == <<usb, orphan, slot>>
reportVars == <<report, healthy, firstErr, exit>>
vars == <<step, sources, ctx, state, probeVars, seen, reportVars>>

NoSources == <<>>

NoState == [transport |-> "usb", device |-> Unset, configErr |-> "ok", devicectlErr |-> "ok"]
NothingSeen == [listed |-> {}, selected |-> {}, answered |-> {}]
NoExit == [status |-> 0, printed |-> FALSE]

Init ==
    /\ step = "idle"
    /\ sources = NoSources
    /\ orphan = FALSE /\ slot = "free"
    /\ ctx = "live"
    /\ state = NoState /\ seen = NothingSeen /\ usb = "none"
    /\ report = <<>> /\ healthy = TRUE /\ firstErr = "ok" /\ exit = NoExit

--------------------------------------------------------------------------------
(* classifyCode: an error without a stable code takes the check's own. *)
ClassifyCode(err, context, fallback) ==
    CASE context = "done" -> "request_timeout"
      [] context = "live" /\ err = "plain" -> fallback
      [] OTHER -> err

(* The order of the checks in Run *)
Following ==
    [xcode |-> "devicectl", devicectl |-> "transport", transport |-> "config",
     config |-> "template", template |-> "path", path |-> "print"]

(* Slip: a check that is late is reported as failed, but keeps its error. *)
FinishKeepingError(check, status, err) ==
    LET shown == IF ctx = "done" THEN "fail" ELSE status
        code == IF err = "ok" THEN "ok" ELSE ClassifyCode(err, ctx, "io_failure")
    IN  /\ report' = Append(report, [status |-> shown, code |-> code])
        /\ healthy' = (healthy /\ shown # "fail")
        /\ firstErr' = IF firstErr = "ok" THEN code ELSE firstErr
        /\ step' = Following[check]
        /\ ctx' = "live"
        /\ UNCHANGED exit

(* What Run does with the result of a check.  A deadline that has passed   *)
(* replaces whatever the check found.                                      *)
Finish(check, status, err) ==
    LET late == ctx = "done"
        shown == IF late THEN "fail" ELSE status
        code == CASE late -> "request_timeout"
                  [] ~late /\ err = "ok" -> "ok"
                  [] OTHER -> ClassifyCode(err, ctx, "io_failure")
    IN  /\ report' = Append(report, [status |-> shown, code |-> code])
        /\ healthy' = (healthy /\ shown # "fail")
        /\ firstErr' = IF firstErr = "ok" THEN code ELSE firstErr
        /\ step' = Following[check]
        /\ ctx' = "live"
        /\ UNCHANGED exit

Pass(check) == Finish(check, "pass", "ok")
Warn(check) == Finish(check, "warning", "ok")
Fail(check, err, fallback) == Finish(check, "fail", ClassifyCode(err, ctx, fallback))

GoTo(next) == step' = next /\ UNCHANGED <<ctx, reportVars>>

(* context.WithTimeout: the deadline of the load or of a check passes. *)
DeadlinePasses ==
    /\ step \notin {"idle", "print", "exited"} /\ ctx = "live"
    /\ ctx' = "done"
    /\ UNCHANGED <<step, sources, state, probeVars, seen, reportVars>>

--------------------------------------------------------------------------------
Start ==
    /\ step = "idle"
    /\ sources' \in Sources
    /\ step' = "load"
    /\ UNCHANGED <<ctx, state, probeVars, seen, reportVars>>

(* Run loads the configuration; the host of the TCP transport is looked up *)
(* meanwhile, and resolves to loopback addresses only for `loops`.         *)
LoadConfig(loops) ==
    /\ step = "load"
    /\ LET config == Load(sources, loops)
       IN  state' = [state EXCEPT
                        !.transport = config.transport, !.device = config.device,
                        !.configErr = CASE ctx = "done" -> "request_timeout"
                                        [] ctx = "live" /\ ~config.valid -> "config_invalid"
                                        [] OTHER -> "ok"]
    /\ sources' = NoSources
    /\ step' = "xcode"
    /\ ctx' = "live"
    /\ UNCHANGED <<probeVars, seen, reportVars>>

(* checkXcodeSelect: the tool is missing, or it fails, or it is killed. *)
CheckXcodeSelect ==
    /\ step = "xcode"
    /\ Pass("xcode") \/ Fail("xcode", "plain", "tool_missing")
    /\ UNCHANGED <<sources, state, probeVars, seen>>

(* checkDeviceCtl; LookPath fails with tool_missing even when it is late. *)
CheckDeviceCtl ==
    /\ step = "devicectl"
    /\ \/ Pass("devicectl") /\ UNCHANGED state
       \/ \E code \in {"tool_missing", ClassifyCode("plain", ctx, "tool_missing")} :
             /\ state' = [state EXCEPT !.devicectlErr = code]
             /\ Finish("devicectl", "fail", code)
    /\ UNCHANGED <<sources, probeVars, seen>>

--------------------------------------------------------------------------------
(* checkTransport *)

CheckTransport ==
    /\ step = "transport"
    /\ CASE state.configErr # "ok" -> Warn("transport")
         [] state.configErr = "ok" /\ state.transport = "tcp" -> GoTo("tcp")
         [] state.configErr = "ok" /\ state.transport = "usb" ->
              IF state.devicectlErr # "ok" THEN Warn("transport") ELSE GoTo("acquire")
    /\ UNCHANGED <<sources, state, probeVars, seen>>

(* TCPProbe: NewTCP looks the host up once more, Dial, and Close. *)
ProbeTCP ==
    /\ step = "tcp"
    /\ \/ GoTo("health")
       \/ \E err \in {"config_invalid", "app_not_reachable", "plain"} :
             Fail("transport", err, "transport_failure")
    /\ UNCHANGED <<sources, state, probeVars, seen>>

(* Slip: the slot is awaited whatever becomes of the context. *)
AcquireOrWait ==
    /\ step = "acquire" /\ slot = "free"
    /\ slot' = "held" /\ usb' = "listing" /\ GoTo("wait")
    /\ UNCHANGED <<sources, state, orphan, seen>>

(* boundedUSBProbe: the select for the slot *)
AcquireSlot ==
    /\ step = "acquire"
    /\ \/ slot = "free" /\ slot' = "held" /\ usb' = "listing" /\ GoTo("wait")
       \/ ctx = "done" /\ Fail("transport", "deadline", "transport_failure") /\ UNCHANGED <<slot, usb>>
    /\ UNCHANGED <<sources, state, orphan, seen>>

(* The goroutine of the probe: the listing returns, the slot is released,  *)
(* and then the result is sent, whether or not somebody waits for it.      *)
ListReturns ==
    /\ usb = "listing"
    /\ usb' = "released" /\ slot' = "free"
    /\ UNCHANGED <<step, sources, ctx, state, orphan, seen, reportVars>>

ListSends ==
    /\ usb = "released"
    /\ usb' \in {"ok", "plain"}
    /\ UNCHANGED <<step, sources, ctx, state, orphan, slot, seen, reportVars>>

OrphanReturns ==
    /\ orphan
    /\ orphan' = FALSE /\ slot' = "free"
    /\ UNCHANGED <<step, sources, ctx, state, usb, seen, reportVars>>

(* Slip: the probe that gives up gives the slot back. *)
AbandonReleasing ==
    /\ orphan' = (orphan \/ usb = "listing")
    /\ slot' = "free"
    /\ usb' = "none"

(* A listing that its probe no longer waits for keeps the slot. *)
Abandon ==
    /\ orphan' = (orphan \/ usb = "listing")
    /\ usb' = "none"
    /\ UNCHANGED slot

AwaitListing ==
    /\ step = "wait"
    /\ \/ usb = "ok" /\ usb' = "none" /\ UNCHANGED <<orphan, slot>> /\ GoTo("list")
       \/ usb = "plain" /\ usb' = "none" /\ UNCHANGED <<orphan, slot>>
            /\ Fail("transport", usb, "transport_failure")
       \/ ctx = "done" /\ Abandon /\ Fail("transport", "deadline", "transport_failure")
    /\ UNCHANGED <<sources, state, seen>>

(* Slip: the first of several devices is as good as any. *)
ResolveAny(devices, udid) ==
    LET matches == {d \in devices : d.available /\ (udid = Unset \/ d.udid = udid)}
    IN  CASE matches # {} -> [code |-> "ok", device |-> {CHOOSE d \in matches : TRUE}]
          [] matches = {} /\ udid = Unset -> [code |-> "ok", device |-> {}]
          [] OTHER -> [code |-> "no_device", device |-> {}]

(* resolveUSBDevice: the doctor's own selection.  No device at all is not  *)
(* an error when none is configured.                                       *)
ResolveUSBDevice(devices, udid) ==
    LET matches == {d \in devices : d.available /\ (udid = Unset \/ d.udid = udid)}
    IN  CASE Cardinality(matches) = 1 -> [code |-> "ok", device |-> matches]
          [] Cardinality(matches) > 1 -> [code |-> "multiple_devices", device |-> {}]
          [] matches = {} /\ udid = Unset -> [code |-> "ok", device |-> {}]
          [] OTHER -> [code |-> "no_device", device |-> {}]

(* Discoverer.List answers the records, or fails. *)
ListDevices(records) ==
    /\ step = "list"
    /\ LET parsed == ParseList(records)
           choice == ResolveUSBDevice(parsed.devices, state.device)
       IN  /\ seen' = [seen EXCEPT !.listed = parsed.devices, !.selected = choice.device]
           /\ CASE parsed.code # "ok" -> Fail("transport", parsed.code, "transport_failure")
                [] parsed.code = "ok" /\ choice.code # "ok" -> Finish("transport", "fail", choice.code)
                [] parsed.code = "ok" /\ choice.code = "ok" ->
                     IF choice.device = {} THEN Warn("transport") ELSE GoTo("ready")
    /\ UNCHANGED <<sources, state, probeVars>>

ListFails ==
    /\ step = "list"
    /\ \E err \in {MapDeviceCtlError(f) : f \in DevicectlFailure} \cup {"io_failure"} :
          Fail("transport", err, "transport_failure")
    /\ UNCHANGED <<sources, state, probeVars, seen>>

CheckDeviceReady(answer) ==
    /\ step = "ready"
    /\ LET code == CheckReady(CHOOSE d \in seen.selected : TRUE, answer)
       IN  IF code = "ok" THEN GoTo("health") ELSE Fail("transport", code, "transport_failure")
    /\ UNCHANGED <<sources, state, probeVars, seen>>

(* checkApp: the probes, in their order, and what each falls back to.  The *)
(* version is read from a second request for /v1/health.                   *)
Probes == <<"health", "version", "capabilities">>
Fallback == <<"app_not_reachable", "protocol_mismatch", "protocol_mismatch">>
ProbeError == {"config_invalid", "app_not_reachable", "transport_failure", "auth_failed",
               "protocol_mismatch"}

ProbeApp(k) ==
    /\ step = Probes[k]
    /\ \/ /\ seen' = [seen EXCEPT !.answered = @ \cup {Probes[k]}]
          /\ IF k = Len(Probes) THEN Pass("transport") ELSE GoTo(Probes[k + 1])
       \/ /\ \E err \in ProbeError : Fail("transport", err, Fallback[k])
          /\ UNCHANGED seen
    /\ UNCHANGED <<sources, state, probeVars>>

--------------------------------------------------------------------------------
CheckConfig ==
    /\ step = "config"
    /\ IF state.configErr # "ok" THEN Finish("config", "fail", state.configErr) ELSE Pass("config")
    /\ UNCHANGED <<sources, state, probeVars, seen>>

(* checkTemplate: locator.Locate finds a directory with both files or none. *)
CheckTemplate ==
    /\ step = "template"
    /\ Pass("template") \/ Finish("template", "fail", "io_failure")
    /\ UNCHANGED <<sources, state, probeVars, seen>>

CheckPath ==
    /\ step = "path"
    /\ Pass("path") \/ Warn("path")
    /\ UNCHANGED <<sources, state, probeVars, seen>>

(* The command prints the report, and its error decides the exit status    *)
(* once the report is printed.                                             *)
PrintReport ==
    /\ step = "print"
    /\ \/ exit' = [status |-> Execute(firstErr), printed |-> TRUE]
       \/ exit' = [status |-> Execute("io_failure"), printed |-> FALSE]
    /\ step' = "exited"
    /\ UNCHANGED <<sources, ctx, state, probeVars, seen, report, healthy, firstErr>>

(* Execute returns to its caller. *)
Return ==
    /\ step = "exited"
    /\ step' = "idle"
    /\ state' = NoState /\ seen' = NothingSeen
    /\ report' = <<>> /\ healthy' = TRUE /\ firstErr' = "ok" /\ exit' = NoExit
    /\ UNCHANGED <<sources, ctx, probeVars>>

--------------------------------------------------------------------------------
Advance ==
    \/ \E loops \in {{}, {"127.0.0.1", "localhost"}} : LoadConfig(loops)
    \/ CheckXcodeSelect \/ CheckDeviceCtl \/ CheckTransport \/ ProbeTCP
    \/ AcquireSlot \/ AwaitListing
    \/ \E records \in Listings : ListDevices(records)
    \/ ListFails
    \/ \E answer \in LockAnswer \cup DevicectlFailure \cup {"io_failure"} : CheckDeviceReady(answer)
    \/ \E k \in DOMAIN Probes : ProbeApp(k)
    \/ CheckConfig \/ CheckTemplate \/ CheckPath \/ PrintReport

Next ==
    \/ Start \/ Advance \/ DeadlinePasses \/ Return
    \/ ListReturns \/ ListSends \/ OrphanReturns

(* The processes and connections of a check end with its context, and the  *)
(* timer fires; nothing makes usbmuxd answer a listing.                    *)
Fairness == WF_vars(Advance) /\ WF_vars(DeadlinePasses)

Spec == Init /\ [][Next]_vars /\ Fairness

--------------------------------------------------------------------------------
(* The configuration that Load returns gives every field the value of the  *)
(* most specific source that sets it, relative output directories the      *)
(* directory of that source, and is refused exactly when a source is       *)
(* malformed or the values do not fit together.                            *)
LoadFollowsPrecedence ==
    step = "load" => \A loops \in {{}, {"127.0.0.1", "localhost"}} : FollowsPrecedence(sources, loops)

(* A healthy report means that a command would have worked: either the App *)
(* answered all three probes, over TCP or on the very device that the      *)
(* commands' own Resolve selects from the same listing, or no device is    *)
(* configured and none is connected, the one case doctor only warns about. *)
HealthyMeansUsable ==
    healthy /\ step \in {"print", "exited"} =>
        LET resolved == Resolve(seen.listed, state.device, Unset)
        IN  \/ /\ seen.answered = {"health", "version", "capabilities"}
               /\ state.transport = "usb" =>
                    resolved.code = "ok" /\ resolved.device = seen.selected
            \/ /\ state.transport = "usb" /\ state.device = Unset
               /\ resolved.code = "no_device"

(* The exit status is the one of the first check the report shows as       *)
(* failed, and 0 if it shows none; doctor says healthy exactly then.       *)
ExitFollowsReport ==
    LET failures == {k \in DOMAIN report : report[k].status = "fail"}
    IN  step = "exited" /\ exit.printed =>
            /\ healthy <=> failures = {}
            /\ exit.status = 0 <=> failures = {}
            /\ failures # {} =>
                 exit.status = ExitCode(report[CHOOSE k \in failures : \A l \in failures : k <= l].code)

(* However often doctor runs in a process, and however long usbmuxd keeps  *)
(* a listing, no two listings run at the same time, and the slot is held   *)
(* just while one runs, whether or not its probe still waits for it.       *)
OneListingAtATime ==
    /\ ~(orphan /\ usb = "listing")
    /\ slot = "held" <=> orphan \/ usb = "listing"

(* Every run of doctor ends, even while usbmuxd never answers. *)
DoctorEnds == step = "load" ~> step = "exited"
================================================================================
