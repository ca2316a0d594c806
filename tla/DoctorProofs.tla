------------------------------ MODULE DoctorProofs -----------------------------
(***************************************************************************)
(* Doctor, for any configuration sources and any listings, and for any     *)
(* number of runs in one process: the slot of the usbmux probe, what the   *)
(* report and the exit status say, and the configuration they rest on.     *)
(***************************************************************************)
EXTENDS Doctor, FiniteSetTheorems, TLAPS

(* OneListingAtATime is inductive once the probe's variables have their    *)
(* shapes; where the run is does not matter.                               *)
SlotInvariant ==
    /\ slot \in {"free", "held"}
    /\ orphan \in BOOLEAN
    /\ OneListingAtATime

(* Every step of the run that is not one of the probe leaves the probe as  *)
(* it is.                                                                  *)
LEMMA OtherStepsLeaveProbe ==
  ASSUME \/ Start \/ DeadlinePasses \/ Return
         \/ \E loops \in {{}, {"127.0.0.1", "localhost"}} : LoadConfig(loops)
         \/ CheckXcodeSelect \/ CheckDeviceCtl \/ CheckTransport \/ ProbeTCP
         \/ \E records \in Listings : ListDevices(records)
         \/ ListFails
         \/ \E answer \in LockAnswer \cup DevicectlFailure \cup {"io_failure"} :
               CheckDeviceReady(answer)
         \/ \E k \in DOMAIN Probes : ProbeApp(k)
         \/ CheckConfig \/ CheckTemplate \/ CheckPath \/ PrintReport
  PROVE  UNCHANGED <<slot, usb, orphan>>
  BY Zenon DEF Start, DeadlinePasses, Return, LoadConfig, CheckXcodeSelect, CheckDeviceCtl,
     CheckTransport, ProbeTCP, ListDevices, ListFails, CheckDeviceReady, ProbeApp,
     CheckConfig, CheckTemplate, CheckPath, PrintReport, probeVars

(* What a step of the probe may do with the slot *)
LEMMA ProbeStepsPreserve ==
  ASSUME SlotInvariant, AcquireSlot \/ AwaitListing \/ ListReturns \/ ListSends \/ OrphanReturns
  PROVE  SlotInvariant'
  <1> USE DEF SlotInvariant, OneListingAtATime
  <1>1. CASE AcquireSlot
    BY <1>1 DEF AcquireSlot
  <1>2. CASE AwaitListing
    <2>1. CASE usb \in {"ok", "plain"} /\ usb' = "none" /\ UNCHANGED <<orphan, slot>>
      BY <2>1
    <2>2. CASE Abandon
      <3>1. UNCHANGED slot /\ usb' = "none"
        BY <2>2 DEF Abandon
      <3>2. orphan' = (orphan \/ usb = "listing")
        BY <2>2 DEF Abandon
      <3>3. orphan' \in BOOLEAN /\ (orphan' <=> orphan \/ usb = "listing")
        BY <3>2, Zenon
      <3> QED
        BY <3>1, <3>3
    <2> QED
      BY <1>2, <2>1, <2>2 DEF AwaitListing
  <1>3. CASE ListReturns
    BY <1>3 DEF ListReturns
  <1>4. CASE ListSends
    BY <1>4 DEF ListSends
  <1>5. CASE OrphanReturns
    BY <1>5 DEF OrphanReturns
  <1> QED
    BY <1>1, <1>2, <1>3, <1>4, <1>5

(* boundedUSBProbe: however many runs give up on usbmuxd, one listing runs *)
(* at a time, and the slot is neither lost nor given out twice.            *)
THEOREM SlotIsNeverShared == Spec => []OneListingAtATime
  <1>1. Init => SlotInvariant
    BY DEF Init, SlotInvariant, OneListingAtATime
  <1>2. ASSUME SlotInvariant, [Next]_vars
        PROVE  SlotInvariant'
    <2>1. CASE AcquireSlot \/ AwaitListing \/ ListReturns \/ ListSends \/ OrphanReturns
      BY <1>2, <2>1, ProbeStepsPreserve
    <2>2. CASE UNCHANGED <<slot, usb, orphan>>
      BY <1>2, <2>2 DEF SlotInvariant, OneListingAtATime
    <2>3. CASE UNCHANGED vars
      BY <2>2, <2>3 DEF vars, probeVars
    <2> QED
      BY <1>2, <2>1, <2>2, <2>3, OtherStepsLeaveProbe DEF Next, Advance
  <1>3. SlotInvariant => OneListingAtATime
    BY DEF SlotInvariant
  <1> QED
    BY <1>1, <1>2, <1>3, PTL DEF Spec
--------------------------------------------------------------------------------
(* What the report, the first error and the exit status have to do with    *)
(* each other.  The code of a result says whether it failed, so that the   *)
(* first failure of the report is the error that was kept.                 *)

Code == StableCode \cup {"ok"}
Result == [status : {"pass", "warning", "fail"}, code : Code]

FailedAt(k) == report[k].status = "fail"

ReportAgrees ==
    /\ report \in Seq(Result)
    /\ firstErr \in Code
    /\ \A k \in DOMAIN report : FailedAt(k) <=> report[k].code # "ok"
    /\ firstErr = "ok" => \A k \in DOMAIN report : ~FailedAt(k)
    /\ firstErr # "ok" =>
          \E k \in DOMAIN report :
             FailedAt(k) /\ report[k].code = firstErr /\ \A l \in 1..(k - 1) : ~FailedAt(l)

HealthAgrees == healthy <=> firstErr = "ok"

ExitAgrees == step = "exited" /\ exit.printed => exit.status = Execute(firstErr)

(* What a run knows at each step: where its configuration comes from and,  *)
(* as long as there is no error, which probes the App has answered, and    *)
(* that the device was selected as Resolve would.                          *)

SelectedAsResolved ==
    LET resolved == Resolve(seen.listed, state.device, Unset)
    IN  state.transport = "usb" => resolved.code = "ok" /\ resolved.device = seen.selected

NothingToUse ==
    /\ state.transport = "usb" /\ state.device = Unset
    /\ Resolve(seen.listed, state.device, Unset).code = "no_device"

Usable ==
    \/ seen.answered = {"health", "version", "capabilities"} /\ SelectedAsResolved
    \/ NothingToUse

DoctorShape ==
    /\ ctx \in {"live", "done"}
    /\ state = [transport |-> state.transport, device |-> state.device,
                configErr |-> state.configErr, devicectlErr |-> state.devicectlErr]
    /\ state.transport \in {"usb", "tcp"}
    /\ state.configErr \in Code
    /\ seen = [listed |-> seen.listed, selected |-> seen.selected, answered |-> seen.answered]

RunProgress ==
    /\ step \in {"idle", "load", "xcode", "devicectl", "transport", "tcp", "acquire", "wait",
                 "list", "ready", "health"} => seen.answered = {}
    /\ step = "load" => sources \in Sources
    /\ step = "version" => seen.answered = {"health"}
    /\ step = "capabilities" => seen.answered = {"health", "version"}
    /\ step \in {"acquire", "wait", "list", "ready"} => state.transport = "usb"
    /\ step = "tcp" => state.transport = "tcp"
    /\ step \in {"ready", "health", "version", "capabilities"} => SelectedAsResolved
    /\ state.devicectlErr # "ok" => firstErr # "ok"
    /\ firstErr = "ok" /\ step = "config" => Usable \/ state.configErr # "ok"
    /\ firstErr = "ok" /\ step \in {"template", "path", "print", "exited"} => Usable

DoctorInvariant ==
    ReportAgrees /\ HealthAgrees /\ ExitAgrees /\ DoctorShape /\ RunProgress

--------------------------------------------------------------------------------
(* A late check is a timeout, and every other failure has a stable code. *)
LEMMA ClassifiedCodesAreStable ==
  ASSUME NEW err, NEW fallback \in StableCode,
         ctx \in {"live", "done"},
         err \in StableCode \cup {"plain"} \/ ctx = "done"
  PROVE  ClassifyCode(err, ctx, fallback) \in StableCode
  BY DEF ClassifyCode, StableCode, TransportCode, DeviceCode, AppCode, LocalCode

(* Only a command without an error exits with 0. *)
LEMMA FailuresDoNotExitWithZero ==
  ASSUME NEW err \in StableCode
  PROVE  Execute(err) = ExitCode(err) /\ ExitCode(err) # 0
  BY DEF Execute, StableCommandError, ExitCode, CodeOf, StableCode, TransportCode, DeviceCode,
         AppCode, LocalCode

(* The codes of failures are codes, and none of them is "ok". *)
LEMMA StableCodesAreErrors ==
  ASSUME NEW code \in StableCode
  PROVE  code \in Code /\ code # "ok" /\ code # "plain"
  BY DEF Code, StableCode, TransportCode, DeviceCode, AppCode, LocalCode

(* The report has grown by a result, and the run goes on. *)
Reported(check) ==
    /\ ctx' = "live"
    /\ ReportAgrees' /\ HealthAgrees'
    /\ firstErr # "ok" => firstErr' # "ok"
    /\ step' = Following[check]
    /\ UNCHANGED exit

(* Run adds the result of a check to the report. *)
LEMMA FinishReports ==
  ASSUME ReportAgrees, HealthAgrees, ctx \in {"live", "done"},
         NEW check, NEW status \in {"pass", "warning", "fail"}, NEW err \in Code,
         status = "fail" <=> err # "ok",
         Finish(check, status, err)
  PROVE  Reported(check) /\ (err # "ok" => firstErr' # "ok")
  <1> DEFINE shown == IF ctx = "done" THEN "fail" ELSE status
             code == CASE ctx = "done" -> "request_timeout"
                       [] ctx # "done" /\ err = "ok" -> "ok"
                       [] OTHER -> ClassifyCode(err, ctx, "io_failure")
             result == [status |-> shown, code |-> code]
  <1>1. /\ report' = Append(report, result)
        /\ healthy' = (healthy /\ shown # "fail")
        /\ firstErr' = IF firstErr = "ok" THEN code ELSE firstErr
        /\ ctx' = "live" /\ step' = Following[check] /\ UNCHANGED exit
    BY Zenon DEF Finish
  <1>2. /\ code \in Code
        /\ shown = "fail" <=> code # "ok"
        /\ shown \in {"pass", "warning", "fail"}
        /\ err # "ok" => code # "ok"
    <2>1. CASE ctx = "done"
      BY <2>1 DEF Code, StableCode, TransportCode
    <2>2. CASE ctx = "live" /\ err = "ok"
      BY <2>2
    <2>3. CASE ctx = "live" /\ err # "ok"
      <3>1. err \in StableCode /\ err # "plain" /\ err # "ok"
        BY <2>3, StableCodesAreErrors DEF Code
      <3>2. code = err
        BY <2>3, <3>1 DEF ClassifyCode
      <3> QED
        BY <2>3, <3>1, <3>2 DEF Code
    <2> QED
      BY <2>1, <2>2, <2>3
  <1> HIDE DEF shown, code
  <1>3. /\ result \in Result
        /\ result.status = "fail" <=> result.code # "ok"
        /\ result.code = code
    BY <1>2 DEF Result
  <1> HIDE DEF result
  <1>4. report \in Seq(Result) /\ firstErr \in Code
    BY DEF ReportAgrees
  <1>5. /\ report' \in Seq(Result)
        /\ Len(report') = Len(report) + 1
        /\ \A k \in 1..Len(report) : report'[k] = report[k]
        /\ report'[Len(report) + 1] = result
    BY <1>1, <1>3, <1>4
  <1>6. DOMAIN report = 1..Len(report) /\ DOMAIN report' = 1..(Len(report) + 1) /\ Len(report) \in Nat
    BY <1>4, <1>5
  <1>7. firstErr' \in Code /\ (err # "ok" => firstErr' # "ok") /\ (firstErr # "ok" => firstErr' # "ok")
    BY <1>1, <1>2, <1>4
  <1>8. HealthAgrees'
    <2>1. shown = "fail" <=> code # "ok"
      BY <1>2
    <2>2. healthy' <=> healthy /\ shown # "fail"
      BY <1>1, Zenon
    <2> QED
      BY <1>1, <2>1, <2>2, Zenon DEF HealthAgrees
  <1>9. \A k \in DOMAIN report' : FailedAt(k)' <=> report'[k].code # "ok"
    BY <1>3, <1>5, <1>6 DEF ReportAgrees, FailedAt
  <1>10. firstErr' = "ok" => \A k \in DOMAIN report' : ~FailedAt(k)'
    BY <1>1, <1>2, <1>3, <1>5, <1>6 DEF ReportAgrees, FailedAt
  <1>11. ASSUME firstErr' # "ok"
         PROVE  \E k \in DOMAIN report' :
                   FailedAt(k)' /\ report'[k].code = firstErr' /\ \A l \in 1..(k - 1) : ~FailedAt(l)'
    <2>1. CASE firstErr = "ok"
      <3>1. \A k \in 1..Len(report) : ~FailedAt(k)
        BY <2>1, <1>6 DEF ReportAgrees
      <3>2. PICK last \in DOMAIN report' : last = Len(report) + 1
        BY <1>6
      <3>3. FailedAt(last)' /\ report'[last].code = firstErr'
        BY <1>1, <1>3, <1>5, <1>11, <2>1, <3>2 DEF FailedAt
      <3>4. \A l \in 1..(last - 1) : ~FailedAt(l)'
        BY <1>5, <1>6, <3>1, <3>2 DEF FailedAt
      <3> QED
        BY <3>3, <3>4
    <2>2. CASE firstErr # "ok"
      <3>1. PICK k \in 1..Len(report) :
               FailedAt(k) /\ report[k].code = firstErr /\ \A l \in 1..(k - 1) : ~FailedAt(l)
        BY <2>2, <1>6 DEF ReportAgrees
      <3> QED
        BY <1>1, <1>5, <1>6, <2>2, <3>1 DEF FailedAt
    <2> QED
      BY <2>1, <2>2
  <1>12. ReportAgrees'
    BY <1>5, <1>7, <1>9, <1>10, <1>11, Zenon DEF ReportAgrees
  <1> QED
    BY <1>1, <1>7, <1>8, <1>12, Zenon DEF Reported

(* Fail reports an error, whichever of those that the code can meet it is. *)
LEMMA FailReports ==
  ASSUME ReportAgrees, HealthAgrees, ctx \in {"live", "done"},
         NEW check, NEW err, NEW fallback \in StableCode,
         err \in StableCode \cup {"plain"} \/ ctx = "done",
         Fail(check, err, fallback)
  PROVE  Reported(check) /\ firstErr' # "ok"
  <1>1. ClassifyCode(err, ctx, fallback) \in StableCode
    BY ClassifiedCodesAreStable
  <1>2. PICK code \in StableCode : code = ClassifyCode(err, ctx, fallback)
    BY <1>1
  <1>3. Finish(check, "fail", code)
    BY <1>2, Zenon DEF Fail
  <1>4. code \in Code /\ code # "ok"
    BY StableCodesAreErrors
  <1> QED
    BY <1>3, <1>4, FinishReports

(* A check that finds nothing wrong fails only if it is late. *)
LEMMA PassReports ==
  ASSUME ReportAgrees, HealthAgrees, ctx \in {"live", "done"},
         NEW check, Pass(check) \/ Warn(check)
  PROVE  Reported(check)
  <1>1. PICK status \in {"pass", "warning"} : Finish(check, status, "ok")
    BY Zenon DEF Pass, Warn
  <1>2. "ok" \in Code /\ status \in {"pass", "warning", "fail"} /\ status # "fail"
    BY DEF Code
  <1> QED
    BY <1>1, <1>2, FinishReports

--------------------------------------------------------------------------------
(* Whatever the sources say, the transport that Load returns is one of two. *)
LEMMA LoadedTransport ==
  ASSUME NEW from, NEW loops
  PROVE  Load(from, loops).transport \in {"usb", "tcp"}
  <1> DEFINE result == ApplyFlags(ApplyEnvironment(
                         ApplyFile(ApplyFile(Defaults, from["user"], "home"),
                                   from["project"], "working"),
                         from["environment"]), from["flags"])
  <1>1. Load(from, loops) = Validate(result, loops)
    BY Zenon DEF Load
  <1> HIDE DEF result
  <1>2. Invalid.transport = "usb"
    BY DEF Invalid, Defaults
  <1>3. \/ Validate(result, loops) = Invalid
        \/ Validate(result, loops) = result /\ result.transport \in {"usb", "tcp"}
    BY Zenon DEF Validate
  <1> QED
    BY <1>1, <1>2, <1>3

(* The selection of doctor is that of the commands. *)
LEMMA SelectionAgrees ==
  ASSUME NEW devices, NEW udid, ResolveUSBDevice(devices, udid).code = "ok"
  PROVE  LET choice == ResolveUSBDevice(devices, udid)
             resolved == Resolve(devices, udid, Unset)
         IN  /\ choice.device # {} => resolved.code = "ok" /\ resolved.device = choice.device
             /\ choice.device = {} => udid = Unset /\ resolved.code = "no_device"
  <1> DEFINE matches == {d \in devices : d.available /\ (udid = Unset \/ d.udid = udid)}
  <1>1. ResolveUSBDevice(devices, udid) =
          CASE Cardinality(matches) = 1 -> [code |-> "ok", device |-> matches]
            [] Cardinality(matches) > 1 -> [code |-> "multiple_devices", device |-> {}]
            [] matches = {} /\ udid = Unset -> [code |-> "ok", device |-> {}]
            [] OTHER -> [code |-> "no_device", device |-> {}]
    BY Zenon DEF ResolveUSBDevice
  <1>2. Resolve(devices, udid, Unset) =
          CASE matches = {} -> [code |-> "no_device", device |-> {}]
            [] Cardinality(matches) > 1 -> [code |-> "multiple_devices", device |-> {}]
            [] OTHER -> [code |-> "ok", device |-> matches]
    BY Zenon DEF Resolve
  <1>3. Cardinality({}) = 0
    BY FS_EmptySet
  <1> HIDE DEF matches
  <1> QED
    BY <1>1, <1>2, <1>3

--------------------------------------------------------------------------------
(* A step that reports a result keeps what the report says; what is left   *)
(* to show of it is how far the run is.                                    *)
LEMMA ReportedSteps ==
  ASSUME DoctorInvariant, NEW check, Following[check] # "exited", Reported(check),
         DoctorShape', RunProgress'
  PROVE  DoctorInvariant'
  BY DEF DoctorInvariant, Reported, ExitAgrees

(* A step that reports nothing. *)
LEMMA SilentSteps ==
  ASSUME DoctorInvariant, UNCHANGED reportVars, step' # "exited" \/ step' = step,
         DoctorShape', RunProgress'
  PROVE  DoctorInvariant'
  <1>1. ReportAgrees'
    BY DEF DoctorInvariant, reportVars, ReportAgrees, FailedAt
  <1>2. HealthAgrees'
    BY Zenon DEF DoctorInvariant, reportVars, HealthAgrees
  <1>3. ExitAgrees'
    BY DEF DoctorInvariant, reportVars, ExitAgrees
  <1> QED
    BY <1>1, <1>2, <1>3 DEF DoctorInvariant

(* What the invariant says of what a step has left alone. *)
LEMMA SameDevice ==
  ASSUME UNCHANGED <<state, seen>>
  PROVE  /\ SelectedAsResolved' <=> SelectedAsResolved
         /\ Usable' <=> Usable
  BY DEF SelectedAsResolved, Usable, NothingToUse

(* A check that fails leaves nothing to show but the errors it met. *)
LEMMA FailedSteps ==
  ASSUME DoctorInvariant, NEW check, Reported(check), firstErr' # "ok",
         check \in {"xcode", "devicectl", "transport", "config", "template", "path"},
         check \in {"xcode", "devicectl"} => seen'.answered = {},
         DoctorShape'
  PROVE  DoctorInvariant'
  <1>1. step' = Following[check] /\ step' \in {"devicectl", "transport", "config", "template", "path", "print"}
    BY DEF Reported, Following
  <1>2. check \notin {"xcode", "devicectl"} => step' \notin {"devicectl", "transport"}
    BY DEF Reported, Following
  <1>3. RunProgress'
    BY <1>1, <1>2 DEF RunProgress
  <1> QED
    BY <1>1, <1>3, ReportedSteps

(* The run up to the check of the transport. *)
LEMMA EarlySteps ==
  ASSUME DoctorInvariant,
         \/ Start \/ CheckXcodeSelect \/ CheckDeviceCtl
         \/ \E loops \in {{}, {"127.0.0.1", "localhost"}} : LoadConfig(loops)
  PROVE  DoctorInvariant'
  <1> USE DEF DoctorInvariant
  <1>1. CASE Start
    <2> USE <1>1 DEF Start
    <2>1. DoctorShape' /\ UNCHANGED reportVars
      BY DEF DoctorShape, reportVars
    <2>2. RunProgress'
      BY DEF RunProgress, reportVars
    <2> QED
      BY <2>1, <2>2, SilentSteps
  <1>2. CASE CheckXcodeSelect
    <2>1. step = "xcode" /\ UNCHANGED <<state, seen>> /\ seen.answered = {}
      BY <1>2 DEF CheckXcodeSelect, RunProgress
    <2>2. ctx \in {"live", "done"} /\ (Reported("xcode") => DoctorShape')
      BY <2>1 DEF DoctorShape, Reported
    <2>3. CASE Pass("xcode")
      <3>1. Reported("xcode") /\ step' = "devicectl"
        BY <2>2, <2>3, PassReports DEF Reported, Following
      <3>2. RunProgress'
        BY <2>1, <3>1 DEF RunProgress, Reported
      <3> QED
        BY <2>2, <3>1, <3>2, ReportedSteps DEF Following
    <2>4. CASE Fail("xcode", "plain", "tool_missing")
      <3>1. Reported("xcode") /\ firstErr' # "ok"
        BY <2>2, <2>4, FailReports DEF StableCode
      <3> QED
        BY <2>1, <2>2, <3>1, FailedSteps
    <2> QED
      BY <1>2, <2>3, <2>4 DEF CheckXcodeSelect
  <1>3. CASE CheckDeviceCtl
    <2>1. step = "devicectl" /\ UNCHANGED seen /\ seen.answered = {} /\ ctx \in {"live", "done"}
      BY <1>3 DEF CheckDeviceCtl, RunProgress, DoctorShape
    <2>2. CASE Pass("devicectl") /\ UNCHANGED state
      <3>1. Reported("devicectl") /\ step' = "transport"
        BY <2>1, <2>2, PassReports DEF Reported, Following
      <3>2. DoctorShape'
        BY <2>1, <2>2, <3>1 DEF DoctorShape, Reported
      <3>3. RunProgress'
        BY <2>1, <2>2, <3>1 DEF RunProgress, Reported
      <3> QED
        BY <3>1, <3>2, <3>3, ReportedSteps DEF Following
    <2>3. ASSUME NEW code \in {"tool_missing", ClassifyCode("plain", ctx, "tool_missing")},
                 state' = [state EXCEPT !.devicectlErr = code],
                 Finish("devicectl", "fail", code)
          PROVE  DoctorInvariant'
      <3>1. code \in StableCode
        BY <2>1, ClassifiedCodesAreStable DEF StableCode
      <3>2. Reported("devicectl") /\ firstErr' # "ok"
        BY <2>1, <2>3, <3>1, StableCodesAreErrors, FinishReports
      <3>3. DoctorShape'
        BY <2>1, <2>3, <3>2 DEF DoctorShape, Reported
      <3> QED
        BY <2>1, <3>2, <3>3, FailedSteps
    <2> QED
      BY <1>3, <2>2, <2>3 DEF CheckDeviceCtl
  <1>4. ASSUME NEW loops, LoadConfig(loops)
        PROVE  DoctorInvariant'
    <2>1. PICK config : config = Load(sources, loops)
      OBVIOUS
    <2>2. config.transport \in {"usb", "tcp"}
      BY <2>1, LoadedTransport
    <2>3. /\ state' = [state EXCEPT !.transport = config.transport, !.device = config.device,
                           !.configErr = CASE ctx = "done" -> "request_timeout"
                                           [] ctx = "live" /\ ~config.valid -> "config_invalid"
                                           [] OTHER -> "ok"]
          /\ step = "load" /\ step' = "xcode" /\ ctx' = "live" /\ UNCHANGED <<seen, reportVars>>
      BY <1>4, <2>1, Zenon DEF LoadConfig
    <2>4. PICK err \in {"request_timeout", "config_invalid", "ok"} :
             state' = [state EXCEPT !.transport = config.transport, !.device = config.device,
                           !.configErr = err]
      BY <2>3
    <2>5. err \in Code
      BY DEF Code, StableCode, TransportCode
    <2>6. DoctorShape'
      BY <2>2, <2>3, <2>4, <2>5 DEF DoctorShape
    <2>7. state'.devicectlErr = state.devicectlErr
      BY <2>4 DEF DoctorShape
    <2>8. RunProgress'
      BY <2>3, <2>7 DEF RunProgress, reportVars
    <2> QED
      BY <2>3, <2>6, <2>8, SilentSteps
  <1> QED
    BY <1>1, <1>2, <1>3, <1>4

(* The check of the transport until the App is asked. *)
LEMMA TransportSteps ==
  ASSUME DoctorInvariant, CheckTransport \/ ProbeTCP \/ AcquireSlot \/ AwaitListing
  PROVE  DoctorInvariant'
  <1> USE DEF DoctorInvariant
  <1>1. UNCHANGED <<state, seen>> /\ ctx \in {"live", "done"}
    BY DEF CheckTransport, ProbeTCP, AcquireSlot, AwaitListing, DoctorShape
  <1>2. Reported("transport") => DoctorShape'
    BY <1>1 DEF DoctorShape, Reported
  <1>3. Reported("transport") /\ firstErr' # "ok" => DoctorInvariant'
    BY <1>2, FailedSteps
  <1>4. ASSUME NEW next, GoTo(next)
        PROVE  step' = next /\ UNCHANGED reportVars /\ DoctorShape'
    BY <1>1, <1>4 DEF GoTo, DoctorShape
  <1>5. CASE CheckTransport
    <2>1. step = "transport" /\ seen.answered = {} /\ state.transport \in {"usb", "tcp"}
      BY <1>5 DEF CheckTransport, RunProgress, DoctorShape
    <2>2. CASE Warn("transport") /\ state.configErr # "ok"
      <3>1. Reported("transport") /\ step' = "config"
        BY <1>1, <2>2, PassReports DEF Reported, Following
      <3>2. RunProgress'
        BY <1>1, <2>2, <3>1 DEF RunProgress, Reported
      <3> QED
        BY <1>2, <3>1, <3>2, ReportedSteps DEF Following
    <2>3. CASE Warn("transport") /\ state.devicectlErr # "ok"
      <3>1. Reported("transport")
        BY <1>1, <2>3, PassReports
      <3>2. firstErr' # "ok"
        BY <2>3, <3>1 DEF RunProgress, Reported
      <3> QED
        BY <1>3, <3>1, <3>2
    <2>4. CASE GoTo("tcp") /\ state.transport = "tcp"
      <3>1. RunProgress'
        BY <1>1, <1>4, <2>1, <2>4 DEF RunProgress, reportVars
      <3> QED
        BY <1>4, <2>4, <3>1, SilentSteps
    <2>5. CASE GoTo("acquire") /\ state.transport = "usb"
      <3>1. RunProgress'
        BY <1>1, <1>4, <2>1, <2>5 DEF RunProgress, reportVars
      <3> QED
        BY <1>4, <2>5, <3>1, SilentSteps
    <2> QED
      BY <1>5, <2>1, <2>2, <2>3, <2>4, <2>5 DEF CheckTransport
  <1>6. CASE ProbeTCP
    <2>1. step = "tcp" /\ seen.answered = {} /\ state.transport = "tcp"
      BY <1>6 DEF ProbeTCP, RunProgress
    <2>2. CASE GoTo("health")
      <3>1. SelectedAsResolved'
        BY <1>1, <2>1 DEF SelectedAsResolved
      <3>2. RunProgress'
        BY <1>1, <1>4, <2>1, <2>2, <3>1 DEF RunProgress, reportVars
      <3> QED
        BY <1>4, <2>2, <3>2, SilentSteps
    <2>3. ASSUME NEW err \in {"config_invalid", "app_not_reachable", "plain"},
                 Fail("transport", err, "transport_failure")
          PROVE  DoctorInvariant'
      <3>1. err \in StableCode \cup {"plain"} /\ "transport_failure" \in StableCode
        BY DEF StableCode, TransportCode
      <3> QED
        BY <1>1, <1>3, <2>3, <3>1, FailReports
    <2> QED
      BY <1>6, <2>2, <2>3 DEF ProbeTCP
  <1>7. ASSUME step \in {"acquire", "wait"}, NEW next \in {"wait", "list"}, GoTo(next)
        PROVE  DoctorInvariant'
    <2>1. RunProgress'
      BY <1>1, <1>4, <1>7 DEF RunProgress, reportVars
    <2> QED
      BY <1>4, <1>7, <2>1, SilentSteps
  <1>8. ASSUME NEW err, err = "plain" \/ ctx = "done", Fail("transport", err, "transport_failure")
        PROVE  DoctorInvariant'
    <2>1. "transport_failure" \in StableCode
      BY DEF StableCode, TransportCode
    <2> QED
      BY <1>1, <1>3, <1>8, <2>1, FailReports
  <1>9. CASE AcquireSlot
    BY <1>7, <1>8, <1>9 DEF AcquireSlot
  <1>10. CASE AwaitListing
    BY <1>7, <1>8, <1>10 DEF AwaitListing
  <1> QED
    BY <1>5, <1>6, <1>9, <1>10

(* The listing, the selection and the readiness of the device. *)
LEMMA ListingSteps ==
  ASSUME DoctorInvariant,
         \/ \E records \in Listings : ListDevices(records)
         \/ ListFails
         \/ \E answer \in LockAnswer \cup DevicectlFailure \cup {"io_failure"} :
               CheckDeviceReady(answer)
  PROVE  DoctorInvariant'
  <1> USE DEF DoctorInvariant
  <1>1. UNCHANGED state /\ ctx \in {"live", "done"}
    BY DEF ListDevices, ListFails, CheckDeviceReady, DoctorShape
  <1>2. "transport_failure" \in StableCode /\ "protocol_mismatch" \in StableCode
        /\ "no_device" \in StableCode /\ "multiple_devices" \in StableCode
    BY DEF StableCode, TransportCode, AppCode, DeviceCode
  <1>3. \A f : MapDeviceCtlError(f) \in StableCode
    BY DEF MapDeviceCtlError, StableCode, TransportCode, DeviceCode
  <1>4. ASSUME NEW err \in StableCode,
               Fail("transport", err, "transport_failure") \/ Finish("transport", "fail", err)
        PROVE  Reported("transport") /\ firstErr' # "ok"
    BY <1>1, <1>2, <1>4, FailReports, FinishReports, StableCodesAreErrors
  <1>5. ASSUME NEW records, ListDevices(records)
        PROVE  DoctorInvariant'
    <2>1. PICK parsed : parsed = ParseList(records)
      OBVIOUS
    <2>2. PICK choice : choice = ResolveUSBDevice(parsed.devices, state.device)
      OBVIOUS
    <2>3. /\ step = "list"
          /\ seen' = [seen EXCEPT !.listed = parsed.devices, !.selected = choice.device]
          /\ CASE parsed.code # "ok" -> Fail("transport", parsed.code, "transport_failure")
               [] parsed.code = "ok" /\ choice.code # "ok" -> Finish("transport", "fail", choice.code)
               [] parsed.code = "ok" /\ choice.code = "ok" ->
                    IF choice.device = {} THEN Warn("transport") ELSE GoTo("ready")
      BY <1>5, <2>1, <2>2, Zenon DEF ListDevices
    <2>4. /\ seen'.listed = parsed.devices /\ seen'.selected = choice.device
          /\ seen'.answered = {}
          /\ seen' = [listed |-> seen'.listed, selected |-> seen'.selected,
                      answered |-> seen'.answered]
          /\ state.transport = "usb"
      BY <2>3 DEF DoctorShape, RunProgress
    <2>5. ctx' \in {"live", "done"} => DoctorShape'
      BY <1>1, <2>4 DEF DoctorShape
    <2>6. parsed.code \in StableCode \cup {"ok"}
      BY <1>2, <2>1 DEF ParseList
    <2>7. choice.code \in {"ok", "no_device", "multiple_devices"}
      BY <2>2 DEF ResolveUSBDevice
    <2>8. CASE parsed.code # "ok" \/ choice.code # "ok"
      <3>1. Reported("transport") /\ firstErr' # "ok"
        BY <1>2, <1>4, <2>3, <2>6, <2>7, <2>8
      <3>2. DoctorShape'
        BY <2>5, <3>1 DEF Reported
      <3> QED
        BY <3>1, <3>2, FailedSteps
    <2>9. CASE parsed.code = "ok" /\ choice.code = "ok" /\ choice.device = {}
      <3>1. Reported("transport") /\ step' = "config"
        BY <1>1, <2>3, <2>9, PassReports DEF Reported, Following
      <3>2. DoctorShape'
        BY <2>5, <3>1 DEF Reported
      <3>3. state.device = Unset /\ Resolve(parsed.devices, state.device, Unset).code = "no_device"
        BY <2>2, <2>9, SelectionAgrees
      <3>4. Usable'
        BY <1>1, <2>4, <3>3 DEF Usable, NothingToUse
      <3>5. RunProgress'
        BY <1>1, <3>1, <3>4 DEF RunProgress, Reported
      <3> QED
        BY <3>1, <3>2, <3>5, ReportedSteps DEF Following
    <2>10. CASE parsed.code = "ok" /\ choice.code = "ok" /\ choice.device # {}
      <3>1. step' = "ready" /\ UNCHANGED <<ctx, reportVars>>
        BY <2>3, <2>10 DEF GoTo
      <3>2. LET resolved == Resolve(parsed.devices, state.device, Unset)
            IN  resolved.code = "ok" /\ resolved.device = choice.device
        BY <2>2, <2>10, SelectionAgrees
      <3>3. SelectedAsResolved'
        BY <1>1, <2>4, <3>2 DEF SelectedAsResolved
      <3>4. RunProgress'
        BY <1>1, <2>4, <3>1, <3>3 DEF RunProgress, reportVars
      <3> QED
        BY <1>1, <2>5, <3>1, <3>4, SilentSteps
    <2> QED
      BY <2>8, <2>9, <2>10
  <1>6. CASE ListFails
    <2>1. PICK err \in StableCode : Fail("transport", err, "transport_failure")
      BY <1>3, <1>6 DEF ListFails, StableCode, LocalCode
    <2>2. Reported("transport") /\ firstErr' # "ok"
      BY <1>4, <2>1
    <2>3. DoctorShape'
      BY <1>1, <1>6, <2>2 DEF DoctorShape, Reported, ListFails
    <2> QED
      BY <2>2, <2>3, FailedSteps
  <1>7. ASSUME NEW answer, CheckDeviceReady(answer)
        PROVE  DoctorInvariant'
    <2>1. PICK code : code = CheckReady(CHOOSE d \in seen.selected : TRUE, answer)
      OBVIOUS
    <2>2. /\ step = "ready" /\ UNCHANGED seen
          /\ IF code = "ok" THEN GoTo("health") ELSE Fail("transport", code, "transport_failure")
      BY <1>7, <2>1, Zenon DEF CheckDeviceReady
    <2>3. code \in StableCode \cup {"ok"}
      BY <1>2, <1>3, <2>1 DEF CheckReady, StableCode, DeviceCode, LocalCode
    <2>4. CASE code # "ok"
      <3>1. Reported("transport") /\ firstErr' # "ok"
        BY <1>4, <2>2, <2>3, <2>4
      <3>2. DoctorShape'
        BY <1>1, <2>2, <3>1 DEF DoctorShape, Reported
      <3> QED
        BY <3>1, <3>2, FailedSteps
    <2>5. CASE code = "ok"
      <3>1. step' = "health" /\ UNCHANGED <<ctx, reportVars>>
        BY <2>2, <2>5 DEF GoTo
      <3>2. SelectedAsResolved' /\ seen.answered = {} /\ DoctorShape'
        BY <1>1, <2>2, <3>1, SameDevice DEF RunProgress, DoctorShape
      <3>3. RunProgress'
        BY <1>1, <2>2, <3>1, <3>2 DEF RunProgress, reportVars
      <3> QED
        BY <3>1, <3>2, <3>3, SilentSteps
    <2> QED
      BY <2>4, <2>5
  <1> QED
    BY <1>5, <1>6, <1>7

(* checkApp: the probes. *)
LEMMA ProbeSteps ==
  ASSUME DoctorInvariant, NEW k \in DOMAIN Probes, ProbeApp(k)
  PROVE  DoctorInvariant'
  <1> USE DEF DoctorInvariant
  <1>1. UNCHANGED state /\ ctx \in {"live", "done"} /\ step = Probes[k]
    BY DEF ProbeApp, DoctorShape
  <1>2. /\ k \in 1..3 /\ Len(Probes) = 3
        /\ Probes[1] = "health" /\ Probes[2] = "version" /\ Probes[3] = "capabilities"
    BY DEF Probes
  <1>3. SelectedAsResolved
    BY <1>1, <1>2 DEF RunProgress
  <1>4. ASSUME NEW err \in ProbeError, Fail("transport", err, Fallback[k]), UNCHANGED seen
        PROVE  DoctorInvariant'
    <2>1. err \in StableCode
      BY DEF ProbeError, StableCode, TransportCode, AppCode
    <2>2. Fallback[k] \in StableCode
      BY <1>2 DEF Fallback, StableCode, TransportCode, AppCode
    <2>3. Reported("transport") /\ firstErr' # "ok"
      BY <1>1, <1>4, <2>1, <2>2, FailReports
    <2>4. DoctorShape'
      BY <1>1, <1>4, <2>3 DEF DoctorShape, Reported
    <2> QED
      BY <2>3, <2>4, FailedSteps
  <1>5. ASSUME seen' = [seen EXCEPT !.answered = @ \cup {Probes[k]}],
               IF k = Len(Probes) THEN Pass("transport") ELSE GoTo(Probes[k + 1])
        PROVE  DoctorInvariant'
    <2>1. /\ seen'.listed = seen.listed /\ seen'.selected = seen.selected
          /\ seen'.answered = seen.answered \cup {Probes[k]}
          /\ seen' = [listed |-> seen'.listed, selected |-> seen'.selected,
                      answered |-> seen'.answered]
      BY <1>5 DEF DoctorShape
    <2>2. ctx' \in {"live", "done"} => DoctorShape'
      BY <1>1, <2>1 DEF DoctorShape
    <2>3. SelectedAsResolved'
      BY <1>1, <1>3, <2>1 DEF SelectedAsResolved
    <2>4. CASE k = 3
      <3>1. Reported("transport") /\ step' = "config"
        BY <1>1, <1>2, <1>5, <2>4, PassReports DEF Reported, Following
      <3>2. seen'.answered = {"health", "version", "capabilities"}
        BY <1>1, <1>2, <2>1, <2>4 DEF RunProgress
      <3>3. Usable'
        BY <2>3, <3>2 DEF Usable
      <3>4. RunProgress' /\ DoctorShape'
        BY <1>1, <2>2, <3>1, <3>3 DEF RunProgress, Reported
      <3> QED
        BY <3>1, <3>4, ReportedSteps DEF Following
    <2>5. CASE k # 3
      <3>1. step' = Probes[k + 1] /\ UNCHANGED <<ctx, reportVars>>
        BY <1>2, <1>5, <2>5 DEF GoTo
      <3>2. \/ step' = "version" /\ seen'.answered = {"health"}
            \/ step' = "capabilities" /\ seen'.answered = {"health", "version"}
        BY <1>1, <1>2, <2>1, <2>5, <3>1 DEF RunProgress
      <3>3. RunProgress'
        BY <1>1, <2>3, <3>1, <3>2 DEF RunProgress, reportVars
      <3>4. step' # "exited"
        BY <3>2
      <3> QED
        BY <1>1, <2>2, <3>1, <3>3, <3>4, SilentSteps
    <2> QED
      BY <2>4, <2>5
  <1> QED
    BY <1>4, <1>5 DEF ProbeApp

(* The last three checks. *)
LEMMA LateSteps ==
  ASSUME DoctorInvariant, CheckConfig \/ CheckTemplate \/ CheckPath
  PROVE  DoctorInvariant'
  <1> USE DEF DoctorInvariant
  <1>1. UNCHANGED <<state, seen>> /\ ctx \in {"live", "done"}
    BY DEF CheckConfig, CheckTemplate, CheckPath, DoctorShape
  <1>2. ASSUME NEW check, Reported(check) PROVE DoctorShape'
    BY <1>1, <1>2 DEF DoctorShape, Reported
  <1>3. ASSUME NEW check \in {"config", "template", "path"}, step = check, Pass(check) \/ Warn(check),
               check = "config" => state.configErr = "ok"
        PROVE  DoctorInvariant'
    <2>1. Reported(check) /\ step' \in {"template", "path", "print"} /\ DoctorShape'
      BY <1>1, <1>2, <1>3, PassReports DEF Reported, Following
    <2>2. firstErr = "ok" => Usable
      BY <1>3 DEF RunProgress
    <2>3. firstErr' = "ok" => Usable'
      BY <1>1, <2>1, <2>2, SameDevice DEF Reported
    <2>4. RunProgress'
      BY <1>1, <2>1, <2>3 DEF RunProgress, Reported
    <2> QED
      BY <2>1, <2>4, ReportedSteps DEF Following
  <1>4. ASSUME NEW check \in {"config", "template"}, NEW code \in Code, code # "ok",
               Finish(check, "fail", code)
        PROVE  DoctorInvariant'
    <2>1. Reported(check) /\ firstErr' # "ok"
      BY <1>1, <1>4, FinishReports
    <2> QED
      BY <1>2, <2>1, FailedSteps
  <1>5. CASE CheckConfig
    BY <1>3, <1>4, <1>5 DEF CheckConfig, DoctorShape
  <1>6. CASE CheckTemplate
    <2>1. "io_failure" \in Code
      BY DEF Code, StableCode, LocalCode
    <2> QED
      BY <1>3, <1>4, <1>6, <2>1 DEF CheckTemplate
  <1>7. CASE CheckPath
    BY <1>3, <1>7 DEF CheckPath
  <1> QED
    BY <1>5, <1>6, <1>7

(* The report is printed, the run is over, and the next one begins. *)
LEMMA LastSteps ==
  ASSUME DoctorInvariant, PrintReport \/ Return
  PROVE  DoctorInvariant'
  <1> USE DEF DoctorInvariant
  <1>1. CASE PrintReport
    <2>1. /\ step = "print" /\ step' = "exited"
          /\ UNCHANGED <<ctx, state, seen, report, firstErr>>
          /\ exit'.printed => exit'.status = Execute(firstErr)
      BY <1>1 DEF PrintReport
    <2>2. healthy' = healthy
      BY <1>1, Zenon DEF PrintReport
    <2>3. ReportAgrees' /\ DoctorShape'
      BY <2>1 DEF ReportAgrees, FailedAt, DoctorShape
    <2>4. HealthAgrees'
      BY <2>1, <2>2, Zenon DEF HealthAgrees
    <2>5. ExitAgrees'
      BY <2>1 DEF ExitAgrees
    <2>6. firstErr = "ok" => Usable
      BY <2>1 DEF RunProgress
    <2>7. RunProgress'
      BY <2>1, <2>6, SameDevice DEF RunProgress
    <2> QED
      BY <2>3, <2>4, <2>5, <2>7
  <1>2. CASE Return
    <2>1. /\ step' = "idle" /\ UNCHANGED ctx
          /\ state' = NoState /\ seen' = NothingSeen
          /\ report' = <<>> /\ firstErr' = "ok"
      BY <1>2 DEF Return
    <2>2. healthy' = TRUE
      BY <1>2, Zenon DEF Return
    <2>3. ReportAgrees'
      BY <2>1 DEF ReportAgrees, Code
    <2>4. HealthAgrees'
      BY <2>1, <2>2, Zenon DEF HealthAgrees
    <2>5. DoctorShape'
      BY <2>1 DEF DoctorShape, NoState, NothingSeen, Code
    <2>6. RunProgress'
      BY <2>1 DEF RunProgress, NoState, NothingSeen
    <2> QED
      BY <2>1, <2>3, <2>4, <2>5, <2>6 DEF ExitAgrees
  <1> QED
    BY <1>1, <1>2

(* The steps that the run does not see. *)
LEMMA BackgroundSteps ==
  ASSUME DoctorInvariant,
         \/ DeadlinePasses \/ ListReturns \/ ListSends \/ OrphanReturns
         \/ UNCHANGED vars
  PROVE  DoctorInvariant'
  <1>1. UNCHANGED <<step, sources, state, seen, reportVars>> /\ (ctx' = ctx \/ ctx' = "done")
    BY DEF DeadlinePasses, ListReturns, ListSends, OrphanReturns, vars
  <1>2. DoctorShape'
    BY <1>1 DEF DoctorInvariant, DoctorShape
  <1>3. RunProgress'
    BY <1>1, SameDevice DEF DoctorInvariant, RunProgress, reportVars
  <1> QED
    BY <1>1, <1>2, <1>3, SilentSteps

(* The inductive invariant holds in every reachable state. *)
LEMMA DoctorInvariantHolds == Spec => []DoctorInvariant
  <1>1. Init => DoctorInvariant
    <2> SUFFICES ASSUME Init PROVE DoctorInvariant
      OBVIOUS
    <2>1. ReportAgrees /\ ExitAgrees
      BY DEF Init, ReportAgrees, ExitAgrees, Code
    <2>2. HealthAgrees
      BY Zenon DEF Init, HealthAgrees
    <2>3. DoctorShape
      BY DEF Init, DoctorShape, NoState, NothingSeen, Code
    <2>4. RunProgress
      BY DEF Init, RunProgress, NoState, NothingSeen
    <2> QED
      BY <2>1, <2>2, <2>3, <2>4 DEF DoctorInvariant
  <1>2. DoctorInvariant /\ [Next]_vars => DoctorInvariant'
    BY EarlySteps, TransportSteps, ListingSteps, ProbeSteps, LateSteps, LastSteps,
       BackgroundSteps DEF Next, Advance
  <1> QED
    BY <1>1, <1>2, PTL DEF Spec

(* The exit status is that of the first failure in the report, deadlines   *)
(* and repeated runs included, and 0 exactly if the report is healthy.     *)
THEOREM ExitTellsTheReport == Spec => []ExitFollowsReport
  <1>1. DoctorInvariant => ExitFollowsReport
    <2> SUFFICES ASSUME DoctorInvariant, step = "exited", exit.printed
                 PROVE  LET failures == {k \in DOMAIN report : report[k].status = "fail"}
                        IN  /\ healthy <=> failures = {}
                            /\ exit.status = 0 <=> failures = {}
                            /\ failures # {} =>
                                 exit.status =
                                   ExitCode(report[CHOOSE k \in failures : \A l \in failures : k <= l].code)
      BY Zenon DEF ExitFollowsReport
    <2> DEFINE failures == {k \in DOMAIN report : report[k].status = "fail"}
    <2>1. /\ ReportAgrees /\ HealthAgrees
          /\ exit.status = Execute(firstErr) /\ firstErr \in Code
          /\ DOMAIN report = 1..Len(report) /\ Len(report) \in Nat
      BY DEF DoctorInvariant, ExitAgrees, ReportAgrees
    <2>2. CASE firstErr = "ok"
      <3>1. failures = {}
        BY <2>1, <2>2 DEF ReportAgrees, FailedAt
      <3>2. exit.status = 0
        BY <2>1, <2>2 DEF Execute
      <3> QED
        BY <2>1, <2>2, <3>1, <3>2, Zenon DEF HealthAgrees
    <2>3. CASE firstErr # "ok"
      <3>1. PICK k \in DOMAIN report :
               FailedAt(k) /\ report[k].code = firstErr /\ \A l \in 1..(k - 1) : ~FailedAt(l)
        BY <2>1, <2>3 DEF ReportAgrees
      <3>2. k \in failures /\ \A l \in failures : k <= l
        BY <2>1, <3>1 DEF FailedAt
      <3>3. \A l \in failures : l \in Nat
        BY <2>1
      <3> DEFINE first == CHOOSE l \in failures : \A m \in failures : l <= m
      <3>4. first \in failures /\ \A m \in failures : first <= m
        BY <3>2
      <3>5. first = k
        BY <3>2, <3>3, <3>4
      <3>6. firstErr \in StableCode
        BY <2>1, <2>3 DEF Code
      <3>7. exit.status = ExitCode(report[first].code) /\ exit.status # 0
        BY <2>1, <3>1, <3>5, <3>6, FailuresDoNotExitWithZero
      <3>8. failures # {}
        BY <3>2
      <3> QED
        BY <2>1, <2>3, <3>7, <3>8, Zenon DEF HealthAgrees
    <2> QED
      BY <2>2, <2>3
  <1> QED
    BY <1>1, DoctorInvariantHolds, PTL

(* When doctor says healthy, the App has answered on the very device that  *)
(* the commands select, or there is neither a device nor one configured.   *)
THEOREM HealthyReportsAreUsable == Spec => []HealthyMeansUsable
  <1>1. DoctorInvariant => HealthyMeansUsable
    <2> SUFFICES ASSUME DoctorInvariant, healthy, step \in {"print", "exited"}
                 PROVE  LET resolved == Resolve(seen.listed, state.device, Unset)
                        IN  \/ /\ seen.answered = {"health", "version", "capabilities"}
                               /\ state.transport = "usb" =>
                                    resolved.code = "ok" /\ resolved.device = seen.selected
                            \/ /\ state.transport = "usb" /\ state.device = Unset
                               /\ resolved.code = "no_device"
      BY Zenon DEF HealthyMeansUsable
    <2>1. firstErr = "ok"
      BY Zenon DEF DoctorInvariant, HealthAgrees
    <2>2. Usable
      BY <2>1 DEF DoctorInvariant, RunProgress
    <2> QED
      BY <2>2, Zenon DEF Usable, SelectedAsResolved, NothingToUse
  <1> QED
    BY <1>1, DoctorInvariantHolds, PTL

--------------------------------------------------------------------------------
(* The configuration. *)

(* The value of the most specific source that sets the field *)
Chosen(from, f, default) ==
    IF from["flags"][f] # Unset THEN from["flags"][f]
    ELSE IF from["environment"][f] # Unset THEN from["environment"][f]
    ELSE IF from["project"][f] # Unset THEN from["project"][f]
    ELSE IF from["user"][f] # Unset THEN from["user"][f]
    ELSE default

(* The most specific source that sets a field is the first in the order.   *)
LEMMA SettingIsTheFirst ==
  ASSUME NEW from, NEW f
  PROVE  Setting(from, f) =
           IF from["flags"][f] # Unset THEN "flags"
           ELSE IF from["environment"][f] # Unset THEN "environment"
           ELSE IF from["project"][f] # Unset THEN "project"
           ELSE IF from["user"][f] # Unset THEN "user"
           ELSE Unset
  <1> DEFINE setters == {k \in DOMAIN Precedence : from[Precedence[k]][f] # Unset}
             first == CHOOSE k \in setters : \A l \in setters : k <= l
  <1>1. /\ DOMAIN Precedence = 1..4
        /\ Precedence[1] = "flags" /\ Precedence[2] = "environment"
        /\ Precedence[3] = "project" /\ Precedence[4] = "user"
    BY DEF Precedence
  <1>2. Setting(from, f) = IF setters = {} THEN Unset ELSE Precedence[first]
    BY Zenon DEF Setting
  <1>3. setters \subseteq 1..4
    BY <1>1
  <1>4. \A k \in 1..4 : k \in setters <=> from[Precedence[k]][f] # Unset
    BY <1>1
  <1>5. ASSUME NEW k \in setters, \A l \in setters : k <= l
        PROVE  first = k
    <2>1. first \in setters /\ \A l \in setters : first <= l
      BY <1>5
    <2> HIDE DEF setters, first
    <2>2. k \in 1..4 /\ first \in 1..4 /\ k <= first /\ first <= k
      BY <1>3, <1>5, <2>1
    <2> QED
      BY <2>2
  <1> HIDE DEF setters, first
  <1>6. CASE from["flags"][f] # Unset
    <2>1. first = 1 /\ setters # {}
      BY <1>1, <1>3, <1>4, <1>5, <1>6
    <2> QED
      BY <1>1, <1>2, <1>6, <2>1
  <1>7. CASE from["flags"][f] = Unset /\ from["environment"][f] # Unset
    <2>1. first = 2 /\ setters # {}
      BY <1>1, <1>3, <1>4, <1>5, <1>7
    <2> QED
      BY <1>1, <1>2, <1>7, <2>1
  <1>8. CASE from["flags"][f] = Unset /\ from["environment"][f] = Unset /\ from["project"][f] # Unset
    <2>1. first = 3 /\ setters # {}
      BY <1>1, <1>3, <1>4, <1>5, <1>8
    <2> QED
      BY <1>1, <1>2, <1>8, <2>1
  <1>9. CASE /\ from["flags"][f] = Unset /\ from["environment"][f] = Unset
             /\ from["project"][f] = Unset /\ from["user"][f] # Unset
    <2>1. first = 4 /\ setters # {}
      BY <1>1, <1>3, <1>4, <1>5, <1>9
    <2> QED
      BY <1>1, <1>2, <1>9, <2>1
  <1>10. CASE /\ from["flags"][f] = Unset /\ from["environment"][f] = Unset
              /\ from["project"][f] = Unset /\ from["user"][f] = Unset
    <2>1. setters = {}
      BY <1>1, <1>3, <1>4, <1>10
    <2> QED
      BY <1>2, <1>10, <2>1
  <1> QED
    BY <1>6, <1>7, <1>8, <1>9, <1>10

(* What the precedence promises, as a chain of alternatives. *)
LEMMA EffectiveIsChosen ==
  ASSUME NEW from, NEW f, NEW default
  PROVE  Effective(from, f, default) = Chosen(from, f, default)
  BY SettingIsTheFirst DEF Effective, Chosen, Unset

(* A configuration is a record of these fields. *)
IsConfig(c) ==
    c = [valid |-> c.valid, device |-> c.device, port |-> c.port, output |-> c.output,
         transport |-> c.transport, host |-> c.host, hostSet |-> c.hostSet]

(* `new` is the configuration c with what the source sets. *)
Overrides(new, c, source, base) ==
    /\ new.device = IF source["device"] = Unset THEN c.device ELSE source["device"]
    /\ new.port = IF source["port"] = Unset THEN c.port ELSE source["port"]
    /\ new.output = IF source["output"] = Unset THEN c.output
                    ELSE ResolvePath(base, source["output"])
    /\ new.transport = IF source["transport"] = Unset THEN c.transport ELSE source["transport"]
    /\ new.host = IF source["host"] = Unset THEN c.host ELSE source["host"]
    /\ new.hostSet <=> c.hostSet \/ source["host"] # Unset

(* Override does that, and validity stays as it is. *)
LEMMA OverrideSets ==
  ASSUME NEW c, IsConfig(c), NEW source, NEW base
  PROVE  /\ IsConfig(Override(c, source, base))
         /\ Override(c, source, base).valid = c.valid
         /\ Overrides(Override(c, source, base), c, source, base)
  <1> DEFINE device == IF source["device"] = Unset THEN c.device ELSE source["device"]
             port == IF source["port"] = Unset THEN c.port ELSE source["port"]
             output == IF source["output"] = Unset THEN c.output
                       ELSE ResolvePath(base, source["output"])
             transport == IF source["transport"] = Unset THEN c.transport ELSE source["transport"]
             host == IF source["host"] = Unset THEN c.host ELSE source["host"]
             hostSet == c.hostSet \/ source["host"] # Unset
             new == [valid |-> c.valid, device |-> device, port |-> port, output |-> output,
                     transport |-> transport, host |-> host, hostSet |-> hostSet]
  <1>1. Override(c, source, base) =
          [c EXCEPT !.device = device, !.port = port, !.output = output,
                    !.transport = transport, !.host = host, !.hostSet = hostSet]
    BY Zenon DEF Override
  <1> HIDE DEF device, port, output, transport, host, hostSet
  <1>2. Override(c, source, base) = new
    BY <1>1 DEF IsConfig
  <1>3. /\ IsConfig(new) /\ new.valid = c.valid /\ new.device = device /\ new.port = port
        /\ new.output = output /\ new.transport = transport /\ new.host = host
        /\ new.hostSet = hostSet
    BY DEF IsConfig
  <1> QED
    BY <1>2, <1>3, Zenon DEF Overrides, device, port, output, transport, host, hostSet

(* What the loading begins with, and what it ends in on an error. *)
LEMMA InvalidIsConfig ==
  /\ IsConfig(Defaults) /\ Defaults.valid
  /\ IsConfig(Invalid) /\ ~Invalid.valid
  <1>1. IsConfig(Defaults) /\ Defaults.valid
    BY DEF IsConfig, Defaults
  <1>2. PICK no : no = FALSE
    OBVIOUS
  <1>3. Invalid = [Defaults EXCEPT !.valid = no]
    BY <1>2, Zenon DEF Invalid
  <1>4. IsConfig(Invalid) /\ Invalid.valid = no
    BY <1>1, <1>3 DEF IsConfig
  <1> QED
    BY <1>1, <1>2, <1>4, Zenon

(* The sources are well-formed, each by itself. *)
FileAccepted(source) == ~source["broken"] /\ ~EmptyIn(source)

AllAccepted(from) ==
    /\ FileAccepted(from["user"]) /\ FileAccepted(from["project"])
    /\ ~EmptyIn(from["environment"]) /\ from["environment"]["port"] \notin {"0", "junk"}
    /\ ~EmptyIn(from["flags"])

(* After all four sources: valid if each is well-formed, and every field   *)
(* has the value of the most specific source that sets it.                 *)
LEMMA AllSourcesApply ==
  ASSUME NEW from, NEW c,
         c = ApplyFlags(ApplyEnvironment(
               ApplyFile(ApplyFile(Defaults, from["user"], "home"), from["project"], "working"),
               from["environment"]), from["flags"])
  PROVE  /\ IsConfig(c)
         /\ c.valid <=> AllAccepted(from)
         /\ c.valid =>
              /\ c.device = Chosen(from, "device", Unset)
              /\ c.port = Chosen(from, "port", DefaultPort)
              /\ c.transport = Chosen(from, "transport", "usb")
              /\ c.host = Chosen(from, "host", "127.0.0.1")
              /\ c.hostSet <=> Setting(from, "host") # Unset
              /\ c.output = IF Setting(from, "output") = Unset THEN <<"working", "default">>
                            ELSE ResolvePath(OutputBase(from), Chosen(from, "output", Unset))
  <1> DEFINE u == from["user"]
             p == from["project"]
             e == from["environment"]
             f == from["flags"]
  <1>1. PICK c1 : c1 = ApplyFile(Defaults, u, "home")
    OBVIOUS
  <1>2. PICK c2 : c2 = ApplyFile(c1, p, "working")
    OBVIOUS
  <1>3. PICK c3 : c3 = ApplyEnvironment(c2, e)
    OBVIOUS
  <1>4. PICK c4 : c4 = ApplyFlags(c3, f)
    OBVIOUS
  <1>5. IsConfig(Defaults) /\ Defaults.valid
    BY InvalidIsConfig
  <1>6. /\ IsConfig(c1)
        /\ c1.valid <=> FileAccepted(u)
        /\ c1.valid => Overrides(c1, Defaults, u, "home")
    <2>1. c1 = IF ~Defaults.valid \/ ~FileAccepted(u) THEN Invalid ELSE Override(Defaults, u, "home")
      BY <1>1, Zenon DEF ApplyFile, FileAccepted
    <2> QED
      BY <1>5, <2>1, InvalidIsConfig, OverrideSets, Zenon
  <1>7. /\ IsConfig(c2)
        /\ c2.valid <=> c1.valid /\ FileAccepted(p)
        /\ c2.valid => Overrides(c2, c1, p, "working")
    <2>1. c2 = IF ~c1.valid \/ ~FileAccepted(p) THEN Invalid ELSE Override(c1, p, "working")
      BY <1>2, Zenon DEF ApplyFile, FileAccepted
    <2> QED
      BY <1>6, <2>1, InvalidIsConfig, OverrideSets, Zenon
  <1>8. /\ IsConfig(c3)
        /\ c3.valid <=> c2.valid /\ ~EmptyIn(e) /\ e["port"] \notin {"0", "junk"}
        /\ c3.valid => Overrides(c3, c2, e, "working")
    <2>1. c3 = IF ~c2.valid \/ ~(~EmptyIn(e) /\ e["port"] \notin {"0", "junk"})
               THEN Invalid ELSE Override(c2, e, "working")
      BY <1>3, Zenon DEF ApplyEnvironment
    <2> QED
      BY <1>7, <2>1, InvalidIsConfig, OverrideSets, Zenon
  <1>9. /\ IsConfig(c4)
        /\ c4.valid <=> c3.valid /\ ~EmptyIn(f)
        /\ c4.valid => Overrides(c4, c3, f, "working")
    <2>1. c4 = IF ~c3.valid \/ EmptyIn(f) THEN Invalid ELSE Override(c3, f, "working")
      BY <1>4, Zenon DEF ApplyFlags
    <2> QED
      BY <1>8, <2>1, InvalidIsConfig, OverrideSets, Zenon
  <1>10. c = c4
    BY <1>1, <1>2, <1>3, <1>4, Zenon
  <1>11. c.valid <=> AllAccepted(from)
    BY <1>10, <1>6, <1>7, <1>8, <1>9, Zenon DEF AllAccepted
  <1>12. ASSUME c.valid
         PROVE  /\ Overrides(c1, Defaults, u, "home") /\ Overrides(c2, c1, p, "working")
                /\ Overrides(c3, c2, e, "working") /\ Overrides(c, c3, f, "working")
    BY <1>6, <1>7, <1>8, <1>9, <1>10, <1>12, Zenon
  <1>13. /\ Defaults.device = Unset /\ Defaults.port = DefaultPort /\ Defaults.transport = "usb"
         /\ Defaults.host = "127.0.0.1" /\ Defaults.hostSet = FALSE
         /\ Defaults.output = <<"working", "default">>
    BY DEF Defaults
  <1>14. ASSUME c.valid
         PROVE  c.hostSet <=> Setting(from, "host") # Unset
    <2>1. c.hostSet <=> f["host"] # Unset \/ e["host"] # Unset \/ p["host"] # Unset \/ u["host"] # Unset
      BY <1>12, <1>13, <1>14, Zenon DEF Overrides
    <2>2. Setting(from, "host") # Unset <=>
             f["host"] # Unset \/ e["host"] # Unset \/ p["host"] # Unset \/ u["host"] # Unset
      BY SettingIsTheFirst DEF Unset
    <2> QED
      BY <2>1, <2>2, Zenon
  <1>15. ASSUME c.valid
         PROVE  /\ c.device = Chosen(from, "device", Unset)
                /\ c.port = Chosen(from, "port", DefaultPort)
                /\ c.transport = Chosen(from, "transport", "usb")
                /\ c.host = Chosen(from, "host", "127.0.0.1")
    BY <1>12, <1>13, <1>15 DEF Overrides, Chosen
  <1>16. ASSUME c.valid
         PROVE  c.output = IF Setting(from, "output") = Unset THEN <<"working", "default">>
                           ELSE ResolvePath(OutputBase(from), Chosen(from, "output", Unset))
    <2>1. c.output = IF f["output"] # Unset THEN ResolvePath("working", f["output"])
                     ELSE IF e["output"] # Unset THEN ResolvePath("working", e["output"])
                     ELSE IF p["output"] # Unset THEN ResolvePath("working", p["output"])
                     ELSE IF u["output"] # Unset THEN ResolvePath("home", u["output"])
                     ELSE <<"working", "default">>
      BY <1>12, <1>13, <1>16 DEF Overrides
    <2>2. Setting(from, "output") =
            IF f["output"] # Unset THEN "flags" ELSE IF e["output"] # Unset THEN "environment"
            ELSE IF p["output"] # Unset THEN "project" ELSE IF u["output"] # Unset THEN "user"
            ELSE Unset
      BY SettingIsTheFirst
    <2> QED
      BY <2>1, <2>2 DEF Chosen, OutputBase, Unset
  <1> QED
    BY <1>9, <1>10, <1>14, <1>15, <1>16, <1>11, Zenon

(* The statements of Load in their order keep the precedence, which does   *)
(* not mention that order.                                                 *)
LEMMA LoadKeepsPrecedence ==
  ASSUME NEW from, NEW loops,
         DOMAIN from = {"user", "project", "environment", "flags"},
         ~from["environment"]["broken"], ~from["flags"]["broken"]
  PROVE  FollowsPrecedence(from, loops)
  <1>1. PICK c : c = ApplyFlags(ApplyEnvironment(
               ApplyFile(ApplyFile(Defaults, from["user"], "home"), from["project"], "working"),
               from["environment"]), from["flags"])
    OBVIOUS
  <1>2. PICK loaded : loaded = Load(from, loops)
    OBVIOUS
  <1>3. loaded = Validate(c, loops)
    BY <1>1, <1>2, Zenon DEF Load
  <1> DEFINE fits == /\ c.port # "0" /\ c.transport \in {"usb", "tcp"}
                     /\ ~(c.transport = "usb" /\ c.hostSet)
                     /\ ~(c.transport = "tcp" /\ c.host \notin loops)
  <1>4. loaded = IF ~(c.valid /\ fits) THEN Invalid ELSE c
    BY <1>3, Zenon DEF Validate
  <1>5. ~Invalid.valid
    BY InvalidIsConfig
  <1>6. (loaded.valid <=> c.valid /\ fits) /\ (loaded.valid => loaded = c)
    BY <1>4, <1>5, Zenon
  <1>7. AllAccepted(from) <=> /\ \A s \in DOMAIN from : ~from[s]["broken"] /\ ~EmptyIn(from[s])
                              /\ from["environment"]["port"] \notin {"0", "junk"}
    BY Zenon DEF AllAccepted, FileAccepted
  <1>8. /\ c.valid <=> AllAccepted(from)
        /\ c.valid =>
              /\ c.device = Effective(from, "device", Unset)
              /\ c.port = Effective(from, "port", DefaultPort)
              /\ c.transport = Effective(from, "transport", "usb")
              /\ c.host = Effective(from, "host", "127.0.0.1")
              /\ c.hostSet <=> Setting(from, "host") # Unset
              /\ c.output = IF Setting(from, "output") = Unset THEN <<"working", "default">>
                            ELSE ResolvePath(OutputBase(from), Effective(from, "output", Unset))
    BY <1>1, AllSourcesApply, EffectiveIsChosen, Zenon
  <1>9. c.valid => (fits <=>
              /\ Effective(from, "port", DefaultPort) # "0"
              /\ \/ /\ Effective(from, "transport", "usb") = "usb"
                    /\ Setting(from, "host") = Unset
                 \/ /\ Effective(from, "transport", "usb") = "tcp"
                    /\ Effective(from, "host", "127.0.0.1") \in loops)
    BY <1>8, Zenon
  <1>10. loaded.valid <=> IsValid(from, loops)
    BY <1>6, <1>7, <1>8, <1>9, Zenon DEF IsValid
  <1> QED
    BY <1>2, <1>6, <1>8, <1>10, Zenon DEF FollowsPrecedence

(* For any sources, the configuration of a run is the one that the         *)
(* precedence of its sources says.                                         *)
THEOREM ConfigurationFollowsPrecedence == Spec => []LoadFollowsPrecedence
  <1>1. DoctorInvariant => LoadFollowsPrecedence
    BY SourcesAssumption, LoadKeepsPrecedence
    DEF DoctorInvariant, RunProgress, LoadFollowsPrecedence
  <1> QED
    BY <1>1, DoctorInvariantHolds, PTL
====
