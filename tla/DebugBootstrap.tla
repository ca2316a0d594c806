----------------------------- MODULE DebugBootstrap ----------------------------
(***************************************************************************)
(* The two ways an App integrates the kit: it holds one APIOSDebugRuntime  *)
(* ("direct", DebugRuntime as it is), or it calls APIOSDebugBootstrap, the *)
(* template that `init` installs ("bootstrap").                            *)
(*                                                                         *)
(* Every start of the bootstrap makes a new runtime.  Its instances take   *)
(* the place of the generations: the tasks and the server of generation g  *)
(* are those of the g-th instance, each started once and stopped at most   *)
(* once, and `lifecycle` is the bootstrap's.  Each instance has its own    *)
(* recording controller, so requests are left to the direct integration.   *)
(***************************************************************************)
EXTENDS DebugRuntime

CONSTANT BootstrapOnly      \* bound: these callers call only the bootstrap

VARIABLES
    mode,           \* "direct" or "bootstrap"
    stopRequested,  \* the StartOperations whose stopRequested is set
    overlapped      \* the bootstrap's start() calls that some stop() call overlaps

allVars == <<vars, mode, stopRequested, overlapped>>

BootstrapInit ==
    /\ Init
    /\ mode \in {"direct", "bootstrap"}
    /\ stopRequested = {}
    /\ overlapped = {}

--------------------------------------------------------------------------------
(* start(), whose turns are those of the runtime's own start() *)
BootstrapStart(c) == Start(c) /\ UNCHANGED stopRequested

BootstrapStartAfterStop(c) == StartAfterStop(c) /\ UNCHANGED stopRequested

(* One turn of stop()'s loop, on the lifecycle lc *)
StopTurn(c, lc) ==
    \/ /\ lc.state = "stopped"
       /\ lifecycle' = lc
       /\ Returns(c)
       /\ UNCHANGED <<stopTask, stopRequested>>
    \/ /\ lc.state = "starting"
       /\ lifecycle' = lc
       /\ stopRequested' = stopRequested \cup {lc.gen}
       /\ Waits(c, "stop", "startTask", lc.gen)
       /\ UNCHANGED stopTask
    \/ /\ lc.state = "running"
       /\ lifecycle' = [lc EXCEPT !.state = "stopping"]
       /\ stopTask' = [stopTask EXCEPT ![lc.gen] = "stopServer"]
       /\ Waits(c, "stop", "stopTask", lc.gen)
       /\ UNCHANGED stopRequested
    \/ /\ lc.state = "stopping"
       /\ lifecycle' = lc
       /\ Waits(c, "stop", "stopTask", lc.gen)
       /\ UNCHANGED <<stopTask, stopRequested>>

BootstrapStop(c) ==
    /\ caller[c].op = "none"
    /\ lifecycle.state # "stopped"
    /\ StopTurn(c, lifecycle)
    /\ UNCHANGED <<startTask, serverVars>>

(* After settleStart or settleStop: start() returns, stop() looks again. *)
Resume(c, lc) ==
    IF caller[c].op = "stop"
    THEN StopTurn(c, lc)
    ELSE lifecycle' = lc /\ Returns(c) /\ UNCHANGED <<stopTask, stopRequested>>

(* Slip: whoever saw a start succeed calls the bootstrap running. *)
SettleStartAnyway(c, g) ==
    \/ /\ g \in stopRequested /\ lifecycle = [state |-> "starting", gen |-> g]
       /\ lifecycle' = [lifecycle EXCEPT !.state = "stopping"]
       /\ stopTask' = [stopTask EXCEPT ![g] = "stopServer"]
       /\ Waits(c, caller[c].op, "settle", g)
       /\ UNCHANGED stopRequested
    \/ /\ g \notin stopRequested
       /\ Resume(c, [state |-> "running", gen |-> g])
    \/ /\ lifecycle.state = "stopping" /\ g \in stopRequested
       /\ Waits(c, caller[c].op, "settle", lifecycle.gen)
       /\ UNCHANGED <<lifecycle, stopTask, stopRequested>>
    \/ /\ lifecycle # [state |-> "starting", gen |-> g] /\ lifecycle.state # "stopping"
       /\ g \in stopRequested
       /\ Resume(c, lifecycle)

(* settleStart, when the start of instance g has succeeded *)
SettleStart(c, g) ==
    \/ /\ lifecycle = [state |-> "starting", gen |-> g] /\ g \in stopRequested
       /\ lifecycle' = [lifecycle EXCEPT !.state = "stopping"]
       /\ stopTask' = [stopTask EXCEPT ![g] = "stopServer"]
       /\ Waits(c, caller[c].op, "settle", g)
       /\ UNCHANGED stopRequested
    \/ /\ lifecycle = [state |-> "starting", gen |-> g] /\ g \notin stopRequested
       /\ Resume(c, [lifecycle EXCEPT !.state = "running"])
    \/ /\ lifecycle.state = "stopping"
       /\ Waits(c, caller[c].op, "settle", lifecycle.gen)
       /\ UNCHANGED <<lifecycle, stopTask, stopRequested>>
    \/ /\ lifecycle # [state |-> "starting", gen |-> g] /\ lifecycle.state # "stopping"
       /\ Resume(c, lifecycle)

BootstrapFinishStart(c) ==
    /\ caller[c].waits = "startTask" /\ startTask[caller[c].gen] = "ok"
    /\ SettleStart(c, caller[c].gen)
    /\ UNCHANGED <<startTask, serverVars>>

(* settleStart, when it has failed: start() throws, stop() returns. *)
BootstrapStartFailed(c) ==
    /\ caller[c].waits = "startTask" /\ startTask[caller[c].gen] = "failed"
    /\ lifecycle' = IF lifecycle = [state |-> "starting", gen |-> caller[c].gen]
                    THEN [lifecycle EXCEPT !.state = "stopped"] ELSE lifecycle
    /\ Returns(c)
    /\ UNCHANGED <<startTask, stopTask, stopRequested, serverVars>>

(* settleStop inside settleStart *)
BootstrapSettled(c) ==
    /\ caller[c].waits = "settle" /\ stopTask[caller[c].gen] = "done"
    /\ Resume(c, AfterStop(caller[c].gen))
    /\ UNCHANGED <<startTask, serverVars>>

BootstrapFinishStop(c) ==
    /\ caller[c].waits = "stopTask"
    /\ FinishStop(c)
    /\ UNCHANGED stopRequested

--------------------------------------------------------------------------------
BootstrapCallStep(c) ==
    \/ BootstrapStartAfterStop(c)
    \/ BootstrapFinishStart(c)
    \/ BootstrapStartFailed(c)
    \/ BootstrapSettled(c)
    \/ BootstrapFinishStop(c)

BootstrapNext ==
    \/ \E c \in Caller : BootstrapStart(c) \/ BootstrapStop(c) \/ BootstrapCallStep(c)
    \/ /\ \/ \E g \in Generation : TaskStep(g)
          \/ \E g \in Generation, state \in {"ready", "failed"} : ListenerReports(g, state)
       /\ UNCHANGED stopRequested

(* Which start() calls of the bootstrap have shared their time with a stop() *)
Overlap ==
    overlapped' = {c \in Caller :
        /\ mode = "bootstrap"
        /\ caller[c].op = "start" \/ caller'[c].op = "start"
        /\ \/ c \in overlapped /\ caller[c].op = "start"
           \/ \E d \in Caller : caller[d].op = "stop" \/ caller'[d].op = "stop"}

IntegrationNext ==
    /\ \/ /\ mode = "direct" /\ Next
          /\ \A c \in BootstrapOnly : caller'[c] = caller[c]
          /\ UNCHANGED stopRequested
       \/ mode = "bootstrap" /\ BootstrapNext
    /\ Overlap
    /\ UNCHANGED mode

(* The fairness of DebugRuntime, and of the resumption of the bootstrap's  *)
(* callers on the main actor                                               *)
IntegrationSpec ==
    /\ BootstrapInit /\ [][IntegrationNext]_allVars
    /\ \A g \in Generation :
          /\ WF_vars(TaskStep(g))
          /\ WF_vars(server[g] = "starting" /\ \E state \in {"ready", "failed"} :
                        ListenerReports(g, state))
    /\ \A c \in Caller :
          WF_vars(\/ mode = "direct" /\ CallStep(c)
                  \/ mode = "bootstrap" /\ BootstrapCallStep(c))
    /\ WF_vars(\E phase \in {"idle", "stuck"} : RecorderStopped(phase))

--------------------------------------------------------------------------------
(* A start() of the bootstrap that returns without an error, and that no   *)
(* stop() overlapped, leaves the kit running with the very start it waited *)
(* for, though other callers are still settling older starts and stops.    *)
StartLeavesRunning ==
    [][\A c \in Caller :
          /\ mode = "bootstrap"
          /\ caller[c].op = "start" /\ caller'[c].op = "none"
          /\ startTask[caller[c].gen] = "ok"
          /\ c \notin overlapped'
          => lifecycle' = [state |-> "running", gen |-> caller[c].gen]]_allVars

(* When stop() returns, the server it found alive or on its way is down,   *)
(* whoever settled the start and the stop it waited for.                   *)
StopLeavesNoServer ==
    [][\A c \in Caller :
          caller[c].op = "stop" /\ caller'[c].op = "none" =>
              server'[caller[c].gen] \notin {"starting", "ready"}]_allVars
================================================================================
