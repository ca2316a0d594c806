----------------------------- MODULE DebugRuntime ------------------------------
(***************************************************************************)
(* APIOSDebugRuntime: the lifecycle that concurrent start() and stop()     *)
(* calls share, the start and stop tasks of its generations, and the       *)
(* NetworkDebugServer each generation creates, with the listener           *)
(* (external), its connections and their requests.  Of the recording       *)
(* controller there is the phase that shutDown looks at; "idle" stands for *)
(* every phase without a session.  Its instants come from the wall clock,  *)
(* and while that is behind the last event the controller refuses to stop: *)
(* whether it still is behind, after it was stepped back, is left open.    *)
(* "stuck" is a session that is over, but whose end the controller refused *)
(* to record for that reason: it accepts neither a stop nor a start.       *)
(*                                                                         *)
(* Calls and tasks of the runtime run on the main actor, the server's on   *)
(* its own; a step is what happens between two suspensions.                *)
(***************************************************************************)
EXTENDS Integers

CONSTANTS
    None,
    Caller,             \* those who call start() and stop()
    Connection,         \* the connections clients open
    MaxGenerations      \* bound on the lifecycle generations

ASSUME RuntimeAssumption == MaxGenerations \in Nat /\ None \notin Connection

Generation == 1..MaxGenerations

VARIABLES
    lifecycle,      \* the lifecycle of the runtime and its generation
    caller,         \* per caller: its call and the task it waits for
    startTask,      \* per generation: the start task
    stopTask,       \* per generation: the stop task
    server,         \* per generation: the lifecycle of its server
    events,         \* per generation: listener states waiting for the server
    connection,     \* per connection: its state, server and request
    recorder        \* the recording phase, the request that started it, and
                    \* whether the clock was stepped back since

vars == <<lifecycle, caller, startTask, stopTask, server, events, connection, recorder>>
serverVars == <<server, events, connection, recorder>>

NoCall == [op |-> "none", waits |-> "none", gen |-> 0]
NoConnection == [state |-> "none", gen |-> 0, op |-> "none"]
NoSession(phase) == [phase |-> phase, by |-> None, clock |-> "steady"]
IdleRecorder == NoSession("idle")

Init ==
    /\ lifecycle = [state |-> "stopped", gen |-> 0]
    /\ caller = [c \in Caller |-> NoCall]
    /\ startTask = [g \in Generation |-> "none"]
    /\ stopTask = [g \in Generation |-> "none"]
    /\ server = [g \in Generation |-> "idle"]
    /\ events = [g \in Generation |-> {}]
    /\ connection = [k \in Connection |-> NoConnection]
    /\ recorder = IdleRecorder

--------------------------------------------------------------------------------
(* start() and stop() *)

Waits(c, op, task, g) == caller' = [caller EXCEPT ![c] = [op |-> op, waits |-> task, gen |-> g]]

Returns(c) == caller' = [caller EXCEPT ![c] = NoCall]

(* finishStop(generation): the lifecycle it leaves behind *)
AfterStop(g) ==
    IF lifecycle.state = "stopping" /\ lifecycle.gen = g
    THEN [lifecycle EXCEPT !.state = "stopped"]
    ELSE lifecycle

(* One turn of start()'s loop, on the lifecycle lc. *)
StartTurn(c, lc) ==
    \/ /\ lc.state = "stopped"
       /\ lc.gen < MaxGenerations
       /\ lifecycle' = [state |-> "starting", gen |-> lc.gen + 1]
       /\ startTask' = [startTask EXCEPT ![lc.gen + 1] = "preparing"]
       /\ Waits(c, "start", "startTask", lc.gen + 1)
    \/ /\ lc.state = "starting"
       /\ lifecycle' = lc
       /\ Waits(c, "start", "startTask", lc.gen)
       /\ UNCHANGED startTask
    \/ /\ lc.state = "running"
       /\ lifecycle' = lc
       /\ Returns(c)
       /\ UNCHANGED startTask
    \/ /\ lc.state = "stopping"
       /\ lifecycle' = lc
       /\ Waits(c, "start", "stopTask", lc.gen)
       /\ UNCHANGED startTask

Start(c) ==
    /\ caller[c].op = "none"
    /\ StartTurn(c, lifecycle)
    /\ UNCHANGED <<stopTask, serverVars>>

(* start() resumes from the stop it waited for, and looks again; with the  *)
(* last generation used up, the call is dropped.                           *)
StartAfterStop(c) ==
    /\ caller[c].op = "start" /\ caller[c].waits = "stopTask"
    /\ stopTask[caller[c].gen] = "done"
    /\ LET lc == AfterStop(caller[c].gen)
       IN  IF lc.state = "stopped" /\ lc.gen = MaxGenerations
           THEN lifecycle' = lc /\ Returns(c) /\ UNCHANGED startTask
           ELSE StartTurn(c, lc)
    /\ UNCHANGED <<stopTask, serverVars>>

(* finishStart(generation, task) *)
FinishStart(c) ==
    /\ caller[c].waits = "startTask"
    /\ startTask[caller[c].gen] \in {"ok", "failed"}
    /\ lifecycle' =
          IF lifecycle = [state |-> "starting", gen |-> caller[c].gen]
          THEN [lifecycle EXCEPT !.state =
                  IF startTask[caller[c].gen] = "ok" THEN "running" ELSE "stopped"]
          ELSE lifecycle
    /\ Returns(c)
    /\ UNCHANGED <<startTask, stopTask, serverVars>>

(* Slip: a start that is under way is simply forgotten. *)
StopForgetsStart(c) ==
    /\ caller[c].op = "none"
    /\ lifecycle.state # "stopped"
    /\ \/ /\ lifecycle.state = "starting"
          /\ lifecycle' = [lifecycle EXCEPT !.state = "stopped"]
          /\ UNCHANGED <<caller, stopTask>>
       \/ /\ lifecycle.state = "running"
          /\ lifecycle' = [lifecycle EXCEPT !.state = "stopping"]
          /\ stopTask' = [stopTask EXCEPT ![lifecycle.gen] = "stopServer"]
          /\ Waits(c, "stop", "stopTask", lifecycle.gen)
       \/ /\ lifecycle.state = "stopping"
          /\ Waits(c, "stop", "stopTask", lifecycle.gen)
          /\ UNCHANGED <<lifecycle, stopTask>>
    /\ UNCHANGED <<startTask, serverVars>>

Stop(c) ==
    /\ caller[c].op = "none"
    /\ lifecycle.state # "stopped"
    /\ \/ /\ lifecycle.state = "starting"
          /\ lifecycle' = [lifecycle EXCEPT !.state = "stopping"]
          /\ stopTask' = [stopTask EXCEPT ![lifecycle.gen] = "awaitStart"]
       \/ /\ lifecycle.state = "running"
          /\ lifecycle' = [lifecycle EXCEPT !.state = "stopping"]
          /\ stopTask' = [stopTask EXCEPT ![lifecycle.gen] = "stopServer"]
       \/ /\ lifecycle.state = "stopping"
          /\ UNCHANGED <<lifecycle, stopTask>>
    /\ Waits(c, "stop", "stopTask", lifecycle.gen)
    /\ UNCHANGED <<startTask, serverVars>>

(* Slip: the stop task is not awaited. *)
FinishStopEarly(c) ==
    /\ caller[c].op = "stop"
    /\ caller[c].waits = "stopTask"
    /\ lifecycle' = AfterStop(caller[c].gen)
    /\ Returns(c)
    /\ UNCHANGED <<startTask, stopTask, serverVars>>

FinishStop(c) ==
    /\ caller[c].op = "stop"
    /\ stopTask[caller[c].gen] = "done"
    /\ lifecycle' = AfterStop(caller[c].gen)
    /\ Returns(c)
    /\ UNCHANGED <<startTask, stopTask, serverVars>>

--------------------------------------------------------------------------------
(* The start task: routes, cleanup and serverFactory, then server.start() *)
StartTaskStartsServer(g) ==
    /\ startTask[g] = "preparing"
    /\ startTask' = [startTask EXCEPT ![g] = "serving"]
    /\ server' = [server EXCEPT ![g] = "starting"]
    /\ UNCHANGED <<lifecycle, caller, stopTask, events, connection, recorder>>

StartTaskFails(g) ==
    /\ startTask[g] = "preparing"
    /\ startTask' = [startTask EXCEPT ![g] = "failed"]
    /\ UNCHANGED <<lifecycle, caller, stopTask, serverVars>>

(* The listener (external) reports a state; a task carries it to the       *)
(* server, in no particular order.  After cancel() nothing is reported.    *)
ListenerReports(g, state) ==
    /\ server[g] \in {"starting", "ready"}
    /\ state = "ready" => server[g] = "starting"
    /\ events' = [events EXCEPT ![g] = @ \cup {state}]
    /\ UNCHANGED <<lifecycle, caller, startTask, stopTask, server, connection, recorder>>

(* transitionToStopped: the connections are cancelled and forgotten; their *)
(* handlers run on and see it at their next check.                         *)
TransitionToStopped(g) ==
    /\ server' = [server EXCEPT ![g] = "stopped"]
    /\ events' = [events EXCEPT ![g] = {}]

(* Slip: a listener that failed leaves the waiting start() alone. *)
UpdateListenerStateSilently(g, state) ==
    /\ state \in events[g]
    /\ IF state = "ready"
       THEN /\ events' = [events EXCEPT ![g] = @ \ {state}]
            /\ server' = [server EXCEPT ![g] = IF @ = "starting" THEN "ready" ELSE @]
            /\ startTask' = [startTask EXCEPT ![g] = IF @ = "serving" THEN "ok" ELSE @]
       ELSE TransitionToStopped(g) /\ UNCHANGED startTask
    /\ UNCHANGED <<lifecycle, caller, stopTask, connection, recorder>>

(* updateListenerState; the waiting start() of the server resumes, and the *)
(* start task with it.                                                     *)
UpdateListenerState(g, state) ==
    /\ state \in events[g]
    /\ IF state = "ready"
       THEN /\ events' = [events EXCEPT ![g] = @ \ {state}]
            /\ server' = [server EXCEPT ![g] = IF @ = "starting" THEN "ready" ELSE @]
            /\ startTask' = [startTask EXCEPT ![g] = IF @ = "serving" THEN "ok" ELSE @]
       ELSE /\ TransitionToStopped(g)
            /\ startTask' = [startTask EXCEPT ![g] = IF @ = "serving" THEN "failed" ELSE @]
    /\ UNCHANGED <<lifecycle, caller, stopTask, connection, recorder>>

--------------------------------------------------------------------------------
(* The stop task *)
StopTaskAwaitsStart(g) ==
    /\ stopTask[g] = "awaitStart"
    /\ startTask[g] \in {"ok", "failed"}
    /\ stopTask' = [stopTask EXCEPT ![g] = IF startTask[g] = "ok" THEN "stopServer" ELSE "done"]
    /\ UNCHANGED <<lifecycle, caller, startTask, serverVars>>

(* shutDown: the server first *)
StopTaskStopsServer(g) ==
    /\ stopTask[g] = "stopServer"
    /\ stopTask' = [stopTask EXCEPT ![g] = "status"]
    /\ TransitionToStopped(g)
    /\ UNCHANGED <<lifecycle, caller, startTask, connection, recorder>>

(* Slip: no look at the recording. *)
StopTaskReadsNoStatus(g) ==
    /\ stopTask[g] = "status"
    /\ stopTask' = [stopTask EXCEPT ![g] = "done"]
    /\ UNCHANGED <<lifecycle, caller, startTask, serverVars>>

(* then the phase of the recording *)
StopTaskReadsStatus(g) ==
    /\ stopTask[g] = "status"
    /\ stopTask' = [stopTask EXCEPT ![g] =
          IF recorder.phase = "recording" THEN "stopRecording" ELSE "done"]
    /\ UNCHANGED <<lifecycle, caller, startTask, serverVars>>

(* then recording.stop(), which is refused if the phase has changed since, *)
(* or if the clock is behind; try? drops the refusal.                      *)
StopTaskStopsRecording(g) ==
    /\ stopTask[g] = "stopRecording"
    /\ \/ /\ recorder.phase = "recording"
          /\ recorder' = [recorder EXCEPT !.phase = "stopping"]
          /\ stopTask' = [stopTask EXCEPT ![g] = "finalizing"]
       \/ /\ recorder.phase # "recording" \/ recorder.clock = "stepped"
          /\ stopTask' = [stopTask EXCEPT ![g] = "done"]
          /\ UNCHANGED recorder
    /\ UNCHANGED <<lifecycle, caller, startTask, server, events, connection>>

--------------------------------------------------------------------------------
(* The recording controller, as far as the runtime sees it *)
RecorderStarts(phase) ==
    /\ recorder.phase = "starting"
    /\ phase = "stuck" => recorder.clock = "stepped"
    /\ recorder' = IF phase = "recording"
                   THEN [recorder EXCEPT !.phase = phase] ELSE NoSession(phase)
    /\ UNCHANGED <<lifecycle, caller, startTask, stopTask, server, events, connection>>

RecorderStopsItself ==
    /\ recorder.phase = "recording"
    /\ recorder' = [recorder EXCEPT !.phase = "stopping"]
    /\ UNCHANGED <<lifecycle, caller, startTask, stopTask, server, events, connection>>

RecorderStopped(phase) ==
    /\ recorder.phase = "stopping"
    /\ phase = "stuck" => recorder.clock = "stepped"
    /\ recorder' = NoSession(phase)
    /\ stopTask' = [g \in Generation |->
          IF stopTask[g] = "finalizing" THEN "done" ELSE stopTask[g]]
    /\ UNCHANGED <<lifecycle, caller, startTask, server, events, connection>>

(* The wall clock (external) is set back during a session. *)
ClockStepsBack ==
    /\ recorder.phase \in {"starting", "recording", "stopping"}
    /\ recorder' = [recorder EXCEPT !.clock = "stepped"]
    /\ UNCHANGED <<lifecycle, caller, startTask, stopTask, server, events, connection>>

--------------------------------------------------------------------------------
(* Connections *)

IsServing(k) == server[connection[k].gen] = "ready"

Goes(k, state) == connection' = [connection EXCEPT ![k].state = state]

(* newConnectionHandler: a task brings the connection to accept(). *)
Connect(k, g) ==
    /\ connection[k].state = "none"
    /\ server[g] \in {"starting", "ready"}
    /\ connection' = [connection EXCEPT ![k] = [state |-> "offered", gen |-> g, op |-> "none"]]
    /\ UNCHANGED <<lifecycle, caller, startTask, stopTask, server, events, recorder>>

Accept(k) ==
    /\ connection[k].state = "offered"
    /\ Goes(k, IF IsServing(k) THEN "open" ELSE "closed")
    /\ UNCHANGED <<lifecycle, caller, startTask, stopTask, server, events, recorder>>

(* A whole request has arrived and the server still serves, or not. *)
Receive(k, op) ==
    /\ connection[k].state = "open"
    /\ connection' = [connection EXCEPT
          ![k].state = IF IsServing(k) THEN "received" ELSE "closed", ![k].op = op]
    /\ UNCHANGED <<lifecycle, caller, startTask, stopTask, server, events, recorder>>

(* The client goes away, or what it sent is malformed. *)
ConnectionEnds(k) ==
    /\ connection[k].state = "open"
    /\ Goes(k, "closed")
    /\ UNCHANGED <<lifecycle, caller, startTask, stopTask, server, events, recorder>>

(* router.response: the route's handler calls the recording controller;    *)
(* nothing checks the server any more on the way there.                    *)
Handle(k) ==
    /\ connection[k].state = "received"
    /\ \/ /\ connection[k].op = "start" /\ recorder.phase = "idle"
          /\ recorder' = [phase |-> "starting", by |-> k, clock |-> "steady"]
          /\ Goes(k, "handling")
       \/ /\ connection[k].op = "stop" /\ recorder.phase = "recording"
          /\ recorder' = [recorder EXCEPT !.phase = "stopping"]
          /\ Goes(k, "handling")
       \/ /\ connection[k].op = "start" => recorder.phase # "idle"
          /\ connection[k].op = "stop" => recorder.phase # "recording" \/ recorder.clock = "stepped"
          /\ Goes(k, "refused")
          /\ UNCHANGED recorder
    /\ UNCHANGED <<lifecycle, caller, startTask, stopTask, server, events>>

(* The handler returns; the answer is sent if the server still serves. *)
Respond(k) ==
    /\ \/ connection[k].state = "refused"
       \/ /\ connection[k].state = "handling"
          /\ connection[k].op = "start" => recorder.phase # "starting"
          /\ connection[k].op = "stop" => recorder.phase # "stopping"
    /\ Goes(k, IF IsServing(k) THEN "answered" ELSE "closed")
    /\ UNCHANGED <<lifecycle, caller, startTask, stopTask, server, events, recorder>>

--------------------------------------------------------------------------------
TaskStep(g) ==
    \/ StartTaskStartsServer(g)
    \/ StartTaskFails(g)
    \/ \E state \in {"ready", "failed"} : UpdateListenerState(g, state)
    \/ StopTaskAwaitsStart(g)
    \/ StopTaskStopsServer(g)
    \/ StopTaskReadsStatus(g)
    \/ StopTaskStopsRecording(g)

CallStep(c) == StartAfterStop(c) \/ FinishStart(c) \/ FinishStop(c)

ConnectionStep(k) ==
    \/ Accept(k)
    \/ \E op \in {"start", "stop"} : Receive(k, op)
    \/ ConnectionEnds(k)
    \/ Handle(k)
    \/ Respond(k)

Next ==
    \/ \E c \in Caller : Start(c) \/ Stop(c) \/ CallStep(c)
    \/ \E g \in Generation : TaskStep(g)
    \/ \E g \in Generation, state \in {"ready", "failed"} : ListenerReports(g, state)
    \/ \E phase \in {"recording", "idle", "stuck"} : RecorderStarts(phase)
    \/ RecorderStopsItself
    \/ \E phase \in {"idle", "stuck"} : RecorderStopped(phase)
    \/ ClockStepsBack
    \/ \E k \in Connection, g \in Generation : Connect(k, g)
    \/ \E k \in Connection : ConnectionStep(k)

Spec == Init /\ [][Next]_vars

(* The executor runs what is ready; a listener that was started reports    *)
(* that it is ready or has failed; a stop of the recording ends            *)
(* (RecordingController's StopSettles).  Nothing is assumed of callers and *)
(* clients.                                                                *)
FairSpec ==
    /\ Spec
    /\ \A g \in Generation :
          /\ WF_vars(TaskStep(g))
          /\ WF_vars(server[g] = "starting" /\ \E state \in {"ready", "failed"} :
                        ListenerReports(g, state))
    /\ \A c \in Caller : WF_vars(CallStep(c))
    /\ WF_vars(\E phase \in {"idle", "stuck"} : RecorderStopped(phase))

--------------------------------------------------------------------------------
(* Every variable has its declared shape. *)
TypeOK ==
    /\ lifecycle \in [state : {"stopped", "starting", "running", "stopping"},
                      gen : 0..MaxGenerations]
    /\ caller \in [Caller -> [op : {"none", "start", "stop"},
                              waits : {"none", "startTask", "stopTask", "settle"},
                              gen : 0..MaxGenerations]]
    /\ startTask \in [Generation -> {"none", "preparing", "serving", "ok", "failed"}]
    /\ stopTask \in [Generation -> {"none", "awaitStart", "stopServer", "status",
                                    "stopRecording", "finalizing", "done"}]
    /\ server \in [Generation -> {"idle", "starting", "ready", "stopped"}]
    /\ events \in [Generation -> SUBSET {"ready", "failed"}]
    /\ connection \in [Connection ->
          [state : {"none", "offered", "open", "received", "handling", "refused",
                    "answered", "closed"},
           gen : 0..MaxGenerations,
           op : {"none", "start", "stop"}]]
    /\ recorder \in [phase : {"idle", "starting", "recording", "stopping", "stuck"},
                     by : Connection \cup {None}, clock : {"steady", "stepped"}]

(* Only the current generation has a server that is alive, and a stopped   *)
(* runtime has none: no interleaving of starts and stops leaks a listener  *)
(* or makes two compete for the port.  A running lifecycle is one whose    *)
(* start succeeded and whose server nobody has begun to shut down, though  *)
(* starts and stops of this and of older generations are still resuming.   *)
ServerBelongsToLifecycle ==
    /\ \A g \in Generation :
          server[g] \in {"starting", "ready"} => lifecycle.gen = g /\ lifecycle.state # "stopped"
    /\ lifecycle.state = "running" =>
          startTask[lifecycle.gen] = "ok" /\ stopTask[lifecycle.gen] = "none"

(* stop() finalizes an active recording: a recording whose start was       *)
(* answered to its client does not run on in a stopped runtime, unless the *)
(* clock was stepped back during that recording: the controller may then   *)
(* have refused the stop (RecordingController.swift 161-162), and shutDown *)
(* drops the refusal (APIOSDebugRuntime.swift 261).  (A recording whose    *)
(* start was still on its way to the controller, or waited for permission, *)
(* may run on, too.)                                                       *)
AnsweredRecordingEnds ==
    lifecycle.state = "stopped" /\ recorder.phase = "recording" /\ recorder.clock = "steady" =>
        connection[recorder.by].state # "answered"

(* Every start() and every stop() returns, however they overlap. *)
CallsReturn == \A c \in Caller : caller[c].op # "none" ~> caller[c].op = "none"
================================================================================
