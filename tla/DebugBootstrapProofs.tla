-------------------------- MODULE DebugBootstrapProofs -------------------------
(***************************************************************************)
(* The lifecycle of the runtime and of the bootstrap, for any number of    *)
(* callers, connections and generations.                                   *)
(***************************************************************************)
EXTENDS DebugBootstrap, TLAPS

Down == {"idle", "stopped"}
Settled == {"ok", "failed"}

(* The server of a generation is where its start and stop tasks brought    *)
(* it, and only a live listener has something to report.                   *)
ServerFollowsTasks(g) ==
    /\ startTask[g] \in {"none", "preparing"} => server[g] = "idle"
    /\ startTask[g] = "serving" => server[g] = "starting"
    /\ startTask[g] = "ok" => server[g] \in {"ready", "stopped"}
    /\ startTask[g] = "failed" => server[g] \in Down
    /\ stopTask[g] \notin {"none", "awaitStart"} => startTask[g] \in Settled
    /\ stopTask[g] = "stopServer" => startTask[g] = "ok"
    /\ stopTask[g] \in {"status", "stopRecording", "finalizing", "done"} => server[g] \in Down
    /\ server[g] \in Down => events[g] = {}

(* A generation that the lifecycle has left behind has ended for good. *)
Over(g) ==
    /\ startTask[g] \in Settled
    /\ server[g] \in Down
    /\ stopTask[g] \in {"none", "done"}

(* The tasks of every generation, as the lifecycle implies them. *)
Generations ==
    /\ lifecycle.gen = 0 => lifecycle.state = "stopped"
    /\ \A g \in Generation :
          /\ ServerFollowsTasks(g)
          /\ g > lifecycle.gen => startTask[g] = "none" /\ stopTask[g] = "none"
          /\ g < lifecycle.gen => Over(g)
          /\ g = lifecycle.gen =>
                /\ startTask[g] # "none"
                /\ lifecycle.state = "stopped" => Over(g)
                /\ lifecycle.state = "running" => startTask[g] = "ok"
                /\ lifecycle.state \in {"starting", "running"} => stopTask[g] = "none"
                /\ lifecycle.state = "stopping" => stopTask[g] # "none"

(* A suspended call waits for a task that exists. *)
Calls ==
    \A c \in Caller :
        /\ caller[c].op = "none" <=> caller[c].waits = "none"
        /\ caller[c].op # "none" => caller[c].gen \in 1..lifecycle.gen
        /\ caller[c].waits \in {"stopTask", "settle"} => stopTask[caller[c].gen] # "none"
        /\ mode = "direct" /\ caller[c].op = "start" => caller[c].waits # "settle"
        /\ mode = "direct" /\ caller[c].op = "stop" => caller[c].waits = "stopTask"

RecorderState == [phase : {"idle", "starting", "recording", "stopping", "stuck"},
                  by : Connection \cup {None}, clock : {"steady", "stepped"}]

InSession == recorder.phase \in {"starting", "recording", "stopping"}

(* A recording whose start was answered belongs to the generation that     *)
(* answered it, and the stop task of that generation still has to see it,  *)
(* unless the clock was stepped back since.                                *)
Recorder ==
    /\ InSession =>
          /\ recorder.by \in Connection
          /\ connection[recorder.by].op = "start"
          /\ connection[recorder.by].state \in {"handling", "answered", "closed"}
    /\ recorder.phase = "starting" => connection[recorder.by].state = "handling"
    /\ \A k \in Connection : connection[k].state # "none" => connection[k].gen \in Generation
    /\ /\ recorder.phase = "recording" /\ recorder.clock = "steady"
       /\ connection[recorder.by].state = "answered"
       =>
          /\ lifecycle.gen = connection[recorder.by].gen
          /\ lifecycle.state # "stopped"
          /\ startTask[lifecycle.gen] = "ok"
          /\ stopTask[lifecycle.gen] \in {"none", "awaitStart", "stopServer", "status", "stopRecording"}
    /\ \A g \in Generation : stopTask[g] = "finalizing" => recorder.phase = "stopping"

Stopping(d, g) == caller[d].op = "stop" /\ caller[d].gen = g

(* The bootstrap stops an instance, or is going to, only on behalf of a    *)
(* stop() that has not returned.                                           *)
StopHasCaller ==
    /\ lifecycle.state = "starting" /\ lifecycle.gen \in stopRequested =>
          \E d \in Caller : Stopping(d, lifecycle.gen) /\ caller[d].waits = "startTask"
    /\ lifecycle.state = "stopping" => \E d \in Caller : Stopping(d, lifecycle.gen)

(* So a start() that no stop() overlapped finds the instance it waits for  *)
(* starting or running, unless its start has failed.                       *)
StartKeepsInstance ==
    \A c \in Caller : caller[c].op = "start" /\ c \notin overlapped =>
        /\ \A d \in Caller : caller[d].op # "stop"
        /\ caller[c].waits = "startTask"
        /\ startTask[caller[c].gen] # "failed" =>
              lifecycle.gen = caller[c].gen /\ lifecycle.state \in {"starting", "running"}

Bootstrap ==
    mode = "bootstrap" =>
        /\ \A g \in Generation : stopTask[g] # "none" => startTask[g] = "ok"
        /\ \A g \in stopRequested : g <= lifecycle.gen
        /\ StopHasCaller
        /\ StartKeepsInstance

IntegrationInvariant ==
    /\ TypeOK
    /\ mode \in {"direct", "bootstrap"} /\ stopRequested \subseteq Generation
    /\ Generations
    /\ Calls
    /\ Recorder
    /\ Bootstrap

--------------------------------------------------------------------------------
USE RuntimeAssumption

Call ==
    [op : {"none", "start", "stop"}, waits : {"none", "startTask", "stopTask", "settle"},
     gen : 0..MaxGenerations]

Lifecycle == [state : {"stopped", "starting", "running", "stopping"}, gen : 0..MaxGenerations]

StartTask == {"none", "preparing", "serving", "ok", "failed"}
StopTask == {"none", "awaitStart", "stopServer", "status", "stopRecording", "finalizing", "done"}

LEMMA TypeSplit ==
  TypeOK => /\ caller \in [Caller -> Call] /\ lifecycle \in Lifecycle
            /\ startTask \in [Generation -> StartTask] /\ stopTask \in [Generation -> StopTask]
  BY DEF TypeOK, Call, Lifecycle, StartTask, StopTask

(* What a call does to its own record; it touches no other. *)
LEMMA WaitsChanges ==
  ASSUME caller \in [Caller -> Call], NEW c \in Caller, NEW op \in {"none", "start", "stop"},
         NEW task \in {"none", "startTask", "stopTask", "settle"}, NEW g \in 0..MaxGenerations,
         Waits(c, op, task, g)
  PROVE  /\ caller' \in [Caller -> Call]
         /\ caller'[c].op = op /\ caller'[c].waits = task /\ caller'[c].gen = g
         /\ \A d \in Caller \ {c} : caller'[d] = caller[d]
  BY DEF Waits, Call

LEMMA ReturnsChanges ==
  ASSUME caller \in [Caller -> Call], NEW c \in Caller, Returns(c)
  PROVE  /\ caller' \in [Caller -> Call]
         /\ caller'[c].op = "none" /\ caller'[c].waits = "none"
         /\ \A d \in Caller \ {c} : caller'[d] = caller[d]
  BY DEF Returns, NoCall, Call

--------------------------------------------------------------------------------
(* The moves of the lifecycle: whatever call makes them, each one finds    *)
(* the tasks of its generation in the state that allows it.                *)
BeginsStart ==
    /\ \/ lifecycle.state = "stopped"
       \/ /\ lifecycle.gen \in Generation
          /\ lifecycle.state = "stopping" /\ stopTask[lifecycle.gen] = "done"
    /\ lifecycle.gen < MaxGenerations
    /\ lifecycle' = [state |-> "starting", gen |-> lifecycle.gen + 1]
    /\ startTask' = [startTask EXCEPT ![lifecycle.gen + 1] = "preparing"]
    /\ UNCHANGED stopTask

SettlesStart ==
    /\ lifecycle.state = "starting"
    /\ \/ startTask[lifecycle.gen] = "ok" /\ lifecycle' = [lifecycle EXCEPT !.state = "running"]
       \/ startTask[lifecycle.gen] = "failed" /\ lifecycle' = [lifecycle EXCEPT !.state = "stopped"]
    /\ UNCHANGED <<startTask, stopTask>>

BeginsStop ==
    /\ lifecycle' = [lifecycle EXCEPT !.state = "stopping"]
    /\ \/ /\ lifecycle.state = "starting"
          /\ stopTask' = [stopTask EXCEPT ![lifecycle.gen] = "awaitStart"]
       \/ /\ lifecycle.state \in {"starting", "running"}
          /\ startTask[lifecycle.gen] = "ok"
          /\ stopTask' = [stopTask EXCEPT ![lifecycle.gen] = "stopServer"]
    /\ UNCHANGED startTask

EndsStop ==
    /\ lifecycle.state = "stopping"
    /\ stopTask[lifecycle.gen] = "done"
    /\ lifecycle' = [lifecycle EXCEPT !.state = "stopped"]
    /\ UNCHANGED <<startTask, stopTask>>

LifecycleMove ==
    \/ UNCHANGED <<lifecycle, startTask, stopTask>>
    \/ BeginsStart
    \/ SettlesStart
    \/ BeginsStop
    \/ EndsStop

(* A move leaves every generation as the lifecycle implies it, and does    *)
(* not leave an answered recording behind.                                 *)
LEMMA MoveIsSound ==
  ASSUME IntegrationInvariant, LifecycleMove, UNCHANGED <<serverVars, mode>>
  PROVE  /\ lifecycle' \in Lifecycle
         /\ startTask' \in [Generation -> StartTask] /\ stopTask' \in [Generation -> StopTask]
         /\ Generations' /\ Recorder'
         /\ lifecycle.gen <= lifecycle'.gen
         /\ \A g \in Generation : stopTask[g] # "none" => stopTask'[g] # "none"
  <1> USE DEF IntegrationInvariant
  <1>t. /\ lifecycle \in Lifecycle
        /\ startTask \in [Generation -> StartTask] /\ stopTask \in [Generation -> StopTask]
    BY TypeSplit
  <1>s. UNCHANGED <<server, events, connection, recorder>>
    BY DEF serverVars
  <1>1. CASE UNCHANGED <<lifecycle, startTask, stopTask>>
    BY <1>1, <1>s, <1>t DEF Generations, Recorder, InSession, ServerFollowsTasks, Over, Lifecycle
  <1>2. CASE BeginsStart
    <2>1. /\ lifecycle'.state = "starting" /\ lifecycle'.gen = lifecycle.gen + 1
          /\ lifecycle' \in Lifecycle /\ lifecycle'.gen \in Generation /\ lifecycle.gen \in Nat
          /\ lifecycle.gen \in Generation => Over(lifecycle.gen)
          /\ stopTask' = stopTask
      BY <1>2, <1>t DEF BeginsStart, Lifecycle, Generation, Generations, ServerFollowsTasks, Over
    <2>2. /\ startTask' \in [Generation -> StartTask]
          /\ startTask'[lifecycle'.gen] = "preparing"
          /\ \A g \in Generation : g # lifecycle'.gen => startTask'[g] = startTask[g]
      BY <1>2, <1>t, <2>1 DEF BeginsStart, StartTask
    <2>3. Generations'
      <3>1. ASSUME NEW g \in Generation
            PROVE  ServerFollowsTasks(g)'
        BY <1>s, <2>1, <2>2 DEF Generations, ServerFollowsTasks, Generation
      <3>2. ASSUME NEW g \in Generation, g < lifecycle'.gen
            PROVE  Over(g)'
        BY <1>s, <2>1, <2>2, <3>2 DEF Generations, Over, Generation
      <3> QED
        BY <2>1, <2>2, <3>1, <3>2 DEF Generations, Generation
    <2>4. Recorder'
      <3>1. ~(recorder.phase = "recording" /\ recorder.clock = "steady" /\ connection[recorder.by].state = "answered")
        BY <1>2 DEF BeginsStart, Recorder, InSession
      <3> QED
        BY <1>s, <2>1, <3>1 DEF Recorder, InSession
    <2> QED
      BY <1>t, <2>1, <2>2, <2>3, <2>4
  <1>3. CASE SettlesStart
    <2>1. /\ UNCHANGED <<startTask, stopTask>> /\ lifecycle' \in Lifecycle
          /\ lifecycle'.gen = lifecycle.gen /\ lifecycle.gen \in Generation
          /\ \/ lifecycle'.state = "running" /\ startTask[lifecycle.gen] = "ok"
             \/ lifecycle'.state = "stopped" /\ startTask[lifecycle.gen] = "failed"
      BY <1>3, <1>t DEF SettlesStart, Lifecycle, Generations, Generation
    <2>2. Generations'
      BY <1>3, <1>s, <2>1 DEF SettlesStart, Generations, ServerFollowsTasks, Over, Settled
    <2>3. Recorder'
      BY <1>s, <2>1 DEF Recorder, InSession
    <2> QED
      BY <1>t, <2>1, <2>2, <2>3 DEF Lifecycle
  <1>4. CASE BeginsStop
    <2>1. /\ UNCHANGED startTask /\ lifecycle' \in Lifecycle
          /\ lifecycle'.gen = lifecycle.gen /\ lifecycle'.state = "stopping"
          /\ lifecycle.gen \in Generation /\ lifecycle.state \in {"starting", "running"}
      BY <1>4, <1>t DEF BeginsStop, Lifecycle, Generations, Generation
    <2>2. /\ stopTask' \in [Generation -> StopTask]
          /\ stopTask'[lifecycle.gen] \in {"awaitStart", "stopServer"}
          /\ stopTask'[lifecycle.gen] = "stopServer" => startTask[lifecycle.gen] = "ok"
          /\ \A g \in Generation : g # lifecycle.gen => stopTask'[g] = stopTask[g]
      BY <1>4, <1>t, <2>1 DEF BeginsStop, StopTask
    <2>3. Generations'
      <3>1. ASSUME NEW g \in Generation
            PROVE  ServerFollowsTasks(g)'
        BY <1>s, <2>1, <2>2 DEF Generations, ServerFollowsTasks, Settled
      <3>2. ASSUME NEW g \in Generation, g < lifecycle'.gen
            PROVE  Over(g)'
        BY <1>s, <2>1, <2>2, <3>2 DEF Generations, Over, Generation
      <3> QED
        BY <2>1, <2>2, <3>1, <3>2 DEF Generations, Generation
    <2>4. Recorder'
      BY <1>s, <2>1, <2>2 DEF Recorder, InSession
    <2> QED
      BY <1>t, <2>1, <2>2, <2>3, <2>4 DEF Lifecycle
  <1>5. CASE EndsStop
    <2>1. /\ UNCHANGED <<startTask, stopTask>> /\ lifecycle' \in Lifecycle
          /\ lifecycle'.gen = lifecycle.gen /\ lifecycle'.state = "stopped"
          /\ lifecycle.gen \in Generation /\ stopTask[lifecycle.gen] = "done"
      BY <1>5, <1>t DEF EndsStop, Lifecycle, Generations, Generation
    <2>2. Generations'
      BY <1>5, <1>s, <2>1 DEF Generations, ServerFollowsTasks, Over, Settled
    <2>3. Recorder'
      BY <1>s, <2>1 DEF Recorder, InSession
    <2> QED
      BY <1>t, <2>1, <2>2, <2>3 DEF Lifecycle
  <1> QED
    BY <1>1, <1>2, <1>3, <1>4, <1>5 DEF LifecycleMove

--------------------------------------------------------------------------------
(* The calls.  A call that suspends waits for the tasks of the generation  *)
(* the lifecycle is in, and a stop() that returns leaves no server behind. *)
Suspends(c, op, task) ==
    /\ Waits(c, op, task, lifecycle'.gen)
    /\ caller[c].op \in {"none", op}
    /\ lifecycle'.state = IF task = "startTask" THEN "starting" ELSE "stopping"
    /\ mode = "direct" => task # "settle" /\ (op = "stop" => task = "stopTask")

CallEffect(c) ==
    /\ LifecycleMove
    /\ \/ Returns(c) /\ (caller[c].op = "stop" => server[caller[c].gen] \in Down)
       \/ \E op \in {"start", "stop"}, task \in {"startTask", "stopTask", "settle"} :
             Suspends(c, op, task)

(* The lifecycle a call looks at: the current one, or what its own         *)
(* finishStop or settleStart has just made of it.                          *)
Seen(lc) ==
    \/ lc = lifecycle
    \/ /\ lifecycle.state = "stopping" /\ stopTask[lifecycle.gen] = "done"
       /\ lc = [lifecycle EXCEPT !.state = "stopped"]
    \/ /\ lifecycle.state = "starting" /\ startTask[lifecycle.gen] = "ok"
       /\ lc = [lifecycle EXCEPT !.state = "running"]

LEMMA SeenAfterStop ==
  ASSUME IntegrationInvariant, NEW g, stopTask[g] = "done"
  PROVE  Seen(AfterStop(g))
  BY DEF Seen, AfterStop

LEMMA SeenMoves ==
  ASSUME IntegrationInvariant, NEW lc, Seen(lc), lifecycle' = lc, UNCHANGED <<startTask, stopTask>>
  PROVE  LifecycleMove
  BY DEF Seen, LifecycleMove, EndsStop, SettlesStart

LEMMA SeenHasType ==
  ASSUME IntegrationInvariant, NEW lc, Seen(lc)
  PROVE  lc \in Lifecycle /\ lc.gen = lifecycle.gen /\ (lc.state # "stopped" => lc.gen \in Generation)
  <1>1. lifecycle \in Lifecycle
    BY TypeSplit DEF IntegrationInvariant
  <1>2. lifecycle.state # "stopped" => lifecycle.gen \in Generation
    BY <1>1 DEF IntegrationInvariant, Generations, Generation, Lifecycle
  <1> QED
    BY <1>1, <1>2 DEF Seen, Lifecycle

(* A call that finds the runtime stopped finds no server of its own. *)
LEMMA StoppedHasNoServer ==
  ASSUME IntegrationInvariant, NEW lc, Seen(lc), lc.state = "stopped", NEW c \in Caller,
         caller[c].op # "none"
  PROVE  server[caller[c].gen] \in Down
  <1>1. lifecycle \in Lifecycle /\ caller[c].gen \in Generation /\ caller[c].gen <= lifecycle.gen
    BY TypeSplit DEF IntegrationInvariant, Calls, Lifecycle, Generation
  <1>2. CASE caller[c].gen < lifecycle.gen
    BY <1>1, <1>2 DEF IntegrationInvariant, Generations, Over
  <1>3. CASE caller[c].gen = lifecycle.gen
    <2>1. lifecycle.state = "stopped" \/ stopTask[lifecycle.gen] = "done"
      BY <1>1 DEF Seen, Lifecycle
    <2> QED
      BY <1>1, <1>3, <2>1 DEF IntegrationInvariant, Generations, Over, ServerFollowsTasks
  <1> QED
    BY <1>1, <1>2, <1>3 DEF Lifecycle, Generation

LEMMA StartTurnEffect ==
  ASSUME IntegrationInvariant, NEW c \in Caller, NEW lc, Seen(lc), lc.state = "running" => lc = lifecycle,
         caller[c].op \in {"none", "start"}, StartTurn(c, lc), UNCHANGED stopTask
  PROVE  CallEffect(c)
  <1>t. /\ lc \in Lifecycle /\ lc.gen = lifecycle.gen
        /\ lc.state # "stopped" => lc.gen \in Generation
        /\ lifecycle \in Lifecycle /\ (lifecycle.state # "stopped" => lifecycle.gen \in Generation)
    BY SeenHasType DEF Seen
  <1>1. CASE /\ lc.state = "stopped"
             /\ lc.gen < MaxGenerations
             /\ lifecycle' = [state |-> "starting", gen |-> lc.gen + 1]
             /\ startTask' = [startTask EXCEPT ![lc.gen + 1] = "preparing"]
             /\ Waits(c, "start", "startTask", lc.gen + 1)
    <2>1. BeginsStart
      BY <1>1, <1>t DEF Seen, BeginsStart, Lifecycle
    <2>2. Suspends(c, "start", "startTask")
      BY <1>1 DEF Suspends
    <2> QED
      BY <2>1, <2>2 DEF CallEffect, LifecycleMove
  <1>2. CASE /\ lc.state = "starting"
             /\ lifecycle' = lc
             /\ Waits(c, "start", "startTask", lc.gen)
             /\ UNCHANGED startTask
    <2>1. Suspends(c, "start", "startTask")
      BY <1>2 DEF Suspends
    <2> QED
      BY <1>2, <2>1, SeenMoves DEF CallEffect
  <1>3. CASE /\ lc.state = "running"
             /\ lifecycle' = lc
             /\ Returns(c)
             /\ UNCHANGED startTask
    BY <1>3, SeenMoves DEF CallEffect
  <1>4. CASE /\ lc.state = "stopping"
             /\ lifecycle' = lc
             /\ Waits(c, "start", "stopTask", lc.gen)
             /\ UNCHANGED startTask
    <2>1. Suspends(c, "start", "stopTask")
      BY <1>4 DEF Suspends
    <2> QED
      BY <1>4, <2>1, SeenMoves DEF CallEffect
  <1> QED
    BY <1>1, <1>2, <1>3, <1>4 DEF StartTurn

LEMMA StopTurnEffect ==
  ASSUME IntegrationInvariant, mode = "bootstrap", NEW c \in Caller, NEW lc, Seen(lc),
         caller[c].op \in {"none", "stop"}, StopTurn(c, lc), UNCHANGED startTask
  PROVE  CallEffect(c)
  <1>t. lc.gen = lifecycle.gen
    BY SeenHasType
  <1>1. CASE lc.state = "stopped" /\ lifecycle' = lc /\ Returns(c) /\ UNCHANGED stopTask
    <2>1. caller[c].op = "stop" => server[caller[c].gen] \in Down
      BY <1>1, StoppedHasNoServer
    <2> QED
      BY <1>1, <2>1, SeenMoves DEF CallEffect
  <1>2. CASE /\ lc.state = "starting" /\ lifecycle' = lc
             /\ Waits(c, "stop", "startTask", lc.gen) /\ UNCHANGED stopTask
    <2>1. Suspends(c, "stop", "startTask")
      BY <1>2 DEF Suspends
    <2> QED
      BY <1>2, <2>1, SeenMoves DEF CallEffect
  <1>3. CASE /\ lc.state = "running"
             /\ lifecycle' = [lc EXCEPT !.state = "stopping"]
             /\ stopTask' = [stopTask EXCEPT ![lc.gen] = "stopServer"]
             /\ Waits(c, "stop", "stopTask", lc.gen)
    <2>1. /\ lifecycle \in Lifecycle /\ lc \in Lifecycle
          /\ lifecycle.state \in {"starting", "running"} /\ startTask[lifecycle.gen] = "ok"
          /\ lc.gen \in Generation
      BY <1>3, SeenHasType DEF Seen, IntegrationInvariant, Generations, Lifecycle
    <2>2. /\ lifecycle' = [lifecycle EXCEPT !.state = "stopping"]
          /\ lifecycle'.state = "stopping" /\ lifecycle'.gen = lc.gen
      BY <1>3, <1>t, <2>1 DEF Seen, Lifecycle
    <2>3. BeginsStop
      BY <1>3, <1>t, <2>1, <2>2 DEF BeginsStop
    <2>4. Suspends(c, "stop", "stopTask")
      BY <1>3, <2>2 DEF Suspends
    <2> QED
      BY <2>3, <2>4 DEF CallEffect, LifecycleMove
  <1>4. CASE /\ lc.state = "stopping" /\ lifecycle' = lc
             /\ Waits(c, "stop", "stopTask", lc.gen) /\ UNCHANGED stopTask
    <2>1. Suspends(c, "stop", "stopTask")
      BY <1>4 DEF Suspends
    <2> QED
      BY <1>4, <2>1, SeenMoves DEF CallEffect
  <1> QED
    BY <1>1, <1>2, <1>3, <1>4 DEF StopTurn

(* start() and stop() of the runtime *)
LEMMA DirectCallEffect ==
  ASSUME IntegrationInvariant, mode = "direct", NEW c \in Caller, Start(c) \/ Stop(c) \/ CallStep(c)
  PROVE  CallEffect(c) /\ UNCHANGED serverVars
  <1>t. lifecycle \in Lifecycle /\ Seen(lifecycle) /\ caller \in [Caller -> Call]
    BY TypeSplit DEF IntegrationInvariant, Seen
  <1>1. CASE Start(c)
    BY <1>1, <1>t, StartTurnEffect DEF Start
  <1>2. CASE Stop(c)
    <2>1. Waits(c, "stop", "stopTask", lifecycle.gen) /\ caller[c].op = "none" /\ UNCHANGED <<startTask, serverVars>>
      BY <1>2 DEF Stop
    <2>2. LifecycleMove /\ lifecycle'.state = "stopping" /\ lifecycle'.gen = lifecycle.gen
      <3>1. CASE /\ lifecycle.state = "starting"
                 /\ lifecycle' = [lifecycle EXCEPT !.state = "stopping"]
                 /\ stopTask' = [stopTask EXCEPT ![lifecycle.gen] = "awaitStart"]
        BY <1>t, <2>1, <3>1 DEF LifecycleMove, BeginsStop, Lifecycle
      <3>2. CASE /\ lifecycle.state = "running"
                 /\ lifecycle' = [lifecycle EXCEPT !.state = "stopping"]
                 /\ stopTask' = [stopTask EXCEPT ![lifecycle.gen] = "stopServer"]
        <4>1. startTask[lifecycle.gen] = "ok"
          BY <3>2, <1>t, SeenHasType DEF IntegrationInvariant, Generations
        <4> QED
          BY <1>t, <2>1, <3>2, <4>1 DEF LifecycleMove, BeginsStop, Lifecycle
      <3>3. CASE lifecycle.state = "stopping" /\ UNCHANGED <<lifecycle, stopTask>>
        BY <2>1, <3>3 DEF LifecycleMove
      <3> QED
        BY <1>2, <3>1, <3>2, <3>3 DEF Stop
    <2>3. Suspends(c, "stop", "stopTask")
      BY <2>1, <2>2 DEF Suspends
    <2> QED
      BY <2>1, <2>2, <2>3 DEF CallEffect
  <1>3. CASE StartAfterStop(c)
    <2> DEFINE lc == AfterStop(caller[c].gen)
    <2>1. /\ Seen(lc) /\ (lc.state = "running" => lc = lifecycle)
          /\ caller[c].op = "start" /\ UNCHANGED <<stopTask, serverVars>>
      BY <1>3, <1>t, SeenAfterStop DEF StartAfterStop, AfterStop, Lifecycle
    <2>2. CASE lc.state = "stopped" /\ lc.gen = MaxGenerations
      <3>1. lifecycle' = lc /\ Returns(c) /\ UNCHANGED startTask
        BY <1>3, <2>2 DEF StartAfterStop
      <3> QED
        BY <2>1, <3>1, SeenMoves DEF CallEffect
    <2>3. CASE ~(lc.state = "stopped" /\ lc.gen = MaxGenerations)
      <3>1. StartTurn(c, lc)
        BY <1>3, <2>3 DEF StartAfterStop
      <3> QED
        BY <2>1, <3>1, StartTurnEffect
    <2> QED
      BY <2>2, <2>3
  <1>4. CASE FinishStart(c)
    <2>1. /\ Returns(c) /\ UNCHANGED <<startTask, stopTask, serverVars>>
          /\ startTask[caller[c].gen] \in {"ok", "failed"} /\ caller[c].waits = "startTask"
      BY <1>4 DEF FinishStart
    <2>2. caller[c].op # "stop"
      BY <2>1 DEF IntegrationInvariant, Calls
    <2>3. LifecycleMove
      <3>1. CASE lifecycle = [state |-> "starting", gen |-> caller[c].gen]
        <4>1. lifecycle.state = "starting" /\ lifecycle.gen = caller[c].gen
          BY <3>1
        <4>2. lifecycle' = [lifecycle EXCEPT !.state =
                  IF startTask[caller[c].gen] = "ok" THEN "running" ELSE "stopped"]
          BY <1>4, <3>1 DEF FinishStart
        <4>3. CASE startTask[caller[c].gen] = "ok"
          BY <2>1, <4>1, <4>2, <4>3 DEF LifecycleMove, SettlesStart
        <4>4. CASE startTask[caller[c].gen] = "failed"
          BY <2>1, <4>1, <4>2, <4>4 DEF LifecycleMove, SettlesStart
        <4> QED
          BY <2>1, <4>3, <4>4
      <3>2. CASE lifecycle # [state |-> "starting", gen |-> caller[c].gen]
        BY <1>4, <2>1, <3>2 DEF FinishStart, LifecycleMove
      <3> QED
        BY <3>1, <3>2
    <2> QED
      BY <2>1, <2>2, <2>3 DEF CallEffect
  <1>5. CASE FinishStop(c)
    <2>1. /\ Returns(c) /\ UNCHANGED <<startTask, stopTask, serverVars>>
          /\ lifecycle' = AfterStop(caller[c].gen) /\ stopTask[caller[c].gen] = "done"
          /\ caller[c].op = "stop"
      BY <1>5 DEF FinishStop
    <2>2. caller[c].gen \in Generation
      BY <2>1, <1>t DEF IntegrationInvariant, Calls, Lifecycle, Generation
    <2>3. server[caller[c].gen] \in Down
      BY <2>1, <2>2 DEF IntegrationInvariant, Generations, ServerFollowsTasks
    <2> QED
      BY <2>1, <2>3, SeenAfterStop, SeenMoves DEF CallEffect
  <1> QED
    BY <1>1, <1>2, <1>3, <1>4, <1>5 DEF CallStep

(* The calls of the bootstrap *)
BootstrapCall(c) == BootstrapStart(c) \/ BootstrapStop(c) \/ BootstrapCallStep(c)

LEMMA ResumeEffect ==
  ASSUME IntegrationInvariant, mode = "bootstrap", NEW c \in Caller, NEW lc, Seen(lc),
         caller[c].op \in {"start", "stop"}, Resume(c, lc), UNCHANGED startTask
  PROVE  CallEffect(c)
  <1>1. CASE caller[c].op = "stop"
    <2>1. StopTurn(c, lc)
      BY <1>1 DEF Resume
    <2> QED
      BY <1>1, <2>1, StopTurnEffect
  <1>2. CASE caller[c].op # "stop"
    <2>1. lifecycle' = lc /\ Returns(c) /\ UNCHANGED stopTask
      BY <1>2 DEF Resume
    <2> QED
      BY <1>2, <2>1, SeenMoves DEF CallEffect
  <1> QED
    BY <1>1, <1>2

LEMMA BootstrapCallEffect ==
  ASSUME IntegrationInvariant, mode = "bootstrap", NEW c \in Caller, BootstrapCall(c)
  PROVE  CallEffect(c) /\ UNCHANGED serverVars
  <1>t. /\ lifecycle \in Lifecycle /\ Seen(lifecycle) /\ caller \in [Caller -> Call]
        /\ caller[c].op # "none" => caller[c].op \in {"start", "stop"} /\ caller[c].gen \in Generation
    BY TypeSplit DEF IntegrationInvariant, Seen, Calls, Call, Lifecycle, Generation
  <1>1. CASE BootstrapStart(c)
    BY <1>1, <1>t, StartTurnEffect DEF BootstrapStart, Start
  <1>2. CASE BootstrapStop(c)
    BY <1>2, <1>t, StopTurnEffect DEF BootstrapStop
  <1>3. CASE BootstrapStartAfterStop(c)
    <2> DEFINE lc == AfterStop(caller[c].gen)
    <2>1. /\ Seen(lc) /\ (lc.state = "running" => lc = lifecycle)
          /\ caller[c].op = "start" /\ UNCHANGED <<stopTask, serverVars>>
      BY <1>3, <1>t, SeenAfterStop DEF BootstrapStartAfterStop, StartAfterStop, AfterStop, Lifecycle
    <2>2. CASE lc.state = "stopped" /\ lc.gen = MaxGenerations
      <3>1. lifecycle' = lc /\ Returns(c) /\ UNCHANGED startTask
        BY <1>3, <2>2 DEF BootstrapStartAfterStop, StartAfterStop
      <3> QED
        BY <2>1, <3>1, SeenMoves DEF CallEffect
    <2>3. CASE ~(lc.state = "stopped" /\ lc.gen = MaxGenerations)
      <3>1. StartTurn(c, lc)
        BY <1>3, <2>3 DEF BootstrapStartAfterStop, StartAfterStop
      <3> QED
        BY <2>1, <3>1, StartTurnEffect
    <2> QED
      BY <2>2, <2>3
  <1>4. CASE BootstrapFinishStart(c)
    <2> DEFINE g == caller[c].gen
    <2>1. /\ caller[c].waits = "startTask" /\ startTask[g] = "ok" /\ SettleStart(c, g)
          /\ UNCHANGED <<startTask, serverVars>>
      BY <1>4 DEF BootstrapFinishStart
    <2>2. caller[c].op \in {"start", "stop"} /\ g \in Generation
      BY <2>1, <1>t DEF IntegrationInvariant, Calls
    <2>3. CASE /\ lifecycle = [state |-> "starting", gen |-> g]
               /\ lifecycle' = [lifecycle EXCEPT !.state = "stopping"]
               /\ stopTask' = [stopTask EXCEPT ![g] = "stopServer"]
               /\ Waits(c, caller[c].op, "settle", g)
      <3>1. lifecycle.state = "starting" /\ lifecycle.gen = g /\ lifecycle'.state = "stopping" /\ lifecycle'.gen = g
        BY <2>3
      <3>2. BeginsStop
        BY <2>1, <2>3, <3>1 DEF BeginsStop
      <3>3. Suspends(c, caller[c].op, "settle")
        BY <2>3, <3>1 DEF Suspends
      <3> QED
        BY <2>1, <2>2, <3>2, <3>3 DEF CallEffect, LifecycleMove
    <2>4. CASE lifecycle = [state |-> "starting", gen |-> g] /\ Resume(c, [lifecycle EXCEPT !.state = "running"])
      <3>1. Seen([lifecycle EXCEPT !.state = "running"])
        BY <2>1, <2>4 DEF Seen
      <3> QED
        BY <2>1, <2>2, <2>4, <3>1, ResumeEffect
    <2>5. CASE /\ lifecycle.state = "stopping"
               /\ Waits(c, caller[c].op, "settle", lifecycle.gen)
               /\ UNCHANGED <<lifecycle, stopTask>>
      <3>1. Suspends(c, caller[c].op, "settle")
        BY <2>5 DEF Suspends
      <3> QED
        BY <2>1, <2>2, <2>5, <3>1 DEF CallEffect, LifecycleMove
    <2>6. CASE Resume(c, lifecycle)
      BY <2>1, <2>2, <2>6, <1>t, ResumeEffect
    <2> QED
      BY <2>1, <2>3, <2>4, <2>5, <2>6 DEF SettleStart
  <1>5. CASE BootstrapStartFailed(c)
    <2>1. /\ caller[c].waits = "startTask" /\ startTask[caller[c].gen] = "failed"
          /\ Returns(c) /\ UNCHANGED <<startTask, stopTask, serverVars>>
      BY <1>5 DEF BootstrapStartFailed
    <2>2. caller[c].gen \in Generation
      BY <2>1, <1>t DEF IntegrationInvariant, Calls
    <2>3. server[caller[c].gen] \in Down
      BY <2>1, <2>2 DEF IntegrationInvariant, Generations, ServerFollowsTasks
    <2>4. LifecycleMove
      <3>1. CASE lifecycle = [state |-> "starting", gen |-> caller[c].gen]
        <4>1. /\ lifecycle.state = "starting" /\ lifecycle.gen = caller[c].gen
              /\ lifecycle' = [lifecycle EXCEPT !.state = "stopped"]
          BY <1>5, <3>1 DEF BootstrapStartFailed
        <4> QED
          BY <2>1, <4>1 DEF LifecycleMove, SettlesStart
      <3>2. CASE lifecycle # [state |-> "starting", gen |-> caller[c].gen]
        BY <1>5, <2>1, <3>2 DEF BootstrapStartFailed, LifecycleMove
      <3> QED
        BY <3>1, <3>2
    <2> QED
      BY <2>1, <2>3, <2>4 DEF CallEffect
  <1>6. CASE BootstrapSettled(c)
    <2>1. caller[c].op \in {"start", "stop"}
      BY <1>6, <1>t DEF BootstrapSettled, IntegrationInvariant, Calls
    <2> QED
      BY <1>6, <2>1, SeenAfterStop, ResumeEffect DEF BootstrapSettled
  <1>7. CASE BootstrapFinishStop(c)
    <2>1. /\ Returns(c) /\ UNCHANGED <<startTask, stopTask, serverVars>>
          /\ lifecycle' = AfterStop(caller[c].gen) /\ stopTask[caller[c].gen] = "done"
          /\ caller[c].op = "stop"
      BY <1>7 DEF BootstrapFinishStop, FinishStop
    <2>2. server[caller[c].gen] \in Down
      BY <2>1, <1>t DEF IntegrationInvariant, Generations, ServerFollowsTasks
    <2> QED
      BY <2>1, <2>2, SeenAfterStop, SeenMoves DEF CallEffect
  <1> QED
    BY <1>1, <1>2, <1>3, <1>4, <1>5, <1>6, <1>7 DEF BootstrapCall, BootstrapCallStep

--------------------------------------------------------------------------------
(* A call keeps every part of the invariant but the bootstrap's own. *)
LEMMA CallPreserves ==
  ASSUME IntegrationInvariant, NEW c \in Caller, CallEffect(c), UNCHANGED <<serverVars, mode>>
  PROVE  TypeOK' /\ Generations' /\ Recorder' /\ Calls'
  <1>t. caller \in [Caller -> Call] /\ lifecycle \in Lifecycle
    BY TypeSplit DEF IntegrationInvariant
  <1>m. /\ lifecycle' \in Lifecycle
        /\ startTask' \in [Generation -> StartTask] /\ stopTask' \in [Generation -> StopTask]
        /\ Generations' /\ Recorder'
        /\ lifecycle.gen <= lifecycle'.gen
        /\ \A g \in Generation : stopTask[g] # "none" => stopTask'[g] # "none"
    BY MoveIsSound DEF CallEffect
  <1>g. lifecycle'.state # "stopped" =>
          /\ lifecycle'.gen \in Generation /\ lifecycle'.gen \in 0..MaxGenerations
          /\ lifecycle'.state = "stopping" => stopTask'[lifecycle'.gen] # "none"
    BY <1>m DEF Generations, Lifecycle, Generation
  <1>o. ASSUME NEW d \in Caller, caller'[d] = caller[d]
        PROVE  /\ caller'[d].op = "none" <=> caller'[d].waits = "none"
               /\ caller'[d].op # "none" => caller'[d].gen \in 1..lifecycle'.gen
               /\ caller'[d].waits \in {"stopTask", "settle"} => stopTask'[caller'[d].gen] # "none"
               /\ mode' = "direct" /\ caller'[d].op = "start" => caller'[d].waits # "settle"
               /\ mode' = "direct" /\ caller'[d].op = "stop" => caller'[d].waits = "stopTask"
    <2>1. /\ caller[d].op = "none" <=> caller[d].waits = "none"
          /\ caller[d].op # "none" => caller[d].gen \in 1..lifecycle.gen
          /\ caller[d].waits \in {"stopTask", "settle"} => stopTask[caller[d].gen] # "none"
      BY DEF IntegrationInvariant, Calls
    <2>2. caller[d].op # "none" => caller[d].gen \in 1..lifecycle'.gen /\ caller[d].gen \in Generation
      BY <2>1, <1>t, <1>m DEF Lifecycle, Generation
    <2> QED
      BY <1>o, <1>m, <2>1, <2>2 DEF IntegrationInvariant, Calls
  <1>u. ASSUME caller' \in [Caller -> Call]
        PROVE  TypeOK'
    BY <1>u, <1>m DEF IntegrationInvariant, TypeOK, serverVars, Call, Lifecycle, StartTask, StopTask
  <1>1. CASE Returns(c)
    <2>1. /\ caller' \in [Caller -> Call]
          /\ caller'[c].op = "none" /\ caller'[c].waits = "none"
          /\ \A d \in Caller \ {c} : caller'[d] = caller[d]
      BY <1>1, <1>t, ReturnsChanges
    <2>2. Calls'
      BY <2>1, <1>o DEF Calls
    <2> QED
      BY <1>m, <1>u, <2>1, <2>2
  <1>2. ASSUME NEW op \in {"start", "stop"}, NEW task \in {"startTask", "stopTask", "settle"},
               Suspends(c, op, task)
        PROVE  TypeOK' /\ Generations' /\ Recorder' /\ Calls'
    <2>0. lifecycle'.state \in {"starting", "stopping"} /\ (task # "startTask" => lifecycle'.state = "stopping")
      BY <1>2 DEF Suspends
    <2>1. /\ caller' \in [Caller -> Call]
          /\ caller'[c].op = op /\ caller'[c].waits = task /\ caller'[c].gen = lifecycle'.gen
          /\ \A d \in Caller \ {c} : caller'[d] = caller[d]
      BY <1>2, <1>t, <1>g, <2>0, WaitsChanges DEF Suspends
    <2>2. /\ caller'[c].gen \in 1..lifecycle'.gen
          /\ task # "startTask" => stopTask'[caller'[c].gen] # "none"
      BY <2>0, <2>1, <1>g DEF Generation
    <2>3. Calls'
      <3>1. /\ caller'[c].op = "none" <=> caller'[c].waits = "none"
            /\ caller'[c].op # "none" => caller'[c].gen \in 1..lifecycle'.gen
            /\ caller'[c].waits \in {"stopTask", "settle"} => stopTask'[caller'[c].gen] # "none"
            /\ mode' = "direct" /\ caller'[c].op = "start" => caller'[c].waits # "settle"
            /\ mode' = "direct" /\ caller'[c].op = "stop" => caller'[c].waits = "stopTask"
        BY <1>2, <2>1, <2>2 DEF Suspends
      <3> QED
        BY <2>1, <3>1, <1>o DEF Calls
    <2> QED
      BY <1>m, <1>u, <2>1, <2>3
  <1> QED
    BY <1>1, <1>2 DEF CallEffect

(* What a start() that stays clear of stop() knows. *)
LEMMA OverlapFact ==
  ASSUME Overlap, mode = "bootstrap", NEW c \in Caller, caller'[c].op = "start", c \notin overlapped'
  PROVE  /\ \A d \in Caller : caller[d].op # "stop" /\ caller'[d].op # "stop"
         /\ caller[c].op = "start" => c \notin overlapped
  BY DEF Overlap

(* Where a call goes, in terms of the lifecycle it leaves. *)
CallerMoves(c) ==
    /\ \A d \in Caller \ {c} : caller'[d] = caller[d]
    /\ caller'[c].op # "none" =>
          /\ caller'[c].gen = lifecycle'.gen
          /\ caller[c].op \in {"none", caller'[c].op}
          /\ \/ caller'[c].waits = "startTask" /\ lifecycle'.state = "starting"
             \/ caller'[c].waits # "startTask" /\ lifecycle'.state = "stopping"

(* The stop tasks and requests of the bootstrap that a call changes. *)
StopsChange(c) ==
    /\ \/ stopTask' = stopTask
       \/ /\ lifecycle.gen \in Generation /\ startTask[lifecycle.gen] = "ok"
          /\ stopTask' = [stopTask EXCEPT ![lifecycle.gen] = "stopServer"]
    /\ \/ stopRequested' = stopRequested
       \/ /\ lifecycle.gen \in Generation /\ caller'[c].op = "stop"
          /\ stopRequested' = stopRequested \cup {lifecycle.gen}

LEMMA StopTurnStops ==
  ASSUME IntegrationInvariant, NEW c \in Caller, NEW lc, Seen(lc), StopTurn(c, lc)
  PROVE  StopsChange(c) /\ (caller'[c].op = "stop" \/ lifecycle'.state = "stopped")
  <1>t. /\ lc.gen = lifecycle.gen /\ lc \in Lifecycle /\ (lc.state # "stopped" => lc.gen \in Generation)
        /\ caller \in [Caller -> Call] /\ lifecycle \in Lifecycle
    BY SeenHasType, TypeSplit DEF IntegrationInvariant
  <1>1. CASE lc.state = "stopped" /\ lifecycle' = lc /\ Returns(c) /\ UNCHANGED <<stopTask, stopRequested>>
    BY <1>1 DEF StopsChange
  <1>2. CASE /\ lc.state = "starting" /\ stopRequested' = stopRequested \cup {lc.gen}
             /\ Waits(c, "stop", "startTask", lc.gen) /\ UNCHANGED stopTask
    <2>1. caller'[c].op = "stop"
      BY <1>2, <1>t, WaitsChanges DEF Lifecycle
    <2>2. lifecycle.gen \in Generation /\ stopRequested' = stopRequested \cup {lifecycle.gen}
      BY <1>2, <1>t
    <2> QED
      BY <1>2, <2>1, <2>2 DEF StopsChange
  <1>3. CASE /\ lc.state = "running" /\ stopTask' = [stopTask EXCEPT ![lc.gen] = "stopServer"]
             /\ Waits(c, "stop", "stopTask", lc.gen) /\ UNCHANGED stopRequested
    <2>1. caller'[c].op = "stop"
      BY <1>3, <1>t, WaitsChanges DEF Lifecycle
    <2>2. startTask[lifecycle.gen] = "ok"
      BY <1>3, <1>t DEF Seen, IntegrationInvariant, Generations, Lifecycle
    <2> QED
      BY <1>3, <2>1, <2>2, <1>t DEF StopsChange
  <1>4. CASE lc.state = "stopping" /\ Waits(c, "stop", "stopTask", lc.gen) /\ UNCHANGED <<stopTask, stopRequested>>
    <2>1. caller'[c].op = "stop"
      BY <1>4, <1>t, WaitsChanges DEF Lifecycle
    <2> QED
      BY <1>4, <2>1 DEF StopsChange
  <1> QED
    BY <1>1, <1>2, <1>3, <1>4 DEF StopTurn

(* A call that is no stop() never stops an instance that no stop() waits   *)
(* for, and a stop() that returns leaves none to be stopped.               *)
CallIsBehalf(c) ==
    \/ caller'[c].op = "stop"
    \/ lifecycle'.state \in {"stopped", "running"}
    \/ BeginsStart
    \/ lifecycle.state = "starting" /\ lifecycle.gen \in stopRequested /\ caller[c].op = "start"
    \/ /\ lifecycle' = lifecycle
       /\ Stopping(c, lifecycle.gen) =>
             lifecycle.state # "stopping" /\ (lifecycle.state = "starting" => caller[c].waits # "startTask")

LEMMA BootstrapCallStops ==
  ASSUME IntegrationInvariant, mode = "bootstrap", NEW c \in Caller, BootstrapCall(c)
  PROVE  StopsChange(c) /\ CallIsBehalf(c)
  <1>t. /\ lifecycle \in Lifecycle /\ Seen(lifecycle) /\ caller \in [Caller -> Call]
        /\ caller[c].op # "none" => caller[c].op \in {"start", "stop"} /\ caller[c].gen \in Generation
    BY TypeSplit DEF IntegrationInvariant, Seen, Calls, Call, Lifecycle, Generation
  <1>s. ASSUME NEW lc, Seen(lc), StartTurn(c, lc), caller[c].op # "stop", UNCHANGED <<stopTask, stopRequested>>
        PROVE  StopsChange(c) /\ CallIsBehalf(c)
    <2>1. lc.gen = lifecycle.gen /\ lifecycle \in Lifecycle
      BY <1>s, <1>t, SeenHasType
    <2>2. CASE /\ lc.state = "stopped" /\ lc.gen < MaxGenerations
               /\ lifecycle' = [state |-> "starting", gen |-> lc.gen + 1]
               /\ startTask' = [startTask EXCEPT ![lc.gen + 1] = "preparing"]
      <3>1. lifecycle.state = "stopped" \/ (lifecycle.state = "stopping" /\ stopTask[lifecycle.gen] = "done")
        BY <1>s, <2>2, <2>1 DEF Seen, Lifecycle
      <3>2. lifecycle.state = "stopping" => lifecycle.gen \in Generation
        BY <1>t, SeenHasType
      <3>3. BeginsStart
        BY <1>s, <2>1, <2>2, <3>1, <3>2 DEF BeginsStart
      <3> QED
        BY <1>s, <3>3 DEF StopsChange, CallIsBehalf
    <2>3. CASE lc.state # "stopped" /\ lifecycle' = lc
      <3>1. lc.state = "running" \/ lc = lifecycle
        BY <1>s, <2>3, <2>1 DEF Seen, Lifecycle
      <3> QED
        BY <1>s, <2>3, <3>1 DEF StopsChange, CallIsBehalf, Stopping
    <2> QED
      BY <1>s, <2>2, <2>3 DEF StartTurn
  <1>r. ASSUME NEW lc, Seen(lc), Resume(c, lc), caller[c].op # "none"
        PROVE  StopsChange(c) /\ CallIsBehalf(c)
    <2>1. CASE caller[c].op = "stop"
      BY <1>r, <2>1, StopTurnStops DEF Resume, CallIsBehalf
    <2>2. CASE caller[c].op # "stop"
      <3>1. lc \in Lifecycle /\ lifecycle' = lc /\ UNCHANGED <<stopTask, stopRequested>>
        BY <1>r, <2>2, SeenHasType DEF Resume
      <3>2. lc = lifecycle \/ lc.state \in {"stopped", "running"}
        BY <1>r, <1>t DEF Seen, Lifecycle
      <3> QED
        BY <2>2, <3>1, <3>2 DEF StopsChange, CallIsBehalf, Stopping
    <2> QED
      BY <2>1, <2>2
  <1>1. CASE BootstrapStart(c)
    BY <1>1, <1>s, <1>t DEF BootstrapStart, Start
  <1>2. CASE BootstrapStop(c)
    BY <1>2, <1>t, StopTurnStops DEF BootstrapStop, CallIsBehalf
  <1>3. CASE BootstrapStartAfterStop(c)
    <2> DEFINE lc == AfterStop(caller[c].gen)
    <2>1. /\ Seen(lc) /\ caller[c].op = "start" /\ UNCHANGED <<stopTask, stopRequested>>
      BY <1>3, SeenAfterStop DEF BootstrapStartAfterStop, StartAfterStop
    <2>2. CASE lc.state = "stopped" /\ lc.gen = MaxGenerations
      <3>1. lifecycle' = lc
        BY <1>3, <2>2 DEF BootstrapStartAfterStop, StartAfterStop
      <3> QED
        BY <2>1, <2>2, <3>1 DEF StopsChange, CallIsBehalf
    <2>3. CASE ~(lc.state = "stopped" /\ lc.gen = MaxGenerations)
      <3>1. StartTurn(c, lc)
        BY <1>3, <2>3 DEF BootstrapStartAfterStop, StartAfterStop
      <3> QED
        BY <2>1, <3>1, <1>s
    <2> QED
      BY <2>2, <2>3
  <1>4. CASE BootstrapFinishStart(c)
    <2> DEFINE g == caller[c].gen
    <2>1. caller[c].waits = "startTask" /\ startTask[g] = "ok" /\ SettleStart(c, g)
      BY <1>4 DEF BootstrapFinishStart
    <2>2. caller[c].op \in {"start", "stop"} /\ g \in Generation
      BY <2>1, <1>t DEF IntegrationInvariant, Calls
    <2>3. CASE /\ lifecycle = [state |-> "starting", gen |-> g] /\ g \in stopRequested
               /\ stopTask' = [stopTask EXCEPT ![g] = "stopServer"]
               /\ Waits(c, caller[c].op, "settle", g)
               /\ UNCHANGED stopRequested
      <3>1. lifecycle.state = "starting" /\ lifecycle.gen = g
        BY <2>3
      <3>2. caller'[c].op = caller[c].op
        BY <2>2, <2>3, <1>t, WaitsChanges DEF Generation
      <3> QED
        BY <2>1, <2>2, <2>3, <3>1, <3>2 DEF StopsChange, CallIsBehalf
    <2>4. CASE lifecycle = [state |-> "starting", gen |-> g] /\ Resume(c, [lifecycle EXCEPT !.state = "running"])
      <3>1. Seen([lifecycle EXCEPT !.state = "running"])
        BY <2>1, <2>4 DEF Seen
      <3> QED
        BY <2>2, <2>4, <3>1, <1>r
    <2>5. CASE /\ lifecycle.state = "stopping"
               /\ Waits(c, caller[c].op, "settle", lifecycle.gen)
               /\ UNCHANGED <<lifecycle, stopTask, stopRequested>>
      <3>1. caller'[c].op = caller[c].op
        BY <2>2, <2>5, <1>t, WaitsChanges DEF Lifecycle
      <3> QED
        BY <2>2, <2>5, <3>1 DEF StopsChange, CallIsBehalf, Stopping
    <2>6. CASE /\ lifecycle # [state |-> "starting", gen |-> g] /\ lifecycle.state # "stopping"
               /\ Resume(c, lifecycle)
      BY <2>2, <2>6, <1>t, <1>r
    <2> QED
      BY <2>1, <2>3, <2>4, <2>5, <2>6 DEF SettleStart
  <1>5. CASE BootstrapStartFailed(c)
    <2>1. /\ caller[c].waits = "startTask" /\ startTask[caller[c].gen] = "failed"
          /\ UNCHANGED <<stopTask, stopRequested>>
      BY <1>5 DEF BootstrapStartFailed
    <2>2. CASE lifecycle = [state |-> "starting", gen |-> caller[c].gen]
      <3>1. lifecycle'.state = "stopped"
        BY <1>5, <2>2 DEF BootstrapStartFailed
      <3> QED
        BY <2>1, <3>1 DEF StopsChange, CallIsBehalf
    <2>3. CASE lifecycle # [state |-> "starting", gen |-> caller[c].gen]
      <3>1. lifecycle' = lifecycle
        BY <1>5, <2>3 DEF BootstrapStartFailed
      <3>2. Stopping(c, lifecycle.gen) => lifecycle.state # "starting"
        BY <2>3, <1>t DEF Stopping, Lifecycle
      <3>3. Stopping(c, lifecycle.gen) => lifecycle.state # "stopping"
        <4> SUFFICES ASSUME Stopping(c, lifecycle.gen), lifecycle.state = "stopping"
                     PROVE  FALSE
          OBVIOUS
        <4>1. lifecycle.gen = caller[c].gen /\ lifecycle.gen \in Generation
          BY <1>t DEF Stopping
        <4>2. stopTask[lifecycle.gen] # "none"
          BY <4>1 DEF IntegrationInvariant, Generations
        <4> QED
          BY <2>1, <4>1, <4>2 DEF IntegrationInvariant, Bootstrap
      <3> QED
        BY <2>1, <3>1, <3>2, <3>3 DEF StopsChange, CallIsBehalf
    <2> QED
      BY <2>2, <2>3
  <1>6. CASE BootstrapSettled(c)
    <2>1. /\ Resume(c, AfterStop(caller[c].gen)) /\ caller[c].waits = "settle"
          /\ Seen(AfterStop(caller[c].gen))
      BY <1>6, SeenAfterStop DEF BootstrapSettled
    <2>2. caller[c].op # "none"
      BY <2>1 DEF IntegrationInvariant, Calls
    <2> QED
      BY <2>1, <2>2, <1>r
  <1>7. CASE BootstrapFinishStop(c)
    <2>1. /\ UNCHANGED <<stopTask, stopRequested>> /\ caller[c].waits = "stopTask"
          /\ lifecycle' = AfterStop(caller[c].gen)
      BY <1>7 DEF BootstrapFinishStop, FinishStop
    <2>2. lifecycle'.state = "stopped" \/ (lifecycle' = lifecycle /\ ~(lifecycle.state = "stopping" /\ lifecycle.gen = caller[c].gen))
      BY <2>1, <1>t DEF AfterStop, Lifecycle
    <2> QED
      BY <2>1, <2>2 DEF StopsChange, CallIsBehalf, Stopping
  <1> QED
    BY <1>1, <1>2, <1>3, <1>4, <1>5, <1>6, <1>7 DEF BootstrapCall, BootstrapCallStep

(* No call of the bootstrap stops an instance for nobody, and a start()    *)
(* that no stop() overlapped keeps the instance it waits for.              *)
LEMMA BootstrapCallPreserves ==
  ASSUME IntegrationInvariant, mode = "bootstrap", NEW c \in Caller, BootstrapCall(c), Overlap,
         UNCHANGED mode
  PROVE  Bootstrap' /\ stopRequested' \subseteq Generation
  <1>e. CallEffect(c) /\ UNCHANGED serverVars /\ StopsChange(c) /\ CallIsBehalf(c) /\ LifecycleMove
    BY BootstrapCallEffect, BootstrapCallStops DEF CallEffect
  <1>m. /\ lifecycle \in Lifecycle /\ lifecycle' \in Lifecycle
        /\ lifecycle.gen <= lifecycle'.gen
        /\ caller \in [Caller -> Call] /\ startTask \in [Generation -> StartTask]
        /\ stopTask \in [Generation -> StopTask]
    BY <1>e, MoveIsSound, TypeSplit DEF IntegrationInvariant
  <1>b. /\ \A g \in Generation : stopTask[g] # "none" => startTask[g] = "ok"
        /\ \A g \in stopRequested : g <= lifecycle.gen
        /\ StopHasCaller /\ StartKeepsInstance
    BY DEF IntegrationInvariant, Bootstrap
  <1>d. CallerMoves(c)
    <2>1. CASE Returns(c)
      BY <2>1, <1>m, ReturnsChanges DEF CallerMoves
    <2>2. ASSUME NEW op \in {"start", "stop"}, NEW task \in {"startTask", "stopTask", "settle"},
                 Suspends(c, op, task)
          PROVE  CallerMoves(c)
      BY <2>2, <1>m, WaitsChanges DEF Suspends, Lifecycle, CallerMoves
    <2> QED
      BY <1>e, <2>1, <2>2 DEF CallEffect
  <1>s. ASSUME NEW g \in Generation
        PROVE  /\ startTask[g] = "ok" => startTask'[g] = "ok"
               /\ startTask[g] = "failed" => startTask'[g] = "failed"
    <2>1. CASE startTask' = startTask
      BY <2>1
    <2>2. CASE BeginsStart
      <3>1. lifecycle.gen + 1 \in Generation /\ startTask[lifecycle.gen + 1] = "none"
        BY <2>2, <1>m DEF BeginsStart, IntegrationInvariant, Generations, Generation, Lifecycle
      <3> QED
        BY <2>2, <3>1, <1>m DEF BeginsStart
    <2> QED
      BY <1>e, <2>1, <2>2 DEF LifecycleMove, SettlesStart, BeginsStop, EndsStop
  <1>1. ASSUME NEW g \in Generation, stopTask'[g] # "none"
        PROVE  startTask'[g] = "ok"
    <2>1. stopTask[g] # "none" \/ startTask[g] = "ok"
      BY <1>e, <1>1, <1>m DEF StopsChange
    <2> QED
      BY <2>1, <1>b, <1>s
  <1>2. /\ \A g \in stopRequested' : g <= lifecycle'.gen
        /\ stopRequested' \subseteq Generation
    <2>1. stopRequested \subseteq Generation
      BY DEF IntegrationInvariant
    <2>2. lifecycle.gen \in Int /\ lifecycle'.gen \in Int
      BY <1>m DEF Lifecycle
    <2>3. stopRequested' = stopRequested \/ (lifecycle.gen \in Generation /\ stopRequested' = stopRequested \cup {lifecycle.gen})
      BY <1>e DEF StopsChange
    <2>4. ASSUME NEW g \in stopRequested'
          PROVE  g \in Generation /\ g <= lifecycle'.gen
      <3>1. g \in Generation /\ g <= lifecycle.gen
        BY <2>1, <2>2, <2>3, <1>b
      <3> QED
        BY <3>1, <2>2, <1>m DEF Generation
    <2> QED
      BY <2>4
  <1>3. StopHasCaller'
    <2>1. CASE caller'[c].op = "stop"
      BY <2>1, <1>d DEF CallerMoves, Stopping, StopHasCaller
    <2>2. CASE lifecycle'.state \in {"stopped", "running"}
      BY <2>2 DEF StopHasCaller
    <2>3. CASE caller'[c].op # "stop" /\ BeginsStart
      <3>1. /\ lifecycle'.state = "starting" /\ lifecycle'.gen = lifecycle.gen + 1
            /\ stopRequested' = stopRequested /\ lifecycle.gen \in Int
        BY <2>3, <1>e, <1>m DEF BeginsStart, StopsChange, Lifecycle
      <3>2. lifecycle'.gen \notin stopRequested'
        BY <3>1, <1>b
      <3> QED
        BY <3>1, <3>2 DEF StopHasCaller
    <2>4. CASE lifecycle.state = "starting" /\ lifecycle.gen \in stopRequested /\ caller[c].op = "start"
      <3>1. PICK d \in Caller : Stopping(d, lifecycle.gen) /\ caller[d].waits = "startTask"
        BY <2>4, <1>b DEF StopHasCaller
      <3>2. caller'[d] = caller[d]
        BY <2>4, <3>1, <1>d DEF CallerMoves, Stopping
      <3>3. lifecycle'.gen = lifecycle.gen
        BY <2>4, <1>e, <1>m DEF LifecycleMove, BeginsStart, SettlesStart, BeginsStop, EndsStop, Lifecycle
      <3> QED
        BY <3>1, <3>2, <3>3 DEF StopHasCaller, Stopping
    <2>5. CASE /\ caller'[c].op # "stop"
               /\ lifecycle' = lifecycle
               /\ Stopping(c, lifecycle.gen) =>
                     /\ lifecycle.state # "stopping"
                     /\ lifecycle.state = "starting" => caller[c].waits # "startTask"
      <3>1. stopRequested' = stopRequested
        BY <2>5, <1>e DEF StopsChange
      <3>2. ASSUME NEW d \in Caller, Stopping(d, lifecycle.gen), d # c
            PROVE  Stopping(d, lifecycle.gen)' /\ caller'[d].waits = caller[d].waits
        BY <2>5, <3>2, <1>d DEF CallerMoves, Stopping
      <3>3. CASE lifecycle.state = "starting" /\ lifecycle.gen \in stopRequested
        <4>1. PICK d \in Caller : Stopping(d, lifecycle.gen) /\ caller[d].waits = "startTask"
          BY <3>3, <1>b DEF StopHasCaller
        <4>2. d # c
          BY <2>5, <3>3, <4>1
        <4> QED
          BY <2>5, <3>1, <3>2, <3>3, <4>1, <4>2 DEF StopHasCaller
      <3>4. CASE lifecycle.state = "stopping"
        <4>1. PICK d \in Caller : Stopping(d, lifecycle.gen)
          BY <3>4, <1>b DEF StopHasCaller
        <4>2. d # c
          BY <2>5, <3>4, <4>1
        <4> QED
          BY <2>5, <3>1, <3>2, <3>4, <4>1, <4>2 DEF StopHasCaller
      <3> QED
        BY <2>5, <3>1, <3>3, <3>4 DEF StopHasCaller
    <2> QED
      BY <1>e, <2>1, <2>2, <2>3, <2>4, <2>5 DEF CallIsBehalf
  <1>4. StartKeepsInstance'
    <2> SUFFICES ASSUME NEW e \in Caller, caller'[e].op = "start", e \notin overlapped'
                 PROVE  /\ \A d \in Caller : caller'[d].op # "stop"
                        /\ caller'[e].waits = "startTask"
                        /\ startTask'[caller'[e].gen] # "failed" =>
                              lifecycle'.gen = caller'[e].gen /\ lifecycle'.state \in {"starting", "running"}
      BY DEF StartKeepsInstance
    <2>1. /\ \A d \in Caller : caller'[d].op # "stop"
          /\ caller[e].op = "start" => e \notin overlapped
      BY OverlapFact
    <2>2. lifecycle'.state # "stopping"
      BY <2>1, <1>3 DEF StopHasCaller, Stopping
    <2>3. CASE e = c
      BY <2>1, <2>2, <2>3, <1>d DEF CallerMoves
    <2>4. CASE e # c
      <3>1. caller'[e] = caller[e] /\ e \notin overlapped
        BY <2>1, <2>4, <1>d DEF CallerMoves
      <3>2. /\ caller[e].waits = "startTask" /\ caller[e].gen \in Generation
            /\ startTask[caller[e].gen] # "failed" =>
                  lifecycle.gen = caller[e].gen /\ lifecycle.state \in {"starting", "running"}
        BY <3>1, <1>b, <1>m DEF StartKeepsInstance, IntegrationInvariant, Calls, Lifecycle, Generation
      <3>3. CASE startTask[caller[e].gen] = "failed"
        BY <2>1, <3>1, <3>2, <3>3, <1>s
      <3>4. CASE startTask[caller[e].gen] # "failed"
        <4>1. lifecycle.gen = caller[e].gen /\ lifecycle.state \in {"starting", "running"}
          BY <3>2, <3>4
        <4>2. lifecycle'.gen = caller[e].gen /\ lifecycle'.state \in {"starting", "running"}
          BY <1>e, <1>m, <2>2, <3>4, <4>1
             DEF LifecycleMove, BeginsStart, SettlesStart, BeginsStop, EndsStop, Lifecycle
        <4> QED
          BY <2>1, <3>1, <3>2, <4>2
      <3> QED
        BY <3>3, <3>4
    <2> QED
      BY <2>3, <2>4
  <1> QED
    BY <1>1, <1>2, <1>3, <1>4 DEF Bootstrap

--------------------------------------------------------------------------------
(* The tasks, the listener, the recorder and the connections.  As long as  *)
(* no call moves and no settled start changes its outcome, the callers     *)
(* find what they wait for.                                                *)
LEMMA CallersUndisturbed ==
  ASSUME IntegrationInvariant, Overlap, UNCHANGED <<mode, stopRequested, caller, lifecycle>>,
         \A g \in Generation : /\ startTask[g] \in Settled => startTask'[g] = startTask[g]
                               /\ stopTask'[g] = "none" <=> stopTask[g] = "none"
  PROVE  Calls' /\ Bootstrap' /\ stopRequested' \subseteq Generation
  <1>t. caller \in [Caller -> Call] /\ lifecycle \in Lifecycle
    BY TypeSplit DEF IntegrationInvariant
  <1>g. \A c \in Caller : caller[c].op # "none" => caller[c].gen \in Generation
    BY <1>t DEF IntegrationInvariant, Calls, Lifecycle, Generation
  <1>1. Calls'
    BY <1>g DEF IntegrationInvariant, Calls
  <1>2. CASE mode = "bootstrap"
    <2>1. StopHasCaller /\ StartKeepsInstance
      BY <1>2 DEF IntegrationInvariant, Bootstrap
    <2>2. StopHasCaller'
      BY <2>1 DEF StopHasCaller, Stopping
    <2>3. StartKeepsInstance'
      <3>1. ASSUME NEW c \in Caller, caller'[c].op = "start", c \notin overlapped'
            PROVE  c \notin overlapped /\ caller[c].op = "start"
        BY <3>1, <1>2, OverlapFact
      <3>2. \A c \in Caller : caller[c].op = "start" /\ startTask[caller[c].gen] = "failed" =>
                                 startTask'[caller[c].gen] = "failed"
        BY <1>g DEF Settled
      <3> QED
        BY <2>1, <3>1, <3>2 DEF StartKeepsInstance
    <2> QED
      BY <1>1, <1>2, <2>2, <2>3 DEF IntegrationInvariant, Bootstrap, Settled
  <1>3. CASE mode # "bootstrap"
    BY <1>1, <1>3 DEF Bootstrap, IntegrationInvariant
  <1> QED
    BY <1>2, <1>3

LEMMA TaskPreserves ==
  ASSUME IntegrationInvariant, NEW g \in Generation, Overlap, UNCHANGED <<mode, stopRequested>>,
         TaskStep(g) \/ \E state \in {"ready", "failed"} : ListenerReports(g, state)
  PROVE  IntegrationInvariant'
  <1> USE DEF IntegrationInvariant
  <1>t. /\ lifecycle \in Lifecycle
        /\ startTask \in [Generation -> StartTask] /\ stopTask \in [Generation -> StopTask]
        /\ server \in [Generation -> {"idle", "starting", "ready", "stopped"}]
        /\ events \in [Generation -> SUBSET {"ready", "failed"}]
    BY TypeSplit DEF TypeOK, RecorderState
  <1>i. ASSUME TypeOK', Generations', Recorder', UNCHANGED <<caller, lifecycle>>,
               \A h \in Generation : /\ startTask[h] \in Settled => startTask'[h] = startTask[h]
                                     /\ stopTask'[h] = "none" <=> stopTask[h] = "none"
        PROVE  IntegrationInvariant'
    BY <1>i, CallersUndisturbed
  <1>a. lifecycle.gen \in 0..MaxGenerations /\ lifecycle.state \in {"stopped", "starting", "running", "stopping"}
    BY <1>t DEF Lifecycle
  <1>1. CASE StartTaskStartsServer(g)
    <2>1. /\ startTask[g] = "preparing" /\ startTask' = [startTask EXCEPT ![g] = "serving"]
          /\ server' = [server EXCEPT ![g] = "starting"]
          /\ UNCHANGED <<lifecycle, caller, stopTask, events, connection, recorder>>
      BY <1>1 DEF StartTaskStartsServer
    <2>2. TypeOK'
      BY <2>1 DEF TypeOK
    <2>3. Generations'
      BY <2>1, <1>t, <1>a DEF Generations, ServerFollowsTasks, Over, Settled, Down, Generation
    <2>4. Recorder'
      BY <2>1, <1>t DEF Recorder, InSession
    <2> QED
      BY <2>1, <2>2, <2>3, <2>4, <1>i, <1>t DEF Settled
  <1>2. CASE StartTaskFails(g)
    <2>1. /\ startTask[g] = "preparing" /\ startTask' = [startTask EXCEPT ![g] = "failed"]
          /\ UNCHANGED <<lifecycle, caller, stopTask, server, events, connection, recorder>>
      BY <1>2 DEF StartTaskFails, serverVars
    <2>2. TypeOK'
      BY <2>1 DEF TypeOK
    <2>3. Generations'
      BY <2>1, <1>t, <1>a DEF Generations, ServerFollowsTasks, Over, Settled, Down, Generation
    <2>4. Recorder'
      BY <2>1, <1>t DEF Recorder, InSession
    <2> QED
      BY <2>1, <2>2, <2>3, <2>4, <1>i, <1>t DEF Settled
  <1>3. ASSUME NEW state \in {"ready", "failed"}, UpdateListenerState(g, state)
        PROVE  IntegrationInvariant'
    <2>0. /\ UNCHANGED <<lifecycle, caller, stopTask, connection, recorder>>
          /\ state \in events[g] /\ server[g] \in {"starting", "ready"}
      BY <1>3, <1>t DEF UpdateListenerState, Generations, ServerFollowsTasks, Down
    <2>1. /\ server[g] = "starting" => startTask[g] = "serving"
          /\ server[g] = "ready" => startTask[g] = "ok"
      BY <2>0, <1>t DEF Generations, ServerFollowsTasks, Down, StartTask
    <2>2. CASE state = "ready"
      <3>1. /\ events' = [events EXCEPT ![g] = @ \ {state}]
            /\ server' = [server EXCEPT ![g] = "ready"]
            /\ startTask' = [startTask EXCEPT ![g] = "ok"]
        BY <1>3, <1>t, <2>0, <2>1, <2>2 DEF UpdateListenerState
      <3>2. TypeOK'
        BY <2>0, <3>1 DEF TypeOK
      <3>3. Generations'
        BY <2>0, <2>1, <3>1, <1>t, <1>a DEF Generations, ServerFollowsTasks, Over, Settled, Down, Generation
      <3>4. Recorder'
        BY <2>0, <3>1, <1>t DEF Recorder, InSession
      <3> QED
        BY <2>0, <2>1, <3>1, <3>2, <3>3, <3>4, <1>i, <1>t DEF Settled
    <2>3. CASE state = "failed"
      <3>1. /\ events' = [events EXCEPT ![g] = {}]
            /\ server' = [server EXCEPT ![g] = "stopped"]
            /\ startTask' = [startTask EXCEPT ![g] = IF @ = "serving" THEN "failed" ELSE @]
        BY <1>3, <2>3 DEF UpdateListenerState, TransitionToStopped
      <3>s. /\ startTask' \in [Generation -> StartTask]
            /\ startTask'[g] = IF startTask[g] = "serving" THEN "failed" ELSE "ok"
            /\ \A h \in Generation \ {g} : startTask'[h] = startTask[h]
        BY <2>0, <2>1, <3>1, <1>t DEF StartTask
      <3>2. TypeOK'
        BY <2>0, <3>1, <3>s DEF TypeOK, StartTask
      <3>3. Generations'
        BY <2>0, <2>1, <3>1, <3>s, <1>t, <1>a DEF Generations, ServerFollowsTasks, Over, Settled, Down, Generation
      <3>4. Recorder'
        BY <2>0, <2>1, <3>s, <1>t DEF Recorder, InSession
      <3> QED
        BY <2>0, <2>1, <3>s, <3>2, <3>3, <3>4, <1>i, <1>t DEF Settled
    <2> QED
      BY <2>2, <2>3
  <1>4. CASE StopTaskAwaitsStart(g)
    <2>1. /\ UNCHANGED <<lifecycle, caller, startTask, server, events, connection, recorder>>
          /\ stopTask[g] = "awaitStart"
      BY <1>4 DEF StopTaskAwaitsStart, serverVars
    <2>2. /\ stopTask' \in [Generation -> StopTask]
          /\ \/ stopTask'[g] = "stopServer" /\ startTask[g] = "ok"
             \/ stopTask'[g] = "done" /\ startTask[g] = "failed"
          /\ \A h \in Generation \ {g} : stopTask'[h] = stopTask[h]
      BY <1>4, <1>t DEF StopTaskAwaitsStart, StopTask
    <2>3. TypeOK'
      BY <2>1, <2>2 DEF TypeOK, StopTask
    <2>4. Generations'
      BY <2>1, <2>2, <1>t, <1>a DEF Generations, ServerFollowsTasks, Over, Settled, Down, Generation
    <2>5. Recorder'
      BY <2>1, <2>2 DEF Recorder, InSession
    <2> QED
      BY <2>1, <2>2, <2>3, <2>4, <2>5, <1>i
  <1>5. CASE StopTaskStopsServer(g)
    <2>1. /\ UNCHANGED <<lifecycle, caller, startTask, connection, recorder>>
          /\ stopTask[g] = "stopServer" /\ stopTask' = [stopTask EXCEPT ![g] = "status"]
          /\ server' = [server EXCEPT ![g] = "stopped"]
          /\ events' = [events EXCEPT ![g] = {}]
      BY <1>5 DEF StopTaskStopsServer, TransitionToStopped
    <2>2. TypeOK'
      BY <2>1 DEF TypeOK
    <2>3. Generations'
      BY <2>1, <1>t, <1>a DEF Generations, ServerFollowsTasks, Over, Settled, Down, Generation
    <2>4. Recorder'
      BY <2>1, <1>t DEF Recorder, InSession
    <2> QED
      BY <2>1, <2>2, <2>3, <2>4, <1>i, <1>t
  <1>6. CASE StopTaskReadsStatus(g)
    <2>1. /\ UNCHANGED <<lifecycle, caller, startTask, server, events, connection, recorder>>
          /\ stopTask[g] = "status"
      BY <1>6 DEF StopTaskReadsStatus, serverVars
    <2>2. /\ stopTask' \in [Generation -> StopTask]
          /\ stopTask'[g] \in {"stopRecording", "done"}
          /\ recorder.phase = "recording" => stopTask'[g] = "stopRecording"
          /\ \A h \in Generation \ {g} : stopTask'[h] = stopTask[h]
      BY <1>6, <1>t DEF StopTaskReadsStatus, StopTask
    <2>3. TypeOK'
      BY <2>1, <2>2 DEF TypeOK, StopTask
    <2>4. Generations'
      BY <2>1, <2>2, <1>t, <1>a DEF Generations, ServerFollowsTasks, Over, Settled, Down, Generation
    <2>5. Recorder'
      BY <2>1, <2>2 DEF Recorder, InSession
    <2> QED
      BY <2>1, <2>2, <2>3, <2>4, <2>5, <1>i
  <1>7. CASE StopTaskStopsRecording(g)
    <2>1. /\ UNCHANGED <<lifecycle, caller, startTask, server, events, connection>>
          /\ stopTask[g] = "stopRecording"
      BY <1>7 DEF StopTaskStopsRecording
    <2>2. /\ stopTask' \in [Generation -> StopTask]
          /\ \/ /\ recorder.phase = "recording" /\ stopTask'[g] = "finalizing"
                /\ recorder' = [recorder EXCEPT !.phase = "stopping"]
             \/ /\ recorder.phase # "recording" \/ recorder.clock = "stepped"
                /\ stopTask'[g] = "done" /\ recorder' = recorder
          /\ \A h \in Generation \ {g} : stopTask'[h] = stopTask[h]
      BY <1>7, <1>t DEF StopTaskStopsRecording, StopTask
    <2>3. TypeOK'
      BY <2>1, <2>2 DEF TypeOK, StopTask
    <2>4. Generations'
      BY <2>1, <2>2, <1>t, <1>a DEF Generations, ServerFollowsTasks, Over, Settled, Down, Generation
    <2>5. Recorder'
      BY <2>1, <2>2 DEF Recorder, InSession, TypeOK
    <2> QED
      BY <2>1, <2>2, <2>3, <2>4, <2>5, <1>i
  <1>8. ASSUME NEW state \in {"ready", "failed"}, ListenerReports(g, state)
        PROVE  IntegrationInvariant'
    <2>1. /\ UNCHANGED <<lifecycle, caller, startTask, stopTask, server, connection, recorder>>
          /\ server[g] \in {"starting", "ready"}
          /\ events' = [events EXCEPT ![g] = @ \cup {state}]
      BY <1>8 DEF ListenerReports
    <2>2. TypeOK'
      BY <2>1 DEF TypeOK
    <2>3. Generations'
      BY <2>1, <1>t, <1>a DEF Generations, ServerFollowsTasks, Over, Down
    <2>4. Recorder'
      BY <2>1 DEF Recorder, InSession
    <2> QED
      BY <2>1, <2>2, <2>3, <2>4, <1>i
  <1> QED
    BY <1>1, <1>2, <1>3, <1>4, <1>5, <1>6, <1>7, <1>8 DEF TaskStep

LEMMA RecorderPreserves ==
  ASSUME IntegrationInvariant, Overlap, UNCHANGED <<mode, stopRequested>>,
         \/ \E phase \in {"recording", "idle", "stuck"} : RecorderStarts(phase)
         \/ RecorderStopsItself
         \/ \E phase \in {"idle", "stuck"} : RecorderStopped(phase)
         \/ ClockStepsBack
  PROVE  IntegrationInvariant'
  <1> USE DEF IntegrationInvariant
  <1>t. /\ lifecycle \in Lifecycle /\ stopTask \in [Generation -> StopTask]
        /\ recorder \in RecorderState
    BY TypeSplit DEF TypeOK, RecorderState
  <1>i. ASSUME UNCHANGED <<caller, lifecycle, startTask, stopTask, server, events, connection>>
        PROVE  Generations' /\ Calls' /\ Bootstrap' /\ stopRequested' \subseteq Generation
    <2>1. Generations'
      BY <1>i DEF Generations, ServerFollowsTasks, Over
    <2> QED
      BY <1>i, <2>1, CallersUndisturbed
  <1>1. ASSUME NEW phase \in {"recording", "idle", "stuck"}, RecorderStarts(phase)
        PROVE  IntegrationInvariant'
    <2>1. /\ UNCHANGED <<caller, lifecycle, startTask, stopTask, server, events, connection>>
          /\ recorder.phase = "starting"
          /\ \/ recorder' = [recorder EXCEPT !.phase = "recording"]
             \/ recorder' = NoSession(phase) /\ phase \in {"idle", "stuck"}
      BY <1>1 DEF RecorderStarts
    <2>2. recorder' \in RecorderState
      BY <2>1, <1>t DEF NoSession, RecorderState
    <2>3. TypeOK'
      BY <2>1, <2>2 DEF TypeOK, RecorderState
    <2>4. Recorder'
      <3>1. CASE recorder' = [recorder EXCEPT !.phase = "recording"]
        <4>1. /\ recorder'.phase = "recording" /\ recorder'.by = recorder.by
              /\ recorder'.clock = recorder.clock /\ InSession
          BY <2>1, <3>1, <1>t DEF RecorderState, InSession
        <4> QED
          BY <2>1, <4>1, <1>t DEF Recorder, InSession
      <3>2. CASE recorder' = NoSession(phase) /\ phase \in {"idle", "stuck"}
        <4>1. recorder'.phase \in {"idle", "stuck"}
          BY <3>2 DEF NoSession
        <4> QED
          BY <2>1, <4>1, <1>t DEF Recorder, InSession
      <3> QED
        BY <2>1, <3>1, <3>2
    <2> QED
      BY <2>1, <2>3, <2>4, <1>i
  <1>2. CASE RecorderStopsItself
    <2>1. /\ UNCHANGED <<caller, lifecycle, startTask, stopTask, server, events, connection>>
          /\ recorder.phase = "recording" /\ recorder' = [recorder EXCEPT !.phase = "stopping"]
      BY <1>2 DEF RecorderStopsItself
    <2>2. TypeOK'
      BY <2>1 DEF TypeOK
    <2>3. Recorder'
      BY <2>1, <1>t DEF Recorder, InSession
    <2> QED
      BY <2>1, <2>2, <2>3, <1>i
  <1>3. ASSUME NEW phase \in {"idle", "stuck"}, RecorderStopped(phase)
        PROVE  IntegrationInvariant'
    <2>1. /\ UNCHANGED <<caller, lifecycle, startTask, server, events, connection>>
          /\ recorder'.phase \in {"idle", "stuck"} /\ recorder' \in RecorderState
      BY <1>3 DEF RecorderStopped, NoSession, RecorderState
    <2>2. /\ stopTask' \in [Generation -> StopTask]
          /\ \A g \in Generation : stopTask'[g] = IF stopTask[g] = "finalizing" THEN "done" ELSE stopTask[g]
      BY <1>3, <1>t DEF RecorderStopped, StopTask
    <2>3. TypeOK'
      BY <2>1, <2>2 DEF TypeOK, StopTask, RecorderState
    <2>4. Generations'
      BY <2>1, <2>2 DEF Generations, ServerFollowsTasks, Over
    <2>5. Recorder'
      BY <2>1, <2>2 DEF Recorder, InSession
    <2> QED
      BY <2>1, <2>2, <2>3, <2>4, <2>5, CallersUndisturbed
  <1>4. CASE ClockStepsBack
    <2>1. /\ UNCHANGED <<caller, lifecycle, startTask, stopTask, server, events, connection>>
          /\ recorder' = [recorder EXCEPT !.clock = "stepped"]
      BY <1>4 DEF ClockStepsBack
    <2>2. /\ recorder' \in RecorderState /\ recorder'.clock = "stepped"
          /\ recorder'.phase = recorder.phase /\ recorder'.by = recorder.by
      BY <2>1, <1>t DEF RecorderState
    <2>3. TypeOK'
      BY <2>1, <2>2 DEF TypeOK, RecorderState
    <2>4. Recorder'
      BY <2>1, <2>2 DEF Recorder, InSession
    <2> QED
      BY <2>1, <2>3, <2>4, <1>i
  <1> QED
    BY <1>1, <1>2, <1>3, <1>4

(* Of a connection the recorder needs to know that it is answered only by  *)
(* a server that serves, and that one belongs to the current generation.   *)
LEMMA ConnectionPreserves ==
  ASSUME IntegrationInvariant, Overlap, UNCHANGED <<mode, stopRequested>>, NEW k \in Connection,
         ConnectionStep(k) \/ \E g \in Generation : Connect(k, g)
  PROVE  IntegrationInvariant'
  <1> USE DEF IntegrationInvariant
  <1> DEFINE ConnectionRecord ==
               [state : {"none", "offered", "open", "received", "handling", "refused",
                         "answered", "closed"},
                gen : 0..MaxGenerations,
                op : {"none", "start", "stop"}]
  <1>t. /\ connection \in [Connection -> ConnectionRecord]
        /\ recorder \in RecorderState
    BY DEF TypeOK, RecorderState
  <1>i. ASSUME UNCHANGED <<caller, lifecycle, startTask, stopTask, server, events>>,
               connection' \in [Connection -> ConnectionRecord],
               recorder' \in RecorderState,
               Recorder'
        PROVE  IntegrationInvariant'
    <2>1. Generations'
      BY <1>i DEF Generations, ServerFollowsTasks, Over
    <2>2. TypeOK'
      BY <1>i DEF TypeOK, RecorderState
    <2> QED
      BY <1>i, <2>1, <2>2, CallersUndisturbed
  <1>g. ASSUME NEW state \in {"none", "offered", "open", "received", "handling", "refused",
                              "answered", "closed"},
               Goes(k, state)
        PROVE  /\ connection' \in [Connection -> ConnectionRecord]
               /\ connection'[k].state = state /\ connection'[k].gen = connection[k].gen
               /\ connection'[k].op = connection[k].op
               /\ \A j \in Connection \ {k} : connection'[j] = connection[j]
    BY <1>g, <1>t DEF Goes
  (* A connection that is not the recorder's, or whose request is not yet  *)
  (* handled, does not matter to the recorder.                             *)
  <1>o. ASSUME UNCHANGED <<lifecycle, startTask, stopTask, recorder>>,
               connection' \in [Connection -> ConnectionRecord],
               connection[k].state \notin {"handling", "answered", "closed"},
               connection'[k].state # "none" => connection'[k].gen \in Generation,
               \A j \in Connection \ {k} : connection'[j] = connection[j]
        PROVE  Recorder'
    <2>1. InSession => recorder.by # k /\ connection'[recorder.by] = connection[recorder.by]
      BY <1>o, <1>t DEF Recorder, InSession
    <2> QED
      BY <1>o, <2>1 DEF Recorder, InSession
  <1>1. ASSUME NEW g \in Generation, Connect(k, g)
        PROVE  IntegrationInvariant'
    <2>1. /\ UNCHANGED <<caller, lifecycle, startTask, stopTask, server, events, recorder>>
          /\ connection[k].state = "none"
          /\ connection' = [connection EXCEPT ![k] = [state |-> "offered", gen |-> g, op |-> "none"]]
      BY <1>1 DEF Connect
    <2>2. /\ connection' \in [Connection -> ConnectionRecord] /\ connection'[k].gen = g
          /\ \A j \in Connection \ {k} : connection'[j] = connection[j]
      BY <2>1, <1>t DEF Generation
    <2> QED
      BY <2>1, <2>2, <1>i, <1>o, <1>t
  <1>2. CASE Accept(k)
    <2>1. /\ UNCHANGED <<caller, lifecycle, startTask, stopTask, server, events, recorder>>
          /\ connection[k].state = "offered" /\ (Goes(k, "open") \/ Goes(k, "closed"))
      BY <1>2 DEF Accept
    <2>2. connection[k].gen \in Generation
      BY <2>1 DEF Recorder, InSession
    <2> QED
      BY <2>1, <2>2, <1>i, <1>g, <1>o, <1>t
  <1>3. ASSUME NEW op \in {"start", "stop"}, Receive(k, op)
        PROVE  IntegrationInvariant'
    <2>1. /\ UNCHANGED <<caller, lifecycle, startTask, stopTask, server, events, recorder>>
          /\ connection[k].state = "open"
      BY <1>3 DEF Receive
    <2>2. /\ connection' \in [Connection -> ConnectionRecord] /\ connection'[k].gen = connection[k].gen
          /\ \A j \in Connection \ {k} : connection'[j] = connection[j]
      <3>1. PICK s \in {"received", "closed"} :
               connection' = [connection EXCEPT ![k].state = s, ![k].op = op]
        <4>1. CASE IsServing(k)
          BY <1>3, <4>1 DEF Receive
        <4>2. CASE ~IsServing(k)
          BY <1>3, <4>2 DEF Receive
        <4> QED
          BY <4>1, <4>2
      <3> QED
        BY <3>1, <1>t
    <2>3. connection[k].gen \in Generation
      BY <2>1 DEF Recorder, InSession
    <2> QED
      BY <2>1, <2>2, <2>3, <1>i, <1>o, <1>t
  <1>4. CASE ConnectionEnds(k)
    <2>1. /\ UNCHANGED <<caller, lifecycle, startTask, stopTask, server, events, recorder>>
          /\ connection[k].state = "open" /\ Goes(k, "closed")
      BY <1>4 DEF ConnectionEnds
    <2>2. connection[k].gen \in Generation
      BY <2>1 DEF Recorder, InSession
    <2> QED
      BY <2>1, <2>2, <1>i, <1>g, <1>o, <1>t
  <1>5. CASE Handle(k)
    <2>0. /\ UNCHANGED <<caller, lifecycle, startTask, stopTask, server, events>>
          /\ connection[k].state = "received" /\ connection[k].gen \in Generation
      BY <1>5 DEF Handle, Recorder, InSession
    <2>b. InSession => recorder.by # k
      BY <2>0, <1>t DEF Recorder, InSession
    <2>1. CASE /\ connection[k].op = "start" /\ recorder.phase = "idle"
               /\ recorder' = [phase |-> "starting", by |-> k, clock |-> "steady"]
               /\ Goes(k, "handling")
      <3>1. \A g \in Generation : stopTask[g] # "finalizing"
        BY <2>1 DEF Recorder
      <3>2. Recorder'
        BY <2>0, <2>1, <3>1, <1>g DEF Recorder, InSession
      <3> QED
        BY <2>0, <2>1, <3>2, <1>i, <1>g DEF RecorderState
    <2>2. CASE /\ connection[k].op = "stop" /\ recorder.phase = "recording"
               /\ recorder' = [recorder EXCEPT !.phase = "stopping"]
               /\ Goes(k, "handling")
      <3>1. /\ connection' \in [Connection -> ConnectionRecord]
            /\ connection'[k].gen = connection[k].gen
            /\ \A j \in Connection \ {k} : connection'[j] = connection[j]
        BY <2>2, <1>g
      <3>2. recorder'.phase = "stopping" /\ recorder'.by = recorder.by /\ recorder.by \in Connection \ {k}
        BY <2>2, <2>b, <1>t DEF Recorder, InSession
      <3>3. Recorder'
        BY <2>0, <2>2, <3>1, <3>2 DEF Recorder, InSession
      <3> QED
        BY <2>0, <2>2, <3>1, <3>3, <1>i, <1>t DEF RecorderState
    <2>3. CASE Goes(k, "refused") /\ UNCHANGED recorder
      BY <2>0, <2>3, <1>i, <1>g, <1>o, <1>t
    <2> QED
      BY <1>5, <2>1, <2>2, <2>3 DEF Handle
  <1>6. CASE Respond(k)
    <2>1. /\ UNCHANGED <<caller, lifecycle, startTask, stopTask, server, events, recorder>>
          /\ connection[k].state \in {"refused", "handling"} /\ connection[k].gen \in Generation
          /\ connection[k].state = "handling" /\ connection[k].op = "start" => recorder.phase # "starting"
      BY <1>6 DEF Respond, Recorder, InSession
    <2>2. Goes(k, "answered") \/ Goes(k, "closed")
      BY <1>6 DEF Respond
    <2>3. Goes(k, "answered") => server[connection[k].gen] = "ready" \/ Goes(k, "closed")
      BY <1>6 DEF Respond, IsServing
    <2>4. /\ connection' \in [Connection -> ConnectionRecord]
          /\ connection'[k].gen = connection[k].gen /\ connection'[k].op = connection[k].op
          /\ \A j \in Connection \ {k} : connection'[j] = connection[j]
          /\ \/ connection'[k].state = "closed"
             \/ connection'[k].state = "answered" /\ server[connection[k].gen] = "ready"
      BY <2>2, <2>3, <1>g
    <2>5. server[connection[k].gen] = "ready" =>
            /\ lifecycle.gen = connection[k].gen /\ lifecycle.state # "stopped"
            /\ startTask[lifecycle.gen] = "ok"
            /\ stopTask[lifecycle.gen] \in {"none", "awaitStart", "stopServer"}
      BY <2>1, TypeSplit DEF Generations, ServerFollowsTasks, Over, Down, StartTask, StopTask, Lifecycle, Generation
    <2>6. Recorder'
      <3>1. CASE InSession /\ recorder.by = k
        <4>1. connection[k].op = "start" /\ recorder.phase # "starting"
          BY <2>1, <3>1 DEF Recorder, InSession
        <4> QED
          BY <2>1, <2>4, <2>5, <3>1, <4>1 DEF Recorder, InSession
      <3>2. CASE ~(InSession /\ recorder.by = k)
        <4>1. InSession => connection'[recorder.by] = connection[recorder.by]
          BY <2>4, <3>2 DEF Recorder, InSession
        <4> QED
          BY <2>1, <2>4, <3>2, <4>1 DEF Recorder, InSession
      <3> QED
        BY <3>1, <3>2
    <2> QED
      BY <2>1, <2>4, <2>6, <1>i, <1>t
  <1> QED
    BY <1>1, <1>2, <1>3, <1>4, <1>5, <1>6 DEF ConnectionStep

--------------------------------------------------------------------------------
LEMMA StepPreserves ==
  ASSUME IntegrationInvariant, IntegrationNext
  PROVE  IntegrationInvariant'
  <1>o. Overlap /\ UNCHANGED mode
    BY DEF IntegrationNext
  <1>1. CASE mode = "direct" /\ Next /\ UNCHANGED stopRequested
    <2>1. ASSUME NEW c \in Caller, Start(c) \/ Stop(c) \/ CallStep(c)
          PROVE  IntegrationInvariant'
      <3>1. CallEffect(c) /\ UNCHANGED serverVars
        BY <1>1, <2>1, DirectCallEffect
      <3>2. TypeOK' /\ Generations' /\ Recorder' /\ Calls'
        BY <3>1, <1>o, CallPreserves
      <3>3. Bootstrap'
        BY <1>1, <1>o DEF Bootstrap
      <3> QED
        BY <1>1, <1>o, <3>2, <3>3 DEF IntegrationInvariant
    <2> QED
      BY <1>1, <1>o, <2>1, TaskPreserves, RecorderPreserves, ConnectionPreserves DEF Next
  <1>2. CASE mode = "bootstrap" /\ BootstrapNext
    <2>1. ASSUME NEW c \in Caller, BootstrapCall(c)
          PROVE  IntegrationInvariant'
      <3>1. CallEffect(c) /\ UNCHANGED serverVars
        BY <1>2, <2>1, BootstrapCallEffect
      <3>2. TypeOK' /\ Generations' /\ Recorder' /\ Calls'
        BY <3>1, <1>o, CallPreserves
      <3>3. Bootstrap' /\ stopRequested' \subseteq Generation
        BY <1>2, <1>o, <2>1, BootstrapCallPreserves
      <3> QED
        BY <1>2, <1>o, <3>2, <3>3 DEF IntegrationInvariant
    <2> QED
      BY <1>2, <1>o, <2>1, TaskPreserves DEF BootstrapNext, BootstrapCall
  <1> QED
    BY <1>1, <1>2 DEF IntegrationNext

(* Every state of both integrations satisfies the inductive invariant. *)
LEMMA IntegrationCorrect == BootstrapInit /\ [][IntegrationNext]_allVars => []IntegrationInvariant
  <1>1. BootstrapInit => IntegrationInvariant
    <2> SUFFICES ASSUME BootstrapInit
                 PROVE  IntegrationInvariant
      OBVIOUS
    <2>1. TypeOK
      BY DEF BootstrapInit, Init, TypeOK, NoCall, NoConnection, IdleRecorder, NoSession
    <2>2. Generations
      BY DEF BootstrapInit, Init, Generations, ServerFollowsTasks, Over, Down, Settled, Generation
    <2>3. Calls
      BY DEF BootstrapInit, Init, Calls, NoCall
    <2>4. Recorder
      BY DEF BootstrapInit, Init, Recorder, InSession, NoConnection, IdleRecorder, NoSession
    <2>5. Bootstrap
      BY DEF BootstrapInit, Init, Bootstrap, StopHasCaller, StartKeepsInstance, NoCall
    <2> QED
      BY <2>1, <2>2, <2>3, <2>4, <2>5 DEF IntegrationInvariant, BootstrapInit
  <1>2. ASSUME IntegrationInvariant, [IntegrationNext]_allVars
        PROVE  IntegrationInvariant'
    <2>1. CASE UNCHANGED allVars
      BY <1>2, <2>1
         DEF allVars, vars, IntegrationInvariant, TypeOK, Generations, ServerFollowsTasks, Over, Calls,
             Recorder, InSession, Bootstrap, StopHasCaller, StartKeepsInstance, Stopping
    <2> QED
      BY <1>2, <2>1, StepPreserves
  <1> QED
    BY <1>1, <1>2, PTL

(* The lifecycle, the tasks of every generation, the calls, the server and *)
(* the connections keep their types, with and without the bootstrap.       *)
THEOREM IntegrationTypeCorrect == IntegrationSpec => []TypeOK
  <1>1. IntegrationInvariant => TypeOK
    BY DEF IntegrationInvariant
  <1> QED
    BY <1>1, IntegrationCorrect, PTL DEF IntegrationSpec

(* APIOSDebugRuntime and APIOSDebugBootstrap: no interleaving of starts    *)
(* and stops leaks a listener or makes two compete for the port, and what  *)
(* the lifecycle calls running has been started and is not being shut      *)
(* down.                                                                   *)
THEOREM ServersFollowTheLifecycle == IntegrationSpec => []ServerBelongsToLifecycle
  <1>1. IntegrationInvariant => ServerBelongsToLifecycle
    <2> SUFFICES ASSUME IntegrationInvariant
                 PROVE  ServerBelongsToLifecycle
      OBVIOUS
    <2>1. lifecycle \in Lifecycle
      BY TypeSplit DEF IntegrationInvariant
    <2>2. ASSUME NEW g \in Generation, server[g] \in {"starting", "ready"}
          PROVE  lifecycle.gen = g /\ lifecycle.state # "stopped"
      BY <2>1, <2>2 DEF IntegrationInvariant, Generations, ServerFollowsTasks, Over, Down, Lifecycle, Generation
    <2>3. lifecycle.state = "running" => startTask[lifecycle.gen] = "ok" /\ stopTask[lifecycle.gen] = "none"
      BY <2>1 DEF IntegrationInvariant, Generations, Lifecycle, Generation
    <2> QED
      BY <2>2, <2>3 DEF ServerBelongsToLifecycle
  <1> QED
    BY <1>1, IntegrationCorrect, PTL DEF IntegrationSpec

(* APIOSDebugRuntime.stop: a recording whose start was answered does not   *)
(* run on in a stopped runtime, as long as the clock is not stepped back   *)
(* during that recording.                                                  *)
THEOREM StopEndsAnsweredRecordings == IntegrationSpec => []AnsweredRecordingEnds
  <1>1. IntegrationInvariant => AnsweredRecordingEnds
    BY DEF IntegrationInvariant, Recorder, InSession, AnsweredRecordingEnds
  <1> QED
    BY <1>1, IntegrationCorrect, PTL DEF IntegrationSpec

(* Only its own step moves a caller, and a caller that returns has not     *)
(* suspended.                                                              *)
LEMMA CallerOfStep ==
  ASSUME IntegrationInvariant, IntegrationNext, NEW c \in Caller,
         caller[c].op # "none", caller'[c].op = "none"
  PROVE  /\ UNCHANGED serverVars
         /\ caller[c].op = "stop" => server[caller[c].gen] \in Down
         /\ mode = "bootstrap" => BootstrapCall(c)
  <1>t. caller \in [Caller -> Call]
    BY TypeSplit DEF IntegrationInvariant
  <1>s. ASSUME NEW d \in Caller, CallEffect(d), UNCHANGED serverVars
        PROVE  d = c /\ (caller[c].op = "stop" => server[caller[c].gen] \in Down)
    <2>1. CASE Returns(d) /\ (caller[d].op = "stop" => server[caller[d].gen] \in Down)
      BY <1>t, <2>1, ReturnsChanges
    <2>2. ASSUME NEW op \in {"start", "stop"}, NEW task \in {"startTask", "stopTask", "settle"},
                 Suspends(d, op, task)
          PROVE  FALSE
      <3>1. lifecycle'.gen \in 0..MaxGenerations
        BY <1>s, MoveIsSound DEF CallEffect, IntegrationNext, Lifecycle
      <3>2. caller'[d].op = op /\ \A e \in Caller \ {d} : caller'[e] = caller[e]
        BY <1>t, <2>2, <3>1, WaitsChanges DEF Suspends
      <3> QED
        BY <3>2
    <2> QED
      BY <1>s, <2>1, <2>2 DEF CallEffect
  <1>1. caller' # caller
    OBVIOUS
  <1>2. CASE mode = "direct" /\ Next
    <2>1. PICK d \in Caller : Start(d) \/ Stop(d) \/ CallStep(d)
      BY <1>1, <1>2
         DEF Next, TaskStep, StartTaskStartsServer, StartTaskFails, UpdateListenerState,
             StopTaskAwaitsStart, StopTaskStopsServer, StopTaskReadsStatus, StopTaskStopsRecording,
             ListenerReports, RecorderStarts, RecorderStopsItself, RecorderStopped, ClockStepsBack,
             Connect,
             ConnectionStep, Accept, Receive, ConnectionEnds, Handle, Respond
    <2>2. CallEffect(d) /\ UNCHANGED serverVars
      BY <1>2, <2>1, DirectCallEffect
    <2> QED
      BY <1>2, <1>s, <2>2
  <1>3. CASE mode = "bootstrap" /\ BootstrapNext
    <2>1. PICK d \in Caller : BootstrapCall(d)
      BY <1>1, <1>3
         DEF BootstrapNext, BootstrapCall, TaskStep, StartTaskStartsServer, StartTaskFails,
             UpdateListenerState, StopTaskAwaitsStart, StopTaskStopsServer, StopTaskReadsStatus,
             StopTaskStopsRecording, ListenerReports
    <2>2. CallEffect(d) /\ UNCHANGED serverVars
      BY <1>3, <2>1, BootstrapCallEffect
    <2>3. d = c
      BY <1>s, <2>2
    <2> QED
      BY <1>s, <2>1, <2>2, <2>3
  <1> QED
    BY <1>2, <1>3 DEF IntegrationNext

(* stop() of both integrations: the server it found alive or on its way is *)
(* down when it returns, whoever settled the start and the stop.           *)
THEOREM StopTakesTheServerDown == IntegrationSpec => StopLeavesNoServer
  <1>1. ASSUME IntegrationInvariant, IntegrationNext, NEW c \in Caller,
               caller[c].op = "stop", caller'[c].op = "none"
        PROVE  server'[caller[c].gen] \notin {"starting", "ready"}
    BY <1>1, CallerOfStep DEF serverVars, Down
  <1>2. IntegrationInvariant /\ [IntegrationNext]_allVars =>
          [\A c \in Caller :
             caller[c].op = "stop" /\ caller'[c].op = "none" =>
                server'[caller[c].gen] \notin {"starting", "ready"}]_allVars
    BY <1>1
  <1> QED
    BY <1>2, IntegrationCorrect, PTL DEF IntegrationSpec, StopLeavesNoServer

(* APIOSDebugBootstrap.start: a start() that returns well, and that no     *)
(* stop() overlapped, leaves the kit running with the start it waited for. *)
THEOREM StartLeavesTheKitRunning == IntegrationSpec => StartLeavesRunning
  <1>1. ASSUME IntegrationInvariant, IntegrationNext, NEW c \in Caller,
               mode = "bootstrap", caller[c].op = "start", caller'[c].op = "none",
               startTask[caller[c].gen] = "ok", c \notin overlapped'
        PROVE  lifecycle' = [state |-> "running", gen |-> caller[c].gen]
    <2> DEFINE g == caller[c].gen
    <2>t. caller \in [Caller -> Call] /\ lifecycle \in Lifecycle /\ g \in Generation
      BY <1>1, TypeSplit DEF IntegrationInvariant, Calls, Lifecycle, Generation
    <2>1. c \notin overlapped /\ BootstrapCall(c)
      BY <1>1, CallerOfStep DEF IntegrationNext, Overlap
    <2>2. /\ caller[c].waits = "startTask"
          /\ lifecycle.gen = g /\ lifecycle.state \in {"starting", "running"}
      BY <1>1, <2>1 DEF IntegrationInvariant, Bootstrap, StartKeepsInstance
    <2>3. SettleStart(c, g)
      BY <1>1, <2>1, <2>2
         DEF BootstrapCall, BootstrapCallStep, BootstrapStart, Start, BootstrapStop,
             BootstrapStartAfterStop, StartAfterStop, BootstrapFinishStart, BootstrapStartFailed,
             BootstrapSettled, BootstrapFinishStop, FinishStop
    <2>4. ~Waits(c, caller[c].op, "settle", g)
      BY <1>1, <2>t, WaitsChanges DEF Generation
    <2>5. \/ lifecycle' = [lifecycle EXCEPT !.state = "running"]
          \/ lifecycle' = lifecycle /\ lifecycle.state = "running"
      <3>1. lifecycle # [state |-> "starting", gen |-> g] => lifecycle.state = "running"
        BY <2>2, <2>t DEF Lifecycle
      <3> QED
        BY <1>1, <2>2, <2>3, <2>4, <3>1 DEF SettleStart, Resume
    <2> QED
      BY <2>2, <2>5, <2>t DEF Lifecycle
  <1>2. IntegrationInvariant /\ [IntegrationNext]_allVars =>
          [\A c \in Caller :
             /\ mode = "bootstrap"
             /\ caller[c].op = "start" /\ caller'[c].op = "none"
             /\ startTask[caller[c].gen] = "ok"
             /\ c \notin overlapped'
             => lifecycle' = [state |-> "running", gen |-> caller[c].gen]]_allVars
    BY <1>1
  <1> QED
    BY <1>2, IntegrationCorrect, PTL DEF IntegrationSpec, StartLeavesRunning
================================================================================
