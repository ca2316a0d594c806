# AppPilot: TLA+ models, checks and proofs

AppPilot drives an iOS App under development from the command line:
`ap-ios-debug`, a Go program, talks HTTP over USB (usbmux) or TCP to a debug server that the App
links in from a Swift package, `APIOSDebugKit`. Through it the CLI reads state,
takes screenshots, activates actions that views registered, and records the
screen with ReplayKit. The repository also holds the commands and the script
that put these parts into a project and onto a computer.

This directory models the parts of the system that keep state and in which more
than one thing happens at a time. `PROJECT.json` gives, for every definition
that models code, the file and lines it stands for, and lists components, runs,
hazards, findings and theorems. Paths below are relative to the repository; the
Swift ones lie under `src/swift/ap-ios-debug-kit/Sources/`.

## 1. Inventory

| Part | State it keeps | Operations | Talks to |
|---|---|---|---|
| Recording state machine (`APIOSDebugCore/RecordingStateMachine.swift`) | phase, instants of the session, elapsed time, recording or failure | one event each: start requested, capture started, stop requested, writer finished, failed, two timeouts, maximum duration, downloaded and deleted, reset | a value held by the controller |
| Retention policy (`APIOSDebugCore/RecordingRetentionPolicy.swift`) | none (a function of a list and an instant) | identifiers to delete | called by the controller's `cleanup()` |
| Recording controller (`APIOSDebugKit/RecordingController.swift`, `RecordingWriter.swift`) | the machine, the active recording and its file, the unsettled start, the automatic stop, the sample queue, the recordings directory | start, stop, status, open, delete, cleanup, shutDown | ReplayKit, file system, clock, timers, the routes |
| Recording commands (`src/cli/internal/cli/recording.go`, `protocol`) | one process each; the artifact on the computer | recording start, stop, status | the recording routes |
| Runtime and server (`APIOSDebugKit/APIOSDebugRuntime.swift`, `NetworkDebugServer.swift`, `APIOSDebugCore/HTTPRouter.swift`) | lifecycle and generation, start and stop tasks, listener, connections | start(), stop(), listener events, accept, receive, respond | Network framework, the controller, the App |
| Debug actions (`APIOSDebugKit/DebugActionRegistry.swift`, `DebugActionModifier.swift`, `src/cli/internal/cli/actions.go`) | registered actions with generations, tokens of views | register, unregister, list, activate | SwiftUI, the CLI |
| Scaffold and init (`src/cli/internal/scaffold/scaffold.go`, `src/cli/internal/cli/scaffold.go`, `init.go`) | the project's files, staged copies, what the run created | plan, compare, stage, link, roll back | file system, the user's editor |
| Local installation (`src/scripts/local-install.sh`) | binary, package, skill, their backups and staged copies | install, uninstall | file system, signals |
| Bootstrap template (`src/swift/ap-ios-debug-kit/Templates/APIOSDebugBootstrap.swift`) | a start/stop lifecycle, with a new runtime per start | start, stop | the runtime |
| Transports (`src/cli/internal/transport`) | one connection, the goroutine that makes it, two channels | Dial | usbmuxd, TCP |
| Protocol client (`src/cli/internal/protocol/client.go`) | one exchange, the response body with its watcher | DoJSON, DoHEAD, OpenBinary, Read, Close | net/http, the transports |
| Artifact commands (`src/cli/internal/artifact/artifact.go`, `cli/screenshot.go`, the download of `cli/recording.go`) | temporary file, destination, exit status | Write, screenshot capture | client, file system |
| Devices, configuration, error codes (`src/cli/internal/device`, `config`, `contract`, `cli/runtime.go`) | none (functions of documents and sources) | List, Resolve, CheckReady; Load; ExitCode | devicectl, files, environment, flags |
| Doctor (`src/cli/internal/doctor/doctor.go`, `cli/doctor.go`, `cli/root.go`) | report, first error; the slot of the usbmux probe, which outlives a run | six checks, probes, report | all of the above |
| HTTP parsing, byte formats, state and request commands | none | pure functions, sequential reads | |

What is hard in this code:

* **Recording.** `start()` and `stop()` suspend in `withTimeout`, where an
  operation and a timer race for a gate; the loser goes on. ReplayKit answers
  late, never, or fails by callback after it answered. The automatic stop, the
  failure task and a client's stop race for the same recording, and the process
  may die between any two file operations. A start that timed out must not let
  its late capture run on, or into the next recording.
* **Time.** The clock is `Date`, which may be stepped back; the state machine
  rejects instants before its last event.
* **Lost answers.** `recording stop` is three requests (stop, download, delete)
  on connections of their own. Each may be lost before or after the App handled
  it, another shell may run the same command, the App may restart.
* **Lifecycle.** `stop()` called during `start()`, `start()` during `stop()`,
  two of either, a listener that fails at any time, connections in every state.
* **Views.** Views that declare the same action replace each other between the
  list request and the activation request of one command.
* **Devices and deadlines.** A device is chosen by one tool, looked up in a
  second one's table and connected by a number that may have changed its owner.
  Dialling, an exchange and a body each have a goroutine that goes on when its
  caller gives up, and each must close what it opened; usbmuxd and the App may
  never answer. A check that is late must not be reported as good.
* **Half-done file changes.** A scaffold or an installation that fails, is
  interrupted or killed between two system calls, beside other writers.

What makes each part correct: a session's instants, elapsed time and status
agree; a recording that was handed out stays downloadable until it is deleted
or retention takes it; every capture is somebody's responsibility; every start,
recording and stop ends; no completed recording is lost between device and
computer; one live server at most, owned by the current generation; a
connection always has somebody who will close it, and leads to the device that
was selected; the exit status says whether the artifact is there; an
activation reported as done was done to what was validated; a failed change of
files leaves things as they were, and a user's files are left alone.

## 2. Modules

| Module | Stands for | Uses |
|---|---|---|
| `RecordingEvents` | the value type: guard and result of every event | |
| `RecordingStateMachine` | the machine driven by any events with any instants | `RecordingEvents` |
| `RetentionRule` | the retention promise, on sets | |
| `RecordingRetentionPolicy` | the list algorithm of the code | `RetentionRule` |
| `RecordingCore` | the library of both, which share no state | `RecordingStateMachine`, `RecordingRetentionPolicy` |
| `RecordingCoreProofs` | the theorems of both | |
| `RecordingController` | the actor, its tasks, ReplayKit, files, clock, crashes | `RecordingEvents`, `RetentionRule` |
| `RecordingControllerProofs` | its theorems, and that it implements `RecordingService` | |
| `RecordingService` | abstract: what the recording routes promise a client | |
| `RecordingCommands` | the CLI's start and stop against an App that keeps that promise | `RetentionRule`, `RecordingService` |
| `RecordingCommandsProofs` | its theorems, and that its App keeps the contract | |
| `DebugRuntime` | runtime, generations, server, listener, connections | |
| `DebugBootstrap` | the bootstrap template, or the runtime used directly | `DebugRuntime` |
| `DebugBootstrapProofs` | the theorems of runtime and template | |
| `DebugActions` | registry, views, `actions activate` | |
| `DebugActionsProofs` | its theorems | |
| `ScaffoldTransaction` | `app scaffold` and `init --local`, one system call per step | |
| `LocalInstall` | `scripts/local-install.sh`, one command per step | |
| `FileTransactionProofs` | the theorems of both | |
| `ErrorCodes` | error codes, and the exit status of a command | |
| `DeviceTransport` | `Dial` over USB and TCP, and usbmuxd's table | `ErrorCodes` |
| `ProtocolClient` | `OpenBinary`, the exchange and the body | `DeviceTransport` |
| `Devices` | devicectl's documents, selection and readiness | `ErrorCodes` |
| `ArtifactCommand` | `screenshot capture`, and the download of `recording stop`, from the device to the exit status | `ProtocolClient`, `Devices` |
| `ArtifactCommandProofs` | its theorems, transport and client included | |
| `Configuration` | `config.Load`, and the precedence it promises | |
| `Doctor` | `doctor`, its checks, deadlines and probes, run after run | `Configuration`, `Devices` |
| `DoctorProofs` | its theorems, the configuration included | |
| `MC*` | the instances TLC checks | |

`RecordingService` ties the two halves of recording together. The controller
is proved to implement it (`ImplementsService`, by the mapping phase, offered
recording, set of recordings with both files), and `RecordingCommands`, whose
App is written at that level, is proved to keep to it (`KeepsServiceContract`).

A definition whose comment begins with "Slip" is a plausible mistake in the
definition that follows it. It is not part of the specification; each property
has one such form of one definition under which TLC refutes it (`mutants` in
`PROJECT.json`).

### How state and steps correspond to the code

**`RecordingEvents`.** A record with the fields of the Swift struct; an empty
optional is `None`. `AcceptsX(machine, ...)` is the guard of `apply` for event
X and `X(machine, ...)` the machine it returns; a rejected event throws and
changes nothing, so it is no step. Message texts and byte counts are left out.

**`RecordingRetentionPolicy`.** The same lists in the same order as in the code.
What the standard library's `sorted` and `filter` return is said by `InOrder`:
given the positions that come before each, it lists them all in that order.

**`RecordingController`.** The actor runs one piece of code at a time, so a step
is what lies between two suspension points. `start[id]` and `stop[id]` hold the
suspended call (`frame`), the operation it runs in a task of its own (`op`) and
the gate the operation and the timer race for (`gate`). `autoTask` and
`failTask` are the spawned tasks, `intake` the sample queue with its worker,
`disk` the partial file, the movie and the metadata of each recording, written
and removed in the code's order. `kept` is what `stop()` returned and nobody has
deleted since: it is there for the properties only. `writer` and `intake` of
the code are set and cleared together with `activeID`. The code ignores the
error of every removal but that of a movie deleted on request (`try?`, lines 219, 234,
241, 247-248, 259 and 344), so `RemoveFiles` lets any of the files stay that were to go,
and `stop` may leave behind what it had moved (`DiscardNothing`).

**`RecordingCommands`.** `command[s]` is the command shell `s` runs and
`request[s]` its request with the App: sent, running, answered, lost. A command
that gives up leaves its request to the App. A download ends whole or cut, and
verification compares size and digest. `aged` is what retention removed; of
what it is to remove, any part may fail to go (`Removals`). `ReadRecording` is
`request get` or `request head` of a recording: `file()` runs `cleanup()` first
(`RecordingController.swift` 200-202), which may end the ready phase.

**`DebugRuntime`.** `lifecycle` is the enum of the runtime with its generation.
Each generation has a start task, a stop task and a server; a caller waits for
one of the tasks and goes on as the code does afterwards. `events` holds
listener states on their way to the server's actor. Of the recorder there is
the phase that `shutDown` looks at, and whether the wall clock was stepped back
since the recording began: the controller may then refuse to stop
(`RecordingController.swift` 161-162), and `shutDown` drops the error
(`APIOSDebugRuntime.swift` 261). `"stuck"` is a session that is over though its
end was refused for the same reason.

**`DebugBootstrap`.** The App is integrated in one of two ways, chosen
initially: directly, where the steps are those of `DebugRuntime`, or through the
template. Each start of the template makes a new runtime, so the generations of
`DebugRuntime` stand for its instances, each of which is started once and
stopped at most once; `lifecycle` is then the template's. `settleStart` runs for
every caller that waits for the start, and each of them may be the one that
starts the stop. `overlapped` only records, for `StartLeavesRunning`, which
calls of start() shared their time with a stop().

**`DebugActions`.** `entries` is the dictionary of the registry, `token` the
state of each view's modifier. onAppear registers and onDisappear unregisters
by token; a view that was replaced while it stays on screen remains
unregistered after its successor leaves, as in the code.

**`ScaffoldTransaction`.** `tree` says per path what is there and who created
it, which is what `os.SameFile` distinguishes. A run plans, compares file by
file, stages, then enters or makes each directory and links each file; on an
error it rolls back what it created, the files and then the directories. For
each path `removeIfSame` is two steps, the Lstat with the comparison
(`LookAtTarget`) and the Remove (`RemoveTarget`), with other runs and the user in
between, and either may fail, which the code ignores (`NotRemoved`). The user
replaces a file (`UserWrites`), saves into it and keeps its inode (`UserEdits`),
or removes it. A directory goes on the list of what was created only when it has been
made, opened and looked at; if one of the last two calls fails, it stays
unlisted (`MakeDirectory`, `scaffold.go` 534-551). `init --local` is this transaction with one file.

**`LocalInstall`.** Each item has a place and a backup; `backupIntent` and
`placeIntent` are the flags the script sets before a move. A failing command or
a signal leads to the clean-up, which runs under errexit with the traps reset
and can therefore break off itself. `reserved` is where mktemp has left the
empty file or directory that gives a backup its name. Left out are the parent
directories that `mkdir -p` makes and a failed installation leaves (line 123).

**`DeviceTransport`, `ProtocolClient`.** `worker` is the goroutine of `Dial`,
`dial` its loop, `opened` and `results` its channels; each case of the select is
a step. `socket` is the connection to usbmuxd, which becomes the one to the
device. usbmuxd is external: its entries come and go at any time, and every
attachment has a new number. `http` is the exchange; net/http is external too,
and whether it ends the context of a dial that nobody waits for any more is left
open. Of an answer there is what the checks of `OpenBinary` look at, in their
order; of a body its length in chunks and whether its content is whole, corrupt
or malformed, which is what the digest and the validators tell apart.

**`ArtifactCommand`.** `command` goes through the statements of the command, one
call of the environment per step; `config.deadline` tells the download of
`recording stop`, which runs under `recordingContext`, from `screenshot
capture`, whose context is never done. Two branches of the code cannot be
reached and are left out: a length that differs after a complete body
(`screenshot.go` 54-62), and an error when a body that was read to its end is
closed (`recording.go` 108).

**`Configuration`, `Devices`, `ErrorCodes`.** Operators. A source of the
configuration is a function from fields to what it sets; of a devicectl document
there is what the parsers read.

**`Doctor`.** `step` is the check that runs, `ctx` its context. The processes and
connections of a check may succeed or fail in every way the code tells apart;
the deadline may pass before, during or after them, and `Finish` is what `Run`
does with the result. `usb` is the goroutine of this run's probe, `orphan` the
listing of an earlier one, `slot` the channel both use. What stays from one run
to the next in the same process is `orphan` and `slot`.

## 3. Runs

On two workers `debug_runtime` takes about three minutes and every other run less
than two. Deadlock is
checked in the runs of the state machine, the artifact command and doctor;
elsewhere the modelled activity really ends
(identifiers, clocks and runs are used up, or everybody is content).

| Run | Question | Bounds, and why they are enough |
|---|---|---|
| `state_machine` | do arbitrary events at arbitrary instants keep a session consistent, and does the list algorithm of retention compute the rule? | 2 identifiers, a few instants on both sides of both timeouts, useless durations included. For the retention policy every list of up to 4 entries over 3 identifiers that repeat, instants that are equal, an age and a limit of 1: the smallest values with an entry below, at and above each limit. The theorems lift both bounds. |
| `controller_safety` | do recordings stay downloadable, is every capture somebody's, is the service implemented? | 2 recordings, so that tasks of the first meet the second; retention, timeouts and duration 1 on a clock of 0..1; any removal may fail; one crash or one step back of the clock (`OneDisturbance`), after a step back no further recording. The `VIEW` drops only what no later guard reads. |
| `controller_liveness` | is every start and stop answered, does a recording end? | 1 recording, 1 crash, a clock that is never stepped back: the run says nothing about tasks of an earlier recording (`controller_safety` does) or about a step back |
| `capture_orphaned` | finding 1 | 1 recording |
| `recording_commands` | is a recording ever lost, torn, or reported deleted when it is not? | 2 shells, 2 recordings, limit 1, 1 restart: overlapping commands, and a first recording that is over the limit or too old when the second is made; any removal by retention may fail |
| `ready_trap` | finding 2 | 1 shell |
| `debug_runtime` | do overlapping starts and stops leak a server, shut down a running one, or hang, with and without the template? | 2 callers, 2 generations, 2 connections: a call of an old generation resumes in a new one; with the template a third caller, so that a start, a stop and one that still settles an older start meet; the clock may be stepped back in any recording |
| `debug_actions` | can a registration outlive its view, or a command report a success that did not happen? | 3 views, two of which declare the same identifier; 1 command; generation up to 6, so that an identifier changes hands repeatedly between two requests. Commands do not influence each other. The theorems lift the bound. |
| `scaffold_transaction` | is a user's file touched outside two named cases, does a failed run leave files or directories, is success complete? | 2 runs with overlapping files, nested directories, a user who changes one file in one of three ways at any time, a failing call and a kill anywhere, up to 2 paths per run that its roll-back fails to remove, so that a file and a directory, or two directories, stay; symmetric in the runs. The theorems lift both bounds. |
| `local_install` | does a failed installation change anything, can the former version be lost? | any initial state of the six places; 2 runs, so that the second meets what the first left |
| `artifact_command` | does a connection leak, can another device answer, is a file torn or replaced, does the exit status lie, does a deadline end the command? | 2 devices and their attachments over cable and network, numbers up to 3, so that the selected device is unplugged and another one takes its place between any two steps; a body of at most 1 chunk before its end, so that a read can be waiting when the deadline passes |
| `doctor` | does the configuration follow the precedence, the exit status the report, and does a hanging usbmuxd hold up a run? | every pair of settings of a list that has every field, valid, invalid and empty, in any two sources or the same one; listings of up to 2 devices, available or not, paired or not; any number of runs |

Properties, briefly:

* `NoStaleSession`, `InstantsOrdered`, `ElapsedIsExact`,
  `LastEventNeverMovesBack`: fields of one session never leak into the next,
  whatever instants are passed, and the clamp in `elapsed(at:)` hides nothing.
* `DeletesWhatTheRuleSays`: the sorts, filters and de-duplications yield exactly
  the rule, each identifier once.
* `KeptIsDownloadable`: both files stay, through later starts, failures,
  cleanups and crashes, and what is ready can be downloaded.
  `RecordingWillBeStopped`: a running recording has its automatic stop armed,
  and a failed one a task on its way, in every order of callback, publication
  and failure task. `OnlyTimeoutOrphansCapture`: finding 1 is the only way to an
  unattended capture. Both except a wall clock that was stepped back.
  `StartSettles`, `StopSettles`, `RecordingEnds`: nothing waits for ever.
* `NothingLost`, `ArtifactsAreWhole`, `OneCommandPerRecording`: the
  three-request protocol under loss; a reported deletion is real.
* `ServerBelongsToLifecycle`, `AnsweredRecordingEnds`, `CallsReturn`: the shared
  lifecycle; a recording that was answered does not run on in a stopped runtime,
  unless the clock was stepped back during it. `StopLeavesNoServer`: what stop()
  found alive or on its way is down when it returns. `StartLeavesRunning`: a start() of the template that no stop()
  overlapped leaves running the very runtime it waited for.
* `NoActionOutlivesItsView`, `OnlyOwnerOrSuccessorEndsRegistration`,
  `ReportIsTrue`: the registry, and why comparing generations is enough.
* `UserFilesUntouched`, `FailedRunCleansUp`, `SuccessIsComplete`: the
  transaction. A run that ends with an error leaves none of its files but those
  whose Lstat or Remove failed (`unremoved`), and of its directories only three
  kinds, all stated in the property: one that somebody else came to use
  meanwhile, one that was not removed for that reason, and one that was made
  but not opened, with those above any of these. (Two failing runs may so leave an
  empty directory: the one that made it cannot remove it because of a file of the other, which the other then
  takes back.) What the user put into the project stays, except in two cases
  (`TakenForOwn`): they saved into a file that the run had linked, which
  `os.SameFile` cannot tell, or put another in its place between the two calls
  of `removeIfSame`. The test of the rollback (`transaction_internal_test.go` 65-91) covers a run that is
  alone and whose calls fail elsewhere. `SuccessIsComplete` has one exception: run
  B finds a file "unchanged" that run A has just created, and A then rolls it
  back; B reports success without it.
* `FailedInstallChangesNothing`, `FormerVersionSurvives`,
  `CommittedInstallIsComplete`: the script, killed anywhere. Nothing is changed
  means each of the six places, and no staged copy and no backup beside them.
* `SelectedDeviceAnswers`: the bytes come from the selected device over its
  cable. `SocketHasAnOwner`: an open connection always has somebody who will
  close it, and what `Dial` hands over is open. `ExitTellsTheTruth`: status 0
  means a verified file and a printed result, another one after the commit only
  a failed output; no temporary file is forgotten.
  `DestinationIsNeverReplaced`. `DeadlinesEndWaiting`: a deadline ends a dial and
  a command, though nobody answers any more.
* `LoadFollowsPrecedence`: the statements of `Load` in their order give every
  field its most specific value, and refuse exactly what is malformed or does
  not fit together. `HealthyMeansUsable`: a healthy doctor has reached the App on
  the device that the commands' own selection yields, or nothing is configured
  and nothing connected, which doctor only warns about. `ExitFollowsReport`:
  deadlines included. `OneListingAtATime`, `DoctorEnds`: the probe's slot.

### Fairness

* Controller: weak fairness for every task that is ready (the Swift executor
  runs it) and for timers. None for callers, ReplayKit, samples, the clock or
  crashes. The automatic stop sleeps in `Task.sleep`, whose clock is monotonic:
  it becomes due whatever the wall clock does.
* Runtime: weak fairness for tasks and resumed calls; a listener that was
  started reports ready or failed; a stop of the recording ends, which is
  `StopSettles`. `NetworkDebugServer` ignores the listener's `.waiting` state
  (lines 141-142), so a listener that waits for ever would make `start()` and
  `stop()` hang: `CallsReturn` assumes that it does not.
* The template: in addition, weak fairness for its callers on the main actor.
* Artifact command: weak fairness for goroutines that can run, for the loop of
  `Dial`, for the deadline of a context, for calls on a connection that was
  closed and for the local steps of the command. None for usbmuxd once it is
  open, for devicectl or for the App: they may stay silent for ever. A request
  or a TCP dial whose context is done returns, which net/http and net promise.
  The screenshot has no deadline, so nothing is claimed of one that hangs.
* Doctor: weak fairness for the run and for the deadline of a check. Processes
  and connections end with their context (`exec.CommandContext`, the client).
  Nothing makes usbmuxd answer: a listing may run for ever.
* Commands (`ready_trap` only): the App answers, commands go on, time passes,
  and a user keeps trying both commands. This makes the refutation stronger:
  not even a persistent user gets out.

## 4. Findings

1. `capture_orphaned`. The completion of a timed-out start is treated as late
   only if the machine has left `starting` (`RecordingController.swift`
   325-334). If ReplayKit completes after the timeout has won the gate and
   before `start()` resumes, the operation settles as current, `start()` fails,
   and nobody stops the capture. A test states that a late completion is
   ignored and its capture stopped.
2. `ready_trap`. `start()` applies `startRequested`, which `ready` refuses,
   before it runs `cleanup()`; `stop()` is refused in `ready` as well. After an
   automatic stop, a lost answer to stop or a failed deletion, the two commands
   have no way on, although the CLI says that cleanup will be retried. It is the
   two commands that have none: a read of a recording by `request get` runs
   `cleanup()` (lines 200-202) and ends the phase once the recording has
   expired, and so does a restart of the App.

Seen while modelling, not the subject of a run: after the wall clock is stepped
back during a recording, the machine rejects `stop`, `stopIfCurrent` discards
the error (`RecordingController.swift` 306) and its task ends, so that the
recording does not end at its maximum duration (`RecordingEnds` fails once the
instance allows a step back), and a runtime that shuts down then leaves it running
(`APIOSDebugRuntime.swift` 261, the exception of `AnsweredRecordingEnds`); a scaffold
run that rolls back removes what the user saved into a file it had linked
(`scaffold.go` 637); in the template, a stop() that is still in its
loop when start() is called may stop what that start() started, and start() then
returns without an error though nothing runs; `docs/integration.md` line 94 says that
apply reports all conflicts, while `Apply` returns one error with a hint; a
listener that fails after it was ready leaves the runtime "running"
(`APIOSDebugRuntime.swift` 183); `local-install.sh` takes no lock, and a failure
before its traps are set leaves staging paths behind; a directory that the scaffold made
and could not open stays behind, and so do those above it, because it is not on
the list of what the run created (`scaffold.go` 534-551).

## 5. Proofs

Every safety invariant and every action property of the passing runs is a
theorem, and so are the two refinements. TLAPS
checks them for all values of the constants that satisfy the named `ASSUME`s: any
number of identifiers, callers, shells, connections, devices, files and runs,
any timeouts and any bounds. The bounds of the runs (`MaxClock`, `MaxRestarts`,
`MaxGenerations`, `MaxNumber`, `MaxTouched`, `MaxUnremoved`, `MaxRuns`) are numbers of any size in
the theorems. The assumptions say that those are numbers, that `None` and the
kinds of values differ, and what the paragraphs below name.

Each proof follows one pattern. The property is not inductive, because it
speaks of the end of an exchange and not of the way there; the inductive invariant
adds what is known at every step on the way. It was checked by TLC on the
instance of the run first. There is one lemma per action, or per group of actions
that disturb the same parts, and one step per part of the invariant under it; the
last lemma gathers the actions and the theorems at the end of the module follow.

**`RecordingCoreProofs`** (`NoneAssumption`, `InstantAssumption`,
`RetentionAssumption`, `ListsAssumption`, which say that instants and limits are
numbers and that lists are lists of entries). Of the machine: `TypeCorrect`,
`SessionsStayConsistent`, `InstantsStayOrdered`, `ElapsedCorrect`,
`LastEventMonotone`. The inductive invariant is `SessionInvariant`.
`ElapsedIsExact` is not inductive: that the clamp hides nothing needs the order of
the instants (`InstantsOrdered`), and this needs that a new session starts without
instants of an old one (`NoStaleSession`). `FailPreserves` and
`BeginStoppingPreserves` treat the two results that several events share;
`NextPreserves` has one step per event. `LastEventMonotone` follows from the
invariant, because a start is accepted only in an idle machine, and an idle
machine carries no instant.

Of the policy: `PolicyIsTheRule` and `DeletionsFollowTheRule`, for every list of any
length, and what the rule amounts to. `RuleKeepsTheNewest`: it keeps the newest of
the recordings that have not expired, all of them or as many as the limit
allows. `LimitsAreKept`: after a clean-up at most `MaxReady` identifiers are
left, all of them ready and short of the retention age, which is the promise of
`docs/protocol.md` line 71 ("retained for 30 minutes and at most three ready
recordings"). The controller's `cleanup()` is modelled by the same `RetentionRule`.
The argument needs no induction over lists. In a strict total
order of a finite set the number of those before an element is its rank, and the
ranks are all the numbers below the size of the set (`RanksOfAnOrder`, by counting).
So listing by rank lists everything once and in order (`OrderByRank`,
`InOrderListsByRank`); a sort returns an ordered permutation (`SortedIsOrdered`),
and a filter keeps the order (`FilterSelects`). In an ordered list the first
entry of an identifier is its oldest, so the candidates for the limit stand in
the order of the rule, and the prefix that the code cuts off are those with at
least `MaxReady` newer ones (`OverLimitIsAPrefix`).

**`RecordingControllerProofs`** (`NoneAssumption`, `ControllerAssumption`, which
asks for finitely many identifiers, that are numbers, and a positive maximum
duration): `ControllerTypeCorrect`,
`RecordingsAreKept`, `RecordingsWillEnd`, `OrphansComeFromTheTimeout`,
`ControllerImplementsService`. The invariant is `ControllerInvariant`. `Sessions`
says that the actor's fields agree with the phase and that the one call that
may be suspended is that of the active recording; without it a resumed call
could act on a later session. `Library` says that what was promised has both
files and that the active recording has no metadata before it is ready, which
is why clearing a failed start never takes a promised file. Which removals
succeed does not matter to it: `RemovalEffect` and `DiscardEffect` say that a
removal leaves each file as it was or as it was meant to be. `ClockIsMonotone`
says that without a step back of the clock no event is refused for its instant:
the automatic stop can be relied on only then, and `RecordingWillBeStopped` and
`OnlyTimeoutOrphansCapture` say so in their statements. `Starts` relates the
operation of a start to the gate it races for. The refinement uses the same
lemmas: each action is shown to be a step of `RecordingService` or a stutter
(`ServiceStep`) where it is shown to preserve the invariant.

**`RecordingCommandsProofs`** (`CommandsAssumption`):
`CommandsTypeCorrect`, `RecordingsAreNeverLost`, `SavedReportsAreTrue`,
`CommandsNeverShare`, `AppKeepsTheContract`. `CommandsInvariant` adds to the
three properties that the App works on one start or stop at a time (`Sessions`),
that a running command waits for the request it sent (`Commands`), and what the
App knows when a request names a recording (`Requests`): the answer to a stop is a
recording no other shell has heard of, and a delete is sent only for a
recording that is whole on the computer. The last part is the reason why no order of
lost answers loses a recording.

**`DebugBootstrapProofs`** (`RuntimeAssumption`): `IntegrationTypeCorrect`,
`ServersFollowTheLifecycle`, `StopEndsAnsweredRecordings`,
`StopTakesTheServerDown`, `StartLeavesTheKitRunning`, for the direct integration and
for the template. The lifecycle tells little about a server, the tasks of its
generation do: `IntegrationInvariant` says where a server is by the state of its
start and stop tasks (`ServerFollowsTasks`), and that a generation the
lifecycle has left behind has ended for good (`Over`), so that a call that
resumes late finds nothing to disturb. `Recorder` says that a recording whose start was
answered belongs to a generation whose stop task still has to see it, until the
clock is stepped back: from then on the stop task may be refused, and the theorem
claims nothing. For the
template, `StopHasCaller` says that an instance is stopped only on behalf of a
stop() that has not returned, and `StartKeepsInstance` draws the consequence for
a start() that no stop() overlapped.

**`DebugActionsProofs`** (`ActionsAssumption`): `ActionsTypeCorrect`,
`RegistrationsFollowViews`, `ReportsAreTrue`, `RegistrationsEndProperly`. The
command compares nothing but a generation across two requests, so `ReportIsTrue`
holds only because a generation identifies a registration for ever.
`GenerationsIdentify` says so of every registration that the registry holds or
a command remembers (`Known`); `KnownStep` shows that a step adds at most one,
with a new generation. `TokensAreUnique` is why a view that was replaced cannot
remove its successor, and `ReportsFollowAnswers` that a report is about a
request that was performed.

**`ArtifactCommandProofs`** (`PeerAssumption`): `SelectedDeviceIsThePeer`,
`NoConnectionLeaks`, `ExitIsTruthful`, `DestinationIsSafe`. The assumption says
that a device is not the loopback address. `DialInvariant` and `ExchangeInvariant`
say who holds the connection at each moment: the goroutine of the dial until it
has sent its result, the channel until the loop has received it, the exchange
and then the body from then on; they are inductive only together.
`SelectionInvariant` carries the selected device through target, match and peer.
`CommitInvariant` says how far the file is at each statement of the command, and
`ExitStatusZero` that no error becomes status 0 on the way out.

**`FileTransactionProofs`** (`InstallAssumption`, `ScaffoldAssumption`) has the
theorems of the installation, `FailedInstallsChangeNothing`,
`FormerVersionsSurvive` and `CommittedInstallsAreComplete`, and those of the
scaffold, `ScaffoldTypeCorrect`, `FailedRunsCleanUp`, `SuccessesAreComplete` and
`UserFilesAreUntouched`; it extends both modules, which share no name.
`InstallInvariant` says by the phase of the script how far each item is, up to the
commit (`Forward`), back from a failure (`Backward`) and at the end (`Ending`).
An item is as the run found it (`Kept`), or what was there is in its backup and
the script knows that it may be (`Away`): the intent flags are set before the
move, which is what a signal between the two needs.

`ScaffoldInvariant` says of each run that the files it made are on its list
(`Listed`), and that what it found or made is still in place (`Found`,
`Created`), except for what the user changed or the run that had made it gave up.
Who may undo the work of a run must be part of the invariant, because a run
decides "unchanged" long before it reports success. `DirsInvariant` adds the
directories: whatever exists lies in directories (`TreeShape`); the list of a run
names a directory after those above it (`DirsInOrder`); and a directory that a
run made is on the list until the run has gone through it, and stays only for one of
the reasons in `FailedRunCleansUp` (`DirsAccounted`). The step that matters is the
removal that fails because the directory is not empty (`WhyItStays`): the
run's own files are gone by then and its lower directories come earlier in the
rollback, so what lies in it is somebody else's, or below it lies a directory
of its own that stayed, for a reason which carries over. That the ancestors of
a path form a chain is part of `ScaffoldAssumption`; paths of a file system do.

**`DoctorProofs`** (`SourcesAssumption`): `SlotIsNeverShared`, `ExitTellsTheReport`,
`HealthyReportsAreUsable`, `ConfigurationFollowsPrecedence`. The assumption says
that every configuration has the four kinds of sources, and that only files can be
malformed. `OneListingAtATime` is inductive with the shapes of the probe's
variables (`SlotInvariant`): the slot is held just while a listing runs, waited
for or not, so it can be taken only when none does; `OtherStepsLeaveProbe` disposes
of the checks. The other theorems rest on `DoctorInvariant`: report, first
error, health and exit status agree after every check, late ones included
(`ReportAgrees`, `HealthAgrees`, `ExitAgrees`), and a run without an error knows at
each step which probes were answered and that its device was selected as
`Resolve` selects it (`RunProgress`). That `Load` keeps the precedence is a fact
about operators (`LoadKeepsPrecedence`): the statements, applied from the least
specific source on, leave in every field the setting of the last source that has
one (`AllSourcesApply`), which is the first one in the order of precedence
(`SettingIsTheFirst`).

Model-checked only:

* Liveness: `StartSettles`, `RecordingEnds`, `StopSettles`, `CallsReturn`,
  `DeadlinesEndWaiting`, `DoctorEnds`. Fairness and ENABLED are outside the reach of
  the prover.
* The two findings, which are counterexamples.

## 6. Not modelled

Byte-level HTTP parsing, route matching and authorisation, the contents of
envelopes, headers, MP4 boxes and PNG (functions of one input; their verdicts
are in `ProtocolClient` and `ArtifactCommand`); state, request and devices
commands and the state and screenshot routes (reads that change nothing; the one
that does, `request` of a recording, is `ReadRecording` of `RecordingCommands`); `DoHEAD`,
`recording status`, the choice of a device by its name; wording, redaction and
layout of the output; the demo App and the repository's own checks. Two
installations at the same time are outside `LocalInstall`. Sample contents and
movie encoding are reduced to arrived, queued, configured and finished. The
requests of an App that uses the template are left to the direct integration,
because each of its runtimes has a recording controller of its own.

## 7. Plan

Done: recording (machine, policy, controller, service, commands), runtime and
template, actions, scaffold, installation, transport, client, artifact commands,
configuration, devices, doctor; the proofs of section 5, both refinements of
`RecordingService` included. Every safety invariant and action property of the
passing runs is a theorem. Next:

1. Composition of `DebugRuntime` with `RecordingService` instead of its own
   reduced recorder; with the template, a new controller on the store of an old
   one whose recording is unfinished.
2. The runtime whose listener fails after the start, two installations at the
   same time, and a view that stays unregistered after its successor has gone:
   the hazards without a property in `PROJECT.json`.
