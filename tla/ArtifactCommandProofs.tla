------------------------- MODULE ArtifactCommandProofs -------------------------
(***************************************************************************)
(* The command that brings an artifact to a file, for any devices, any     *)
(* number of attachments and a body of any length.                         *)
(***************************************************************************)
EXTENDS ArtifactCommand, TLAPS

Step == {"resolve", "ready", "request", "open", "opened", "copy", "verify", "link", "unlink",
         "print", "exited", "killed"}

(* What a command may return: a stable code, an error of the JSON encoder  *)
(* or no error                                                             *)
Outcome == StableCode \cup {"plain", "ok"}

(* The shapes of the variables that the commitment of the file needs *)
CommandRecord == [step : Step, device : Udid \cup {None}, error : Outcome]

FileShape ==
    /\ command \in CommandRecord
    /\ config \in [transport : {"usb", "tcp"}, device : Udid \cup {None}, deadline : BOOLEAN]
    /\ temp \in {"none", "some", "stuck"}
    /\ dest \in [owner : {"nobody", "rival", "command"}, from : Entry \cup {None, Loopback},
                 content : Content \cup {"none"}]
    /\ printed \in {"unprinted", "printed", "lost"}

BodyShape ==
    /\ body \in [state : {"none", "open", "closed"}, left : Nat,
                 content : Content \cup {"none"}, reading : BOOLEAN,
                 watcher : {"none", "waiting", "ended"}]

(* The shapes of the connection *)
ConnectionShape ==
    /\ table \in SUBSET Entry
    /\ number \in 1..MaxNumber
    /\ ctx \in {"live", "done"}
    /\ dialCtx \in {"live", "done"}
    /\ dial \in [pc : {"idle", "waiting", "returned"}, target : Udid \cup {None, Loopback},
                 canceled : BOOLEAN, active : BOOLEAN, code : TransportCode \cup {"ok"}]
    /\ worker \in [pc : {"none", "tcp", "opening", "listing", "connecting", "done"},
                   match : Entry \cup {None}]
    /\ results \in TransportCode \cup {"ok", None}
    /\ socket \in [state : {"none", "open", "closed"}, peer : Entry \cup {None, Loopback}]
    /\ http \in {"idle", "dialing", "awaiting", "open", "abandoned", "closed"}

Shape == FileShape /\ BodyShape /\ ConnectionShape

(* How far the file is at each step of the command: the temporary file     *)
(* exists from "copy" on, only a whole body comes to "link", and only      *)
(* "link" puts a file of the command at the destination.                   *)
CommitInvariant ==
    /\ command.step \in {"resolve", "ready", "request", "open", "opened"} => temp = "none"
    /\ command.step \in {"print", "exited"} => temp # "some"
    /\ command.step = "link" => body.content = "whole"
    /\ dest.owner = "command" =>
          command.step \in {"unlink", "print", "exited", "killed"} /\ dest.content = "whole"
    /\ command.step \in {"unlink", "print"} => dest.owner = "command"
    /\ command.step \notin {"exited", "killed"} => printed = "unprinted"
    /\ command.step = "exited" =>
          /\ dest.owner = "command" <=> printed # "unprinted"
          /\ command.error = "ok" <=> printed = "printed"

(* Who holds the connection: the dial's goroutine until it has sent its    *)
(* result, the channel until the loop has received it, and the exchange    *)
(* from then on.                                                           *)
DialInvariant ==
    /\ http = "idle" <=> dial.pc = "idle"
    /\ dial.pc = "idle" => worker.pc = "none" /\ socket = NoSocket
    /\ worker.pc \in {"none", "tcp", "opening"} => results = None /\ socket = NoSocket
    /\ worker.pc \in {"tcp", "opening", "listing", "connecting"} =>
          dial.pc = "waiting" /\ results = None
    /\ worker.pc \in {"listing", "connecting"} => socket.state # "none"
    /\ worker.pc = "done" => dial.pc = "returned" \/ results # None
    /\ dial.pc = "waiting" => dial.code = "ok"
    /\ dial.pc = "returned" => worker.pc = "done"
    /\ results # None => dial.pc = "waiting" /\ worker.pc = "done"
    /\ opened \/ dial.active => worker.pc \in {"listing", "connecting", "done"}
    /\ dial.canceled => dialCtx = "done"
    /\ results = "ok" /\ dialCtx = "live" => socket.state = "open"
    /\ results \notin {None, "ok"} => socket.state # "open"
    /\ dial.pc = "returned" => (dial.code = "ok" \/ socket.state # "open")
    /\ dial.pc = "returned" /\ dial.code = "ok" /\ http # "closed" => socket.state = "open"

ExchangeInvariant ==
    /\ command.step \in {"resolve", "ready", "request"} => http = "idle"
    /\ http \in {"dialing", "awaiting"} => command.step = "open"
    /\ http = "open" => command.step \in {"opened", "copy"}
    /\ http = "open" <=> body.state = "open"
    /\ http \in {"awaiting", "open"} => dial.pc = "returned" /\ dial.code = "ok"
    /\ http = "closed" => dial.pc = "returned" /\ socket.state # "open"

(* The device that was selected is the one that is dialed, matched and     *)
(* connected to.                                                           *)
SelectionInvariant ==
    /\ config.transport = "usb" =>
          /\ command.step \in {"ready", "request"} \/ dial.pc # "idle" =>
                command.device \in Udid /\ config.device \in {None, command.device}
          /\ dial.pc # "idle" => dial.target = command.device
          /\ worker.pc # "tcp"
          /\ worker.pc = "connecting" =>
                worker.match \in Entry /\ worker.match.udid = dial.target /\ worker.match.type = "USB"
          /\ socket.peer # None =>
                socket.peer \in Entry /\ socket.peer.udid = dial.target /\ socket.peer.type = "USB"
    /\ config.transport = "tcp" =>
          /\ worker.pc \in {"none", "tcp", "done"}
          /\ socket.peer \in {None, Loopback}

CommandInvariant ==
    /\ Shape
    /\ CommitInvariant
    /\ DialInvariant
    /\ ExchangeInvariant
    /\ SelectionInvariant

--------------------------------------------------------------------------------
(* Execute: the exit status is 0 for a success only; no error is mapped to *)
(* 0 on the way.                                                           *)
LEMMA ExitStatusZero ==
  ASSUME NEW err
  PROVE  Execute(err) = 0 <=> err = "ok"
  BY DEF Execute, ExitCode, StableCommandError, CodeOf, StableCode, DeviceCode, TransportCode,
         AppCode, LocalCode

(* No reader of a failed exchange or of a failed devicectl takes it for a  *)
(* success.                                                                *)
LEMMA ErrorsAreErrors ==
  ASSUME NEW err
  PROVE  /\ ReadError(err) \in StableCode
         /\ DoError(err) \in StableCode
         /\ MapDeviceCtlError(err) \in StableCode
  <1>1. ReadError(err) \in StableCode
    BY DEF ReadError, StableCode, TransportCode, AppCode
  <1>2. DoError(err) \in StableCode
    BY DEF DoError, CodeOf, StableCode, TransportCode
  <1>3. MapDeviceCtlError(err) \in StableCode
    BY DEF MapDeviceCtlError, StableCode, DeviceCode, TransportCode
  <1> QED
    BY <1>1, <1>2, <1>3

LEMMA OkIsNoCode == "ok" \notin StableCode
  BY DEF StableCode, DeviceCode, TransportCode, AppCode, LocalCode

(* Discoverer.Resolve answers with an error, or with one attached device   *)
(* that is the configured one if there is one.                             *)
LEMMA ResolvePicks ==
  ASSUME NEW udid,
         Resolve(ParseList(Listed).devices, udid, None).code = "ok"
  PROVE  LET choice == Resolve(ParseList(Listed).devices, udid, None)
             u == CHOOSE u \in Udid : \E d \in choice.device : d.udid = u
         IN  u \in Udid /\ udid \in {None, u}
  <1> DEFINE devices == ParseList(Listed).devices
             matches == {d \in devices : d.available /\ (udid = None \/ d.udid = udid)}
             choice == Resolve(devices, udid, None)
  <1>1. devices \subseteq Listed
    BY DEF ParseList
  <1>2. choice.device = matches /\ matches # {}
    BY DEF Resolve
  <1>3. PICK d \in matches : TRUE
    BY <1>2
  <1>4. d.udid \in Udid
    BY <1>1, <1>3 DEF Listed
  <1>5. \E u \in Udid : \E e \in choice.device : e.udid = u
    BY <1>2, <1>3, <1>4
  <1> HIDE DEF choice
  <1>6. PICK u \in Udid : u = CHOOSE x \in Udid : \E e \in choice.device : e.udid = x
    BY <1>5
  <1>7. \E e \in choice.device : e.udid = u
    BY <1>5, <1>6
  <1>8. udid \in {None, u}
    BY <1>2, <1>7
  <1> QED
    BY <1>6, <1>8 DEF choice

(* The codes of a selection and of a check of the device *)
LEMMA DeviceOutcomes ==
  ASSUME NEW devices, NEW udid, NEW device, NEW answer
  PROVE  /\ Resolve(devices, udid, None).code \in StableCode \cup {"ok"}
         /\ CheckReady(device, answer) \in StableCode \cup {"ok"}
  <1>1. Resolve(devices, udid, None).code \in StableCode \cup {"ok"}
    BY DEF Resolve, StableCode, DeviceCode
  <1>2. CheckReady(device, answer) \in StableCode \cup {"ok"}
    BY ErrorsAreErrors DEF CheckReady, StableCode, DeviceCode, AppCode, LocalCode
  <1> QED
    BY <1>1, <1>2

--------------------------------------------------------------------------------
USE PeerAssumption

(* What a command's step does to the record of the command *)
LEMMA StepChanges ==
  ASSUME FileShape, NEW step \in Step, GoTo(step)
  PROVE  /\ command' \in CommandRecord
         /\ command'.step = step
         /\ command'.device = command.device
  BY DEF FileShape, GoTo, CommandRecord

LEMMA ReturnChanges ==
  ASSUME FileShape, NEW error \in Outcome, Returns(error)
  PROVE  /\ command' \in CommandRecord
         /\ command'.step = "exited"
         /\ command'.error = error
         /\ command'.device = command.device
  <1>1. "exited" \in Step
    BY DEF Step
  <1> QED
    BY <1>1 DEF FileShape, Returns, CommandRecord

(* The variables keep their shapes. *)
LEMMA ShapesPreserved ==
  ASSUME Shape, [Next]_vars
  PROVE  Shape'
  <1> USE DEF Shape, fileVars, dialVars, clientVars, environmentVars
  <1>s. Step = {"resolve", "ready", "request", "open", "opened", "copy", "verify", "link",
                "unlink", "print", "exited", "killed"}
    BY DEF Step
  <1>o. /\ StableCode \subseteq Outcome
        /\ {"plain", "ok", "config_invalid", "io_failure", "protocol_mismatch",
            "artifact_too_large", "screenshot_failed", "recording_not_available",
            "artifact_checksum_mismatch"} \cup AppCode \subseteq Outcome
    BY DEF Outcome, StableCode, AppCode, LocalCode
  <1>f. ASSUME NEW error \in Outcome, Fails(error)
        PROVE  Shape'
    <2>1. command' \in CommandRecord
      BY <1>f, ReturnChanges DEF Fails
    <2>2. FileShape'
      BY <1>f, <2>1 DEF Fails, FileShape, RemoveTemp
    <2>3. BodyShape'
      BY <1>f DEF Fails, BodyShape, CloseBody, Closed
    <2>4. ConnectionShape'
      BY <1>f DEF Fails, ConnectionShape, CloseBody
    <2> QED
      BY <2>2, <2>3, <2>4
  <1>g. ASSUME \/ \E step \in Step : GoTo(step)
               \/ \E error \in Outcome : Returns(error),
               UNCHANGED <<config, fileVars>>
        PROVE  FileShape'
    <2>1. command' \in CommandRecord
      BY <1>g, StepChanges, ReturnChanges
    <2> QED
      BY <1>g, <2>1 DEF FileShape
  <1>c. ASSUME UNCHANGED <<environmentVars, dialVars, ctx, http>>
        PROVE  ConnectionShape'
    BY <1>c DEF ConnectionShape
  <1>b. ASSUME UNCHANGED body
        PROVE  BodyShape'
    BY <1>b DEF BodyShape
  <1>1. CASE ResolveTCP
    <2>1. FileShape'
      BY <1>1, <1>g, <1>s, <1>o DEF ResolveTCP
    <2> QED
      BY <1>1, <1>b, <1>c, <2>1 DEF ResolveTCP
  <1>2. CASE ResolveUSB
    <2> DEFINE choice == Resolve(ParseList(Listed).devices, config.device, None)
               u == CHOOSE u \in Udid : \E d \in choice.device : d.udid = u
    <2>1. UNCHANGED <<environmentVars, dialVars, clientVars, config, fileVars>>
      BY <1>2, Zenon DEF ResolveUSB
    <2>2. \/ choice.code = "ok" /\ command' = [command EXCEPT !.step = "ready", !.device = u]
          \/ Returns(choice.code)
          \/ \E err \in DevicectlFailure : Returns(MapDeviceCtlError(err))
          \/ \E err \in {"io_failure", "protocol_mismatch"} : Returns(err)
      BY <1>2 DEF ResolveUSB
    <2>3. CASE choice.code = "ok" /\ command' = [command EXCEPT !.step = "ready", !.device = u]
      <3>1. u \in Udid
        BY <2>3, ResolvePicks
      <3> HIDE DEF u
      <3>2. command' \in CommandRecord
        BY <2>3, <3>1, <1>s DEF FileShape, CommandRecord
      <3> QED
        BY <2>1, <3>2, <1>b, <1>c DEF FileShape
    <2>4. CASE \E error \in Outcome : Returns(error)
      BY <2>1, <2>4, <1>b, <1>c, <1>g
    <2>5. choice.code \in Outcome
      BY DeviceOutcomes, <1>o DEF Outcome
    <2> HIDE DEF choice, u
    <2> QED
      BY <2>2, <2>3, <2>4, <2>5, <1>o, ErrorsAreErrors
  <1>3. ASSUME NEW answer, CheckDevice(answer)
        PROVE  Shape'
    <2>1. \E code \in Outcome : GoTo("request") \/ Returns(code)
      BY <1>3, DeviceOutcomes, <1>o DEF CheckDevice, Outcome
    <2>2. UNCHANGED <<environmentVars, dialVars, clientVars, config, fileVars>>
      BY <1>3 DEF CheckDevice
    <2> QED
      BY <2>1, <2>2, <1>b, <1>c, <1>g, <1>s
  <1>4. CASE SendRequest
    <2>1. FileShape' /\ BodyShape'
      BY <1>4, <1>b, <1>g, <1>s DEF SendRequest, Send
    <2>2. PICK target \in Udid \cup {None, Loopback} : Send(target)
      BY <1>4 DEF SendRequest, FileShape, CommandRecord
    <2>3. dial' = [pc |-> "waiting", target |-> target, canceled |-> FALSE, active |-> FALSE,
                   code |-> "ok"]
      BY <2>2 DEF Send, Dial, NoDial
    <2>4. /\ worker' = [worker EXCEPT !.pc = "tcp"] \/ worker' = [worker EXCEPT !.pc = "opening"]
          /\ http' = "dialing"
          /\ UNCHANGED <<environmentVars, dialCtx, results, socket, ctx>>
      BY <1>4, <2>2 DEF SendRequest, Send, Dial
    <2>5. ConnectionShape'
      BY <2>3, <2>4 DEF ConnectionShape
    <2> QED
      BY <2>1, <2>5
  <1>5. CASE RequestFails
    <2>1. \E error \in Outcome : Returns(error)
      BY <1>5, <1>o, ErrorsAreErrors DEF RequestFails
    <2>2. FileShape'
      BY <1>5, <2>1, <1>g DEF RequestFails
    <2>3. BodyShape' /\ ConnectionShape'
      BY <1>5 DEF RequestFails, ExchangeFails, Refuse, RefuseUnread, CloseSocket, BodyShape,
                  ConnectionShape
    <2> QED
      BY <2>2, <2>3
  <1>6. CASE ResponseOpens
    <2>1. FileShape'
      BY <1>6, <1>g, <1>s DEF ResponseOpens
    <2>2. BodyShape'
      BY <1>6 DEF ResponseOpens, Open, BodyShape
    <2>3. ConnectionShape'
      BY <1>6 DEF ResponseOpens, Open, ConnectionShape
    <2> QED
      BY <2>1, <2>2, <2>3
  <1>8. CASE ResponseIsUnexpected
    BY <1>8, <1>f, <1>o DEF ResponseIsUnexpected
  <1>9. CASE CreateTemp
    <2>1. CASE Fails("io_failure")
      BY <2>1, <1>f, <1>o
    <2>2. CASE temp' = "some" /\ GoTo("copy")
      <3>1. command' \in CommandRecord
        BY <2>2, <1>s, StepChanges
      <3>2. UNCHANGED <<environmentVars, dialVars, clientVars, config, dest, printed>> \/ Fails("io_failure")
        BY <1>9 DEF CreateTemp
      <3>3. CASE UNCHANGED <<environmentVars, dialVars, clientVars, config, dest, printed>>
        <4>1. FileShape'
          BY <2>2, <3>1, <3>3 DEF FileShape
        <4> QED
          BY <3>3, <4>1, <1>b, <1>c
      <3> QED
        BY <2>1, <3>2, <3>3
    <2> QED
      BY <1>9, <2>1, <2>2 DEF CreateTemp
  <1>10. CASE CopyReads
    <2>1. FileShape' /\ ConnectionShape'
      BY <1>10, <1>c DEF CopyReads, BeginRead, ReadChunk, FileShape
    <2>2. CASE BeginRead
      BY <2>1, <2>2 DEF BeginRead, BodyShape
    <2>3. CASE ReadChunk
      <3>1. body.left - 1 \in Nat
        BY <2>3 DEF ReadChunk, BodyShape
      <3>2. BodyShape'
        BY <2>3, <3>1 DEF ReadChunk, BodyShape
      <3> QED
        BY <2>1, <3>2
    <2> QED
      BY <1>10, <2>2, <2>3 DEF CopyReads
  <1>11. CASE CopyEnds
    <2>1. FileShape'
      BY <1>11, <1>g, <1>s DEF CopyEnds
    <2>2. BodyShape'
      BY <1>11 DEF CopyEnds, ReadEnd, Closed, BodyShape
    <2>3. ConnectionShape'
      BY <1>11 DEF CopyEnds, ReadEnd, CloseSocket, ConnectionShape
    <2> QED
      BY <2>1, <2>2, <2>3
  <1>12. CASE CopyFails
    BY <1>12, <1>f, <1>o, ErrorsAreErrors DEF CopyFails
  <1>13. CASE Verify
    BY <1>13, <1>b, <1>c, <1>f, <1>g, <1>s, <1>o DEF Verify
  <1>14. CASE Link
    <2>1. CASE Fails("io_failure")
      BY <2>1, <1>f, <1>o
    <2>2. CASE dest' = Artifact /\ GoTo("unlink") /\ UNCHANGED <<config, temp, printed>>
      <3>1. command' \in CommandRecord
        BY <2>2, <1>s, StepChanges
      <3>2. FileShape'
        BY <2>2, <3>1 DEF FileShape, BodyShape, ConnectionShape, Artifact
      <3> QED
        BY <1>14, <3>2, <1>b, <1>c, <2>1 DEF Link
    <2> QED
      BY <1>14, <2>1, <2>2 DEF Link
  <1>15. CASE Unlink
    <2>1. command' \in CommandRecord
      BY <1>15, <1>s, StepChanges DEF Unlink
    <2> QED
      BY <1>15, <2>1, <1>b, <1>c DEF Unlink, RemoveTemp, FileShape
  <1>16. CASE PrintResult
    <2>1. command' \in CommandRecord
      BY <1>16, <1>o, ReturnChanges DEF PrintResult
    <2> QED
      BY <1>16, <2>1, <1>b, <1>c DEF PrintResult, FileShape
  <1>17. CASE Worker
    <2>1. FileShape' /\ BodyShape'
      BY <1>17 DEF Worker, Background, FileShape, BodyShape
    <2>2. ConnectionShape'
      BY <1>17 DEF Worker, Background, WorkerStep, OpenMux, ListEntries, Connect, WorkerSends,
                   Matches, CloseSocket, ConnectionShape, TransportCode
    <2> QED
      BY <2>1, <2>2
  <1>18. CASE Loop
    <2>1. FileShape' /\ BodyShape'
      BY <1>18 DEF Loop, Background, FileShape, BodyShape
    <2>2. UNCHANGED <<environmentVars, clientVars>>
      BY <1>18 DEF Loop, Background
    <2>3. CASE ReceiveOpened \/ ReceiveDone
      BY ZenonT(30), <2>1, <2>2, <2>3 DEF ReceiveOpened, ReceiveDone, CloseSocket, ConnectionShape
    <2>4. CASE ReceiveResult
      <3>1. PICK code \in TransportCode \cup {"ok"} :
                 dial' = [dial EXCEPT !.pc = "returned", !.code = code]
        BY <2>4 DEF ReceiveResult, ConnectionShape, TransportCode
      <3> QED
        BY ZenonT(30), <2>1, <2>2, <2>4, <3>1 DEF ReceiveResult, CloseSocket, ConnectionShape
    <2>5. CASE DialTCP
      <3>1. \E code \in TransportCode \cup {"ok"} :
               \/ dial' = [dial EXCEPT !.pc = "returned", !.code = code]
               \/ dial' = [dial EXCEPT !.pc = "returned"]
        BY <2>5 DEF DialTCP, TransportCode
      <3>2. socket' \in {socket, [state |-> "open", peer |-> Loopback]}
        BY <2>5 DEF DialTCP
      <3>3. worker' = [worker EXCEPT !.pc = "done"] /\ UNCHANGED <<dialCtx, results>>
        BY <2>5 DEF DialTCP
      <3>4. dial' \in [pc : {"idle", "waiting", "returned"}, target : Udid \cup {None, Loopback},
                       canceled : BOOLEAN, active : BOOLEAN, code : TransportCode \cup {"ok"}]
        BY ZenonT(30), <3>1 DEF ConnectionShape
      <3> QED
        BY <2>1, <2>2, <3>2, <3>3, <3>4 DEF ConnectionShape
    <2> QED
      BY <1>18, <2>3, <2>4, <2>5 DEF Loop, Background, LoopStep
  <1>19. CASE Exchange
    BY <1>19 DEF Exchange, Background, Connected, EndDialContext, CloseLateConnection, FileShape,
                 BodyShape, ConnectionShape
  <1>20. CASE Watcher
    <2>1. FileShape' /\ BodyShape'
      <3>0. UNCHANGED <<config, command, fileVars>>
        BY <1>20, Zenon DEF Watcher, Background
      <3>1. FileShape'
        BY <3>0 DEF FileShape
      <3>2. BodyShape'
        BY <1>20 DEF Watcher, Background, Watch, BodyShape
      <3> QED
        BY <3>1, <3>2
    <2>2. ConnectionShape'
      BY <1>20 DEF Watcher, Background, Watch, CloseSocket, ConnectionShape
    <2> QED
      BY <2>1, <2>2
  <1>21. CASE DeadlinePasses
    BY <1>21 DEF DeadlinePasses, FileShape, BodyShape, ConnectionShape
  <1>22. CASE World
    BY <1>22 DEF World, Attach, Detach, Entry, ConnectionType, FileShape, BodyShape,
                 ConnectionShape
  <1>23. CASE RivalCreates
    BY <1>23 DEF RivalCreates, Foreign, Absent, FileShape, BodyShape, ConnectionShape
  <1>24. CASE Kill
    <2>1. FileShape'
      BY <1>24, <1>g, <1>s DEF Kill
    <2>2. BodyShape'
      BY <1>24 DEF Kill, NoBody, BodyShape
    <2>3. ConnectionShape'
      BY <1>24 DEF Kill, NoDial, NoWorker, NoSocket, ConnectionShape
    <2> QED
      BY <2>1, <2>2, <2>3
  <1>25. CASE UNCHANGED vars
    BY <1>25 DEF vars, FileShape, BodyShape, ConnectionShape
  <1> QED
    BY <1>1, <1>2, <1>3, <1>4, <1>5, <1>6, <1>8, <1>9, <1>10, <1>11, <1>12, <1>13, <1>14, <1>15,
       <1>16, <1>17, <1>18, <1>19, <1>20, <1>21, <1>22, <1>23, <1>24, <1>25
       DEF Next, CommandStep, Terminated

--------------------------------------------------------------------------------
(* A step of the command that ends with an error before the link leaves    *)
(* neither a temporary file nor a destination of its own.                  *)
LEMMA FailureCommitsNothing ==
  ASSUME Shape, CommitInvariant, NEW error \in StableCode, Returns(error),
         command.step \notin {"unlink", "print", "exited", "killed"},
         temp' # "some", UNCHANGED <<dest, printed>>
  PROVE  CommitInvariant'
  <1>1. command'.step = "exited" /\ command'.error = error
    BY ReturnChanges DEF Shape, Outcome
  <1>2. error # "ok"
    BY OkIsNoCode
  <1> QED
    BY <1>1, <1>2 DEF CommitInvariant

(* The invariant of the file. *)
LEMMA CommitPreserved ==
  ASSUME Shape, CommitInvariant, [Next]_vars
  PROVE  CommitInvariant'
  <1> USE DEF fileVars, clientVars
  <1>c. "config_invalid" \in StableCode /\ "io_failure" \in StableCode /\ "protocol_mismatch" \in StableCode
        /\ "artifact_checksum_mismatch" \in StableCode /\ "recording_not_available" \in StableCode
        /\ "screenshot_failed" \in StableCode /\ "artifact_too_large" \in StableCode
        /\ AppCode \subseteq StableCode
    BY DEF StableCode, LocalCode, AppCode
  <1>f. ASSUME NEW error \in StableCode, Fails(error),
               command.step \notin {"unlink", "print", "exited", "killed"}
        PROVE  CommitInvariant'
    BY <1>f, FailureCommitsNothing DEF Fails, RemoveTemp
  <1>r. ASSUME NEW error \in StableCode, Returns(error),
               command.step \in {"resolve", "ready", "open"}, UNCHANGED fileVars
        PROVE  CommitInvariant'
    BY <1>r, FailureCommitsNothing DEF CommitInvariant
  <1>g. ASSUME NEW step \in Step, GoTo(step)
        PROVE  command'.step = step
    BY <1>g, StepChanges DEF Shape
  <1>1. CASE ResolveTCP
    BY <1>1, <1>c, <1>g, <1>r DEF ResolveTCP, CommitInvariant, Step
  <1>2. CASE ResolveUSB
    <2> DEFINE choice == Resolve(ParseList(Listed).devices, config.device, None)
    <2>1. UNCHANGED fileVars /\ command.step = "resolve"
      BY <1>2 DEF ResolveUSB
    <2>2. \/ command'.step = "ready"
          \/ choice.code # "ok" /\ Returns(choice.code)
          \/ \E err \in DevicectlFailure : Returns(MapDeviceCtlError(err))
          \/ \E err \in {"io_failure", "protocol_mismatch"} : Returns(err)
      BY <1>2 DEF ResolveUSB, Shape, FileShape, CommandRecord
    <2>3. choice.code \in StableCode \cup {"ok"}
      BY DeviceOutcomes
    <2>4. CASE command'.step = "ready"
      BY <2>1, <2>4 DEF CommitInvariant
    <2> HIDE DEF choice
    <2> QED
      BY <2>1, <2>2, <2>3, <2>4, <1>c, <1>r, ErrorsAreErrors
  <1>3. ASSUME NEW answer, CheckDevice(answer)
        PROVE  CommitInvariant'
    <2>1. UNCHANGED fileVars /\ command.step = "ready"
      BY <1>3 DEF CheckDevice
    <2>2. CASE GoTo("request")
      BY <2>1, <2>2, <1>g DEF CommitInvariant, Step
    <2>3. CASE \E code \in StableCode : Returns(code)
      BY <2>1, <2>3, <1>r
    <2> QED
      BY <1>3, <2>2, <2>3, DeviceOutcomes DEF CheckDevice
  <1>4. CASE SendRequest
    BY <1>4, <1>g DEF SendRequest, CommitInvariant, Step
  <1>5. CASE RequestFails
    <2>1. UNCHANGED fileVars /\ command.step = "open"
      BY <1>5 DEF RequestFails
    <2>2. \E error \in StableCode : Returns(error)
      BY <1>5, <1>c, ErrorsAreErrors DEF RequestFails
    <2> QED
      BY <2>1, <2>2, <1>r
  <1>6. CASE ResponseOpens
    BY <1>6, <1>g DEF ResponseOpens, CommitInvariant, Step
  <1>7. CASE ResponseIsUnexpected
    BY <1>7, <1>c, <1>f DEF ResponseIsUnexpected
  <1>8. CASE CreateTemp
    BY <1>8, <1>c, <1>f, <1>g DEF CreateTemp, CommitInvariant, Step
  <1>9. CASE CopyReads
    BY <1>9 DEF CopyReads, CommitInvariant
  <1>10. CASE CopyEnds
    BY <1>10, <1>g DEF CopyEnds, CommitInvariant, Step
  <1>11. CASE CopyFails
    BY <1>11, <1>c, <1>f, ErrorsAreErrors DEF CopyFails
  <1>12. CASE Verify
    BY <1>12, <1>c, <1>f, <1>g DEF Verify, CommitInvariant, Step
  <1>13. CASE Link
    <2>1. CASE Fails("io_failure")
      BY <1>13, <2>1, <1>c, <1>f DEF Link
    <2>2. CASE dest' = Artifact /\ GoTo("unlink") /\ UNCHANGED <<temp, printed>>
      <3>1. dest'.owner = "command" /\ dest'.content = "whole"
        BY <1>13, <2>2 DEF Link, Artifact, CommitInvariant
      <3>2. command'.step = "unlink"
        BY <2>2, <1>g DEF Step
      <3> QED
        BY <1>13, <2>2, <3>1, <3>2 DEF Link, CommitInvariant
    <2> QED
      BY <1>13, <2>1, <2>2 DEF Link
  <1>14. CASE Unlink
    BY <1>14, <1>g DEF Unlink, RemoveTemp, CommitInvariant, Step
  <1>15. CASE PrintResult
    <2>1. /\ command'.step = "exited"
          /\ printed' # "unprinted"
          /\ command'.error = "ok" <=> printed' = "printed"
      BY <1>15, <1>c, ReturnChanges DEF PrintResult, Shape, Outcome
    <2> QED
      BY <1>15, <2>1 DEF PrintResult, CommitInvariant
  <1>16. CASE Worker \/ Loop \/ Exchange
    <2>1. UNCHANGED <<command, fileVars, body>>
      BY <1>16, Zenon DEF Worker, Loop, Exchange, Background, Connected, EndDialContext, CloseLateConnection,
                   clientVars
    <2> QED
      BY <2>1 DEF CommitInvariant
  <1>17. CASE Watcher
    <2>1. UNCHANGED <<command, temp, dest, printed>> /\ body'.content = body.content
      BY <1>17 DEF Watcher, Background, Watch, Shape, BodyShape
    <2> QED
      BY <2>1 DEF CommitInvariant
  <1>18. CASE DeadlinePasses \/ World
    BY <1>18 DEF DeadlinePasses, World, CommitInvariant
  <1>19. CASE RivalCreates
    BY <1>19 DEF RivalCreates, Foreign, Absent, CommitInvariant
  <1>20. CASE Kill
    BY <1>20, <1>g DEF Kill, Running, CommitInvariant, Step
  <1>21. CASE UNCHANGED vars
    BY <1>21 DEF vars, CommitInvariant
  <1> QED
    BY <1>1, <1>2, <1>3, <1>4, <1>5, <1>6, <1>7, <1>8, <1>9, <1>10, <1>11, <1>12, <1>13, <1>14,
       <1>15, <1>16, <1>17, <1>18, <1>19, <1>20, <1>21
       DEF Next, CommandStep, Terminated

--------------------------------------------------------------------------------
ConnectionInvariant == DialInvariant /\ ExchangeInvariant

(* A step that leaves the connection alone needs no more than that the     *)
(* command moves on as the exchange allows.                                *)
LEMMA QuietSteps ==
  ASSUME ConnectionInvariant, UNCHANGED <<dialVars, http, body>>,
         command'.step \in {"resolve", "ready", "request"} =>
            command.step \in {"resolve", "ready", "request"},
         http \in {"dialing", "awaiting"} => command'.step = "open",
         http = "open" => command'.step \in {"opened", "copy"}
  PROVE  ConnectionInvariant'
  BY DEF ConnectionInvariant, DialInvariant, ExchangeInvariant, dialVars, NoSocket

(* The invariant of the connection. *)
LEMMA ConnectionPreserved ==
  ASSUME Shape, ConnectionInvariant, [Next]_vars
  PROVE  ConnectionInvariant'
  <1> USE DEF fileVars, clientVars, dialVars
  <1>g. ASSUME NEW step \in Step, GoTo(step)
        PROVE  command'.step = step
    BY <1>g, StepChanges DEF Shape
  <1>r. ASSUME NEW error, Returns(error)
        PROVE  command'.step = "exited"
    BY <1>r DEF Returns, Shape, FileShape, CommandRecord
  <1>f. ASSUME NEW error, Fails(error), command.step \notin {"resolve", "ready", "request", "open"}
        PROVE  ConnectionInvariant'
    <2>1. command'.step = "exited" /\ UNCHANGED <<dialCtx, dial, worker, opened, results>>
      BY <1>f, <1>r DEF Fails
    <2>2. CASE http = "open"
      <3>1. http' = "closed" /\ socket'.state = "closed" /\ socket'.peer = socket.peer /\ body'.state = "closed"
        BY <1>f, <2>2 DEF Fails, CloseBody, Closed, Shape, BodyShape, ConnectionShape, ConnectionInvariant, ExchangeInvariant
      <3> QED
        BY <2>1, <2>2, <3>1, PeerAssumption
           DEF ConnectionInvariant, DialInvariant, ExchangeInvariant, Shape, ConnectionShape, NoSocket
    <2>3. CASE http # "open"
      <3>1. UNCHANGED <<http, socket>> /\ body'.state # "open"
        BY <1>f, <2>3 DEF Fails, CloseBody, Closed, Shape, BodyShape, ConnectionInvariant, ExchangeInvariant
      <3> QED
        BY <1>f, <2>1, <2>3, <3>1
           DEF ConnectionInvariant, DialInvariant, ExchangeInvariant, NoSocket
    <2> QED
      BY <2>2, <2>3
  <1>1. CASE ResolveTCP
    <2>1. command'.step \in {"request", "exited"}
      BY <1>1, <1>g, <1>r DEF ResolveTCP, Step
    <2> QED
      BY <1>1, <2>1, QuietSteps DEF ResolveTCP, ConnectionInvariant, ExchangeInvariant
  <1>2. CASE ResolveUSB
    <2>1. command'.step \in {"ready", "exited"}
      BY <1>2, <1>r DEF ResolveUSB, Shape, FileShape, CommandRecord
    <2>2. UNCHANGED <<dialVars, http, body>> /\ command.step = "resolve"
      BY <1>2 DEF ResolveUSB
    <2> QED
      BY <2>1, <2>2, QuietSteps DEF ConnectionInvariant, ExchangeInvariant
  <1>3. ASSUME NEW answer, CheckDevice(answer)
        PROVE  ConnectionInvariant'
    <2>1. command'.step \in {"request", "exited"}
      BY <1>3, <1>g, <1>r DEF CheckDevice, Step
    <2>2. UNCHANGED <<dialVars, http, body>> /\ command.step = "ready"
      BY <1>3 DEF CheckDevice
    <2> QED
      BY <2>1, <2>2, QuietSteps DEF ConnectionInvariant, ExchangeInvariant
  <1>4. CASE SendRequest
    <2>1. command'.step = "open"
      BY <1>4, <1>g DEF SendRequest, Step
    <2>2. /\ http = "idle" /\ http' = "dialing"
          /\ dial'.pc = "waiting" /\ dial'.canceled = FALSE /\ dial'.active = FALSE
          /\ dial'.code = "ok"
          /\ worker'.pc \in {"tcp", "opening"}
          /\ UNCHANGED <<dialCtx, opened, results, socket, body>>
      BY <1>4 DEF SendRequest, Send, Dial, NoDial, Shape, ConnectionShape
    <2> QED
      BY <2>1, <2>2 DEF ConnectionInvariant, DialInvariant, ExchangeInvariant, NoSocket
  <1>5. CASE RequestFails
    <2>1. command'.step = "exited" /\ UNCHANGED <<dialCtx, dial, worker, opened, results, body>>
      BY <1>5, <1>r DEF RequestFails, ExchangeFails, Refuse, RefuseUnread
    <2>2. \/ http = "dialing" /\ http' = "abandoned" /\ UNCHANGED socket
          \/ http = "dialing" /\ dial.pc = "returned" /\ dial.code # "ok" /\ http' = "closed" /\ UNCHANGED socket
          \/ http = "awaiting" /\ http' = "closed" /\ CloseSocket
      BY <1>5 DEF RequestFails, ExchangeFails, Refuse, RefuseUnread
    <2>3. CASE /\ http = "dialing" /\ UNCHANGED socket
               /\ \/ http' = "abandoned"
                  \/ dial.pc = "returned" /\ dial.code # "ok" /\ http' = "closed"
      BY <2>1, <2>3 DEF ConnectionInvariant, DialInvariant, ExchangeInvariant, NoSocket
    <2>4. CASE http = "awaiting" /\ http' = "closed" /\ CloseSocket
      <3>1. socket'.state = "closed"
        BY <2>4 DEF CloseSocket, Shape, ConnectionShape
      <3> QED
        BY <2>1, <2>4, <3>1 DEF ConnectionInvariant, DialInvariant, ExchangeInvariant
    <2> QED
      BY <2>2, <2>3, <2>4
  <1>6. CASE ResponseOpens
    <2>1. command'.step = "opened"
      BY <1>6, <1>g DEF ResponseOpens, Step
    <2>2. http = "awaiting" /\ http' = "open" /\ body'.state = "open" /\ UNCHANGED dialVars
      BY <1>6 DEF ResponseOpens, Open
    <2> QED
      BY <2>1, <2>2 DEF ConnectionInvariant, DialInvariant, ExchangeInvariant, NoSocket
  <1>7. CASE ResponseIsUnexpected
    BY <1>7, <1>f DEF ResponseIsUnexpected
  <1>8. CASE CreateTemp
    <2>1. CASE Fails("io_failure")
      BY <1>8, <2>1, <1>f DEF CreateTemp
    <2>2. CASE GoTo("copy") /\ UNCHANGED <<dialVars, http, body>>
      <3>1. command'.step = "copy"
        BY <2>2, <1>g DEF Step
      <3> QED
        BY <1>8, <2>2, <3>1, QuietSteps DEF CreateTemp, ConnectionInvariant, ExchangeInvariant
    <2> QED
      BY <1>8, <2>1, <2>2 DEF CreateTemp
  <1>9. CASE CopyReads
    <2>1. UNCHANGED <<dialVars, http, command>> /\ body'.state = body.state
      BY <1>9 DEF CopyReads, BeginRead, ReadChunk, Shape, BodyShape
    <2> QED
      BY <2>1 DEF ConnectionInvariant, DialInvariant, ExchangeInvariant, NoSocket
  <1>10. CASE CopyEnds
    <2>1. command'.step = "verify"
      BY <1>10, <1>g DEF CopyEnds, Step
    <2>2. /\ body.state = "open" /\ body'.state = "closed" /\ http' = "closed"
          /\ socket'.state = "closed"
          /\ UNCHANGED <<dialCtx, dial, worker, opened, results>>
      BY <1>10 DEF CopyEnds, ReadEnd, Closed, CloseSocket, Shape, BodyShape, ConnectionShape
    <2> QED
      BY <1>10, <2>1, <2>2 DEF CopyEnds, ConnectionInvariant, DialInvariant, ExchangeInvariant
  <1>11. CASE CopyFails
    BY <1>11, <1>f DEF CopyFails
  <1>12. CASE Verify
    <2>1. CASE \E error : Fails(error)
      BY <1>12, <2>1, <1>f DEF Verify
    <2>2. CASE GoTo("link") /\ UNCHANGED <<dialVars, http, body>>
      <3>1. command'.step = "link"
        BY <2>2, <1>g DEF Step
      <3> QED
        BY <1>12, <2>2, <3>1, QuietSteps DEF Verify, ConnectionInvariant, ExchangeInvariant
    <2> QED
      BY <1>12, <2>1, <2>2 DEF Verify
  <1>13. CASE Link
    <2>1. CASE Fails("io_failure")
      BY <1>13, <2>1, <1>f DEF Link
    <2>2. CASE GoTo("unlink") /\ UNCHANGED <<dialVars, http, body>>
      <3>1. command'.step = "unlink"
        BY <2>2, <1>g DEF Step
      <3> QED
        BY <1>13, <2>2, <3>1, QuietSteps DEF Link, ConnectionInvariant, ExchangeInvariant
    <2> QED
      BY <1>13, <2>1, <2>2 DEF Link
  <1>14. CASE Unlink \/ PrintResult
    <2>1. command'.step \in {"print", "exited"} /\ command.step \in {"unlink", "print"}
      BY <1>14, <1>g, <1>r DEF Unlink, PrintResult, Step
    <2> QED
      BY <1>14, <2>1, QuietSteps DEF Unlink, PrintResult, ConnectionInvariant, ExchangeInvariant
  <1>15. CASE Worker
    <2>0. UNCHANGED <<command, body, http>> /\ WorkerStep
      BY <1>15 DEF Worker, Background
    <2>1. CASE OpenMux
      <3>1. UNCHANGED <<dialCtx, dial>> /\ worker.pc = "opening"
        BY <2>1 DEF OpenMux
      <3>2. \/ socket'.state = "open" /\ worker'.pc = "listing" /\ UNCHANGED results
            \/ worker'.pc = "done" /\ results' = "transport_failure" /\ UNCHANGED <<opened, socket>>
        BY <2>1 DEF OpenMux, WorkerSends, Shape, ConnectionShape
      <3> QED
        BY <2>0, <3>1, <3>2, PeerAssumption
           DEF ConnectionInvariant, DialInvariant, ExchangeInvariant, NoSocket, TransportCode
    <2>2. CASE ListEntries
      <3>1. UNCHANGED <<dialCtx, dial, opened>> /\ worker.pc = "listing"
        BY <2>2 DEF ListEntries
      <3>2. \/ worker'.pc = "connecting" /\ UNCHANGED <<results, socket>>
            \/ worker'.pc = "done" /\ results' = "transport_failure" /\ socket'.state = "closed"
        BY <2>2 DEF ListEntries, WorkerSends, CloseSocket, Shape, ConnectionShape
      <3> QED
        BY <2>0, <3>1, <3>2, PeerAssumption
           DEF ConnectionInvariant, DialInvariant, ExchangeInvariant, NoSocket, TransportCode
    <2>3. CASE Connect
      <3>1. UNCHANGED <<dialCtx, dial, opened>> /\ worker.pc = "connecting" /\ worker'.pc = "done"
        BY <2>3 DEF Connect, WorkerSends, Shape, ConnectionShape
      <3>2. \/ results' = "ok" /\ socket'.state = "open"
            \/ results' \in TransportCode /\ socket'.state = "closed"
        BY <2>3 DEF Connect, WorkerSends, CloseSocket, Shape, ConnectionShape, TransportCode
      <3> QED
        BY <2>0, <3>1, <3>2, PeerAssumption
           DEF ConnectionInvariant, DialInvariant, ExchangeInvariant, NoSocket, TransportCode
    <2> QED
      BY <2>0, <2>1, <2>2, <2>3 DEF WorkerStep
  <1>16. CASE Loop
    <2>0. UNCHANGED <<command, body, http>> /\ (LoopStep \/ DialTCP)
      BY <1>16 DEF Loop, Background
    <2>1. CASE ReceiveOpened
      <3>1. /\ UNCHANGED <<dialCtx, worker, results>>
            /\ opened /\ dial.pc = "waiting" /\ dial'.pc = "waiting"
            /\ dial'.canceled = dial.canceled /\ dial'.code = dial.code
        BY <2>1 DEF ReceiveOpened, Shape, ConnectionShape
      <3>2. UNCHANGED socket \/ (dial.canceled /\ socket'.state = "closed")
        <4>1. CASE dial.canceled
          BY <2>1, <4>1 DEF ReceiveOpened, CloseSocket, Shape, ConnectionShape
        <4>2. CASE ~dial.canceled
          BY <2>1, <4>2 DEF ReceiveOpened
        <4> QED
          BY <4>1, <4>2
      <3> QED
        BY <2>0, <3>1, <3>2
           DEF ConnectionInvariant, DialInvariant, ExchangeInvariant, NoSocket
    <2>2. CASE ReceiveDone
      <3>1. /\ UNCHANGED <<dialCtx, worker, results, opened>>
            /\ dialCtx = "done" /\ dial.pc = "waiting" /\ dial'.pc = "waiting"
            /\ dial'.active = dial.active /\ dial'.code = dial.code
        BY <2>2 DEF ReceiveDone, Shape, ConnectionShape
      <3>2. UNCHANGED socket \/ (dial.active /\ socket'.state = "closed")
        <4>1. CASE dial.active
          BY <2>2, <4>1 DEF ReceiveDone, CloseSocket, Shape, ConnectionShape
        <4>2. CASE ~dial.active
          BY <2>2, <4>2 DEF ReceiveDone
        <4> QED
          BY <4>1, <4>2
      <3> QED
        BY <2>0, <3>1, <3>2
           DEF ConnectionInvariant, DialInvariant, ExchangeInvariant, NoSocket
    <2>3. CASE ReceiveResult
      <3>1. /\ UNCHANGED <<dialCtx, worker, opened>>
            /\ results # None /\ results' = None
            /\ dial.pc = "waiting" /\ dial'.pc = "returned"
            /\ dial'.canceled = dial.canceled /\ dial'.active = dial.active
        BY <2>3 DEF ReceiveResult, Shape, ConnectionShape
      <3>2. \/ dialCtx = "done" /\ results = "ok" /\ dial'.code = "request_timeout"
                 /\ socket'.state = "closed"
            \/ dialCtx = "done" /\ results # "ok" /\ dial'.code = "request_timeout"
                 /\ UNCHANGED socket
            \/ dialCtx = "live" /\ dial'.code = results /\ UNCHANGED socket
        BY <2>3 DEF ReceiveResult, CloseSocket, Shape, ConnectionShape
      <3> QED
        BY <2>0, <3>1, <3>2
           DEF ConnectionInvariant, DialInvariant, ExchangeInvariant, NoSocket
    <2>4. CASE DialTCP
      <3>1. /\ UNCHANGED <<dialCtx, results, opened>>
            /\ worker.pc = "tcp" /\ worker'.pc = "done"
            /\ dial.pc = "waiting" /\ dial'.pc = "returned"
            /\ dial'.canceled = dial.canceled /\ dial'.active = dial.active
        <4>1. \/ dial' = [dial EXCEPT !.pc = "returned"]
              \/ \E code : dial' = [dial EXCEPT !.pc = "returned", !.code = code]
          BY <2>4 DEF DialTCP
        <4>2. /\ dial'.pc = "returned" 
              /\ dial'.canceled = dial.canceled /\ dial'.active = dial.active
          BY <4>1 DEF Shape, ConnectionShape
        <4> QED
          BY <2>4, <4>2 DEF DialTCP, Shape, ConnectionShape
      <3>2. \/ socket'.state = "open" /\ dial'.code = dial.code
            \/ UNCHANGED socket /\ dial'.code # "ok"
        <4>1. CASE /\ socket' = [state |-> "open", peer |-> Loopback]
                   /\ dial' = [dial EXCEPT !.pc = "returned"]
          BY <4>1 DEF Shape, ConnectionShape
        <4>2. CASE /\ \E code \in {"request_timeout", "app_not_reachable"} :
                         dial' = [dial EXCEPT !.pc = "returned", !.code = code]
                   /\ UNCHANGED socket
          BY <4>2 DEF Shape, ConnectionShape
        <4> QED
          BY <2>4, <4>1, <4>2 DEF DialTCP
      <3> QED
        BY <2>0, <3>1, <3>2
           DEF ConnectionInvariant, DialInvariant, ExchangeInvariant, NoSocket
    <2> QED
      BY <2>0, <2>1, <2>2, <2>3, <2>4 DEF LoopStep
  <1>17. CASE Exchange
    <2>0. UNCHANGED <<command, body>> /\ (Connected \/ EndDialContext \/ CloseLateConnection)
      BY <1>17 DEF Exchange, Background, Connected, EndDialContext, CloseLateConnection
    <2>1. CASE Connected
      BY <2>0, <2>1 DEF Connected, ConnectionInvariant, DialInvariant, ExchangeInvariant, NoSocket
    <2>2. CASE EndDialContext
      BY <2>0, <2>2 DEF EndDialContext, ConnectionInvariant, DialInvariant, ExchangeInvariant, NoSocket
    <2>3. CASE CloseLateConnection
      <3>1. socket'.state # "open" /\ http' = "closed" /\ http = "abandoned" /\ dial.pc = "returned"
              /\ UNCHANGED <<dialCtx, dial, worker, opened, results>>
        BY <2>3 DEF CloseLateConnection, Shape, ConnectionShape
      <3> QED
        BY <2>0, <3>1 DEF ConnectionInvariant, DialInvariant, ExchangeInvariant, NoSocket
    <2> QED
      BY <2>0, <2>1, <2>2, <2>3
  <1>18. CASE Watcher
    <2>0. Watch /\ UNCHANGED command
      BY <1>18 DEF Watcher, Background
    <2>1. UNCHANGED <<dialCtx, dial, worker, opened, results>>
      BY <2>0 DEF Watch
    <2>2. \/ body.state = "open" /\ body'.state = "closed" /\ http' = "closed" /\ socket'.state = "closed"
          \/ body.state = "closed" /\ body'.state = "closed" /\ UNCHANGED <<http, socket>>
      BY <2>0 DEF Watch, CloseSocket, Shape, BodyShape, ConnectionShape
    <2> QED
      BY <2>0, <2>1, <2>2 DEF ConnectionInvariant, DialInvariant, ExchangeInvariant, NoSocket
  <1>19. CASE DeadlinePasses \/ World \/ RivalCreates
    <2>1. UNCHANGED <<dialVars, http, body, command>>
      BY <1>19 DEF DeadlinePasses, World, RivalCreates
    <2> QED
      BY <2>1, QuietSteps DEF ConnectionInvariant, ExchangeInvariant
  <1>20. CASE Kill
    <2>1. command'.step = "killed"
      BY <1>20, <1>g DEF Kill, Step
    <2>2. /\ http' = "idle" /\ body'.state = "none"
          /\ dial'.pc = "idle" /\ dial'.canceled = FALSE /\ dial'.active = FALSE
          /\ worker'.pc = "none" /\ opened' = FALSE /\ results' = None
          /\ socket' = [state |-> "none", peer |-> None]
      BY <1>20 DEF Kill, NoBody, NoDial, NoWorker, NoSocket
    <2> QED
      BY <2>1, <2>2, PeerAssumption DEF ConnectionInvariant, DialInvariant, ExchangeInvariant, NoSocket
  <1>21. CASE UNCHANGED vars
    <2>1. UNCHANGED <<dialVars, http, body, command>>
      BY <1>21 DEF vars
    <2> QED
      BY <2>1, QuietSteps DEF ConnectionInvariant, ExchangeInvariant
  <1> QED
    BY <1>1, <1>2, <1>3, <1>4, <1>5, <1>6, <1>7, <1>8, <1>9, <1>10, <1>11, <1>12, <1>13, <1>14,
       <1>15, <1>16, <1>17, <1>18, <1>19, <1>20, <1>21
       DEF Next, CommandStep, Terminated

--------------------------------------------------------------------------------
(* A step that neither dials nor connects keeps the selection, if it       *)
(* selects no device either.                                               *)
LEMMA SelectionKept ==
  ASSUME ConnectionInvariant, SelectionInvariant,
         UNCHANGED config, command'.device = command.device,
         command'.step \in {"ready", "request"} =>
            command.step = "ready" \/ config.transport = "tcp" \/ dial'.pc # "idle",
         dial'.pc = dial.pc, dial'.target = dial.target,
         worker'.pc \in {worker.pc, "done", "listing"},
         worker'.pc = "listing" => worker.pc \in {"listing", "opening"},
         worker'.match = worker.match,
         socket'.peer \in {socket.peer, None}
  PROVE  SelectionInvariant'
  BY DEF SelectionInvariant

(* The invariant of the selected device. *)
LEMMA SelectionPreserved ==
  ASSUME Shape, ConnectionInvariant, SelectionInvariant, [Next]_vars
  PROVE  SelectionInvariant'
  <1> USE DEF fileVars, clientVars, dialVars
  <1>k. UNCHANGED config
    <2>1. ASSUME NEW error, Fails(error)
          PROVE  UNCHANGED config
      BY <2>1 DEF Fails
    <2>2. CASE CommandStep
      BY <2>1, <2>2 DEF CommandStep, ResolveTCP, ResolveUSB, CheckDevice, SendRequest,
         RequestFails, ResponseOpens, ResponseIsUnexpected, CreateTemp, CopyReads, CopyEnds,
         CopyFails, Verify, Link, Unlink, PrintResult
    <2>3. CASE Worker \/ Loop \/ Exchange \/ Watcher
      BY <2>3, Zenon DEF Worker, Loop, Exchange, Watcher, Background
    <2> QED
      BY <2>2, <2>3 DEF Next, DeadlinePasses, World, RivalCreates, Kill, Terminated, vars
  <1>g. ASSUME NEW step \in Step, GoTo(step)
        PROVE  command'.step = step /\ command'.device = command.device
    BY <1>g, StepChanges DEF Shape
  <1>r. ASSUME NEW error, Returns(error)
        PROVE  command'.step = "exited" /\ command'.device = command.device
    BY <1>r DEF Returns, Shape, FileShape, CommandRecord
  <1>q. ASSUME command'.device = command.device, command'.step \notin {"ready", "request"},
               UNCHANGED <<dial, worker>>, socket'.peer \in {socket.peer, None}
        PROVE  SelectionInvariant'
    BY <1>q, <1>k, SelectionKept
  <1>f. ASSUME NEW error, Fails(error)
        PROVE  SelectionInvariant'
    <2>1. socket'.peer = socket.peer /\ UNCHANGED <<dial, worker>>
      BY <1>f DEF Fails, CloseBody, Shape, ConnectionShape
    <2> QED
      BY <1>f, <2>1, <1>q, <1>r DEF Fails
  <1>1. CASE ResolveTCP
    <2>1. /\ UNCHANGED <<dial, worker, socket>> /\ config.transport = "tcp"
          /\ command'.device = command.device
      BY <1>1, <1>g, <1>r DEF ResolveTCP, Step
    <2> QED
      BY <2>1, <1>k, SelectionKept
  <1>2. CASE ResolveUSB
    <2> DEFINE choice == Resolve(ParseList(Listed).devices, config.device, None)
               u == CHOOSE u \in Udid : \E d \in choice.device : d.udid = u
    <2>1. UNCHANGED <<dial, worker, socket>>
      BY <1>2 DEF ResolveUSB
    <2>2. dial.pc = "idle" /\ worker.pc = "none" /\ socket.peer = None
      BY <1>2 DEF ResolveUSB, ConnectionInvariant, DialInvariant, ExchangeInvariant, NoSocket
    <2>3. CASE choice.code = "ok" /\ command' = [command EXCEPT !.step = "ready", !.device = u]
      <3>1. u \in Udid /\ config.device \in {None, u}
        BY <2>3, ResolvePicks
      <3> HIDE DEF u
      <3>2. command'.device = u
        BY <2>3 DEF Shape, FileShape, CommandRecord
      <3> QED
        BY <2>1, <2>2, <3>1, <3>2, <1>k DEF SelectionInvariant
    <2>4. CASE \E error : Returns(error)
      BY <2>1, <2>4, <1>q, <1>r
    <2> QED
      BY <1>2, <2>3, <2>4 DEF ResolveUSB
  <1>3. ASSUME NEW answer, CheckDevice(answer)
        PROVE  SelectionInvariant'
    <2>1. UNCHANGED <<dial, worker, socket>> /\ command.step = "ready" /\ command'.device = command.device
      BY <1>3, <1>g, <1>r DEF CheckDevice, Step
    <2> QED
      BY <2>1, <1>k, SelectionKept
  <1>4. CASE SendRequest
    <2> DEFINE target == IF config.transport = "tcp" THEN Loopback ELSE command.device
    <2>1. /\ dial'.target = target /\ UNCHANGED socket
          /\ worker'.pc = IF target = Loopback THEN "tcp" ELSE "opening"
      BY <1>4 DEF SendRequest, Send, Dial, NoDial, Shape, ConnectionShape
    <2>2. command.step = "request" /\ command'.device = command.device
      BY <1>4, <1>g DEF SendRequest, Step
    <2>3. dial.pc = "idle" /\ socket.peer = None
      BY <2>2 DEF ConnectionInvariant, DialInvariant, ExchangeInvariant, NoSocket
    <2>4. CASE config.transport = "tcp"
      BY <2>1, <2>3, <2>4, <1>k DEF SelectionInvariant
    <2>5. CASE config.transport = "usb"
      <3>1. command.device \in Udid /\ config.device \in {None, command.device}
        BY <2>2, <2>5 DEF SelectionInvariant
      <3>2. worker'.pc = "opening" /\ dial'.target = command.device
        BY <2>1, <2>5, <3>1, PeerAssumption
      <3> QED
        BY <2>1, <2>2, <2>3, <2>5, <3>1, <3>2, <1>k DEF SelectionInvariant
    <2> QED
      BY <2>4, <2>5 DEF Shape, FileShape
  <1>5. CASE RequestFails
    <2>1. UNCHANGED <<dial, worker>> /\ socket'.peer = socket.peer
      BY <1>5 DEF RequestFails, ExchangeFails, Refuse, RefuseUnread, CloseSocket, Shape, ConnectionShape
    <2>2. command'.step = "exited" /\ command'.device = command.device
      BY <1>5, <1>r DEF RequestFails
    <2> QED
      BY <2>1, <2>2, <1>q
  <1>6. CASE ResponseOpens
    BY <1>6, <1>g, <1>q DEF ResponseOpens, Open, Step
  <1>7. CASE ResponseIsUnexpected \/ CopyFails
    BY <1>7, <1>f DEF ResponseIsUnexpected, CopyFails
  <1>8. CASE CreateTemp \/ Verify \/ Link \/ Unlink
    BY <1>8, <1>f, <1>g, <1>q DEF CreateTemp, Verify, Link, Unlink, Step
  <1>9. CASE CopyReads
    BY <1>9, <1>q DEF CopyReads, BeginRead, ReadChunk
  <1>10. CASE CopyEnds
    <2>1. UNCHANGED <<dial, worker>> /\ socket'.peer = socket.peer
      BY <1>10 DEF CopyEnds, ReadEnd, CloseSocket, Shape, ConnectionShape
    <2> QED
      BY <1>10, <2>1, <1>g, <1>q DEF CopyEnds, Step
  <1>11. CASE PrintResult
    BY <1>11, <1>r, <1>q DEF PrintResult
  <1>12. CASE Worker
    <2>0. UNCHANGED command /\ WorkerStep
      BY <1>12 DEF Worker, Background
    <2>1. CASE OpenMux
      <3>1. /\ UNCHANGED dial /\ worker.pc = "opening" /\ worker'.pc \in {"listing", "done"}
            /\ socket'.peer \in {socket.peer, None} /\ worker'.match = worker.match
        BY <2>1 DEF OpenMux, WorkerSends, Shape, ConnectionShape
      <3>2. dial.pc = "waiting"
        BY <3>1 DEF ConnectionInvariant, DialInvariant
      <3> QED
        BY <2>0, <3>1, <3>2, <1>k, SelectionKept
    <2>2. CASE ListEntries
      <3>0. UNCHANGED dial /\ worker.pc = "listing" /\ dial.pc = "waiting"
        BY <2>2 DEF ListEntries, ConnectionInvariant, DialInvariant
      <3>1. CASE \E e \in Matches(dial.target) : worker' = [pc |-> "connecting", match |-> e] /\ UNCHANGED socket
        <4>1. /\ worker'.pc = "connecting" /\ worker'.match \in Entry
              /\ worker'.match.udid = dial.target /\ worker'.match.type = "USB"
          BY <3>1 DEF Matches, Shape, ConnectionShape
        <4> QED
          BY <2>0, <3>0, <3>1, <4>1, <1>k DEF SelectionInvariant
      <3>2. CASE WorkerSends("transport_failure") /\ CloseSocket
        <4>1. worker'.pc = "done" /\ worker'.match = worker.match /\ socket'.peer = socket.peer
          BY <3>2 DEF WorkerSends, CloseSocket, Shape, ConnectionShape
        <4> QED
          BY <2>0, <3>0, <4>1, <1>k, SelectionKept
      <3> QED
        BY <2>2, <3>1, <3>2 DEF ListEntries
    <2>3. CASE Connect
      <3>1. UNCHANGED dial /\ worker.pc = "connecting" /\ dial.pc = "waiting" /\ worker'.pc = "done"
               /\ worker'.match = worker.match
        BY <2>3 DEF Connect, WorkerSends, Shape, ConnectionShape, ConnectionInvariant, DialInvariant
      <3>2. socket'.peer \in {socket.peer, worker.match}
        BY <2>3 DEF Connect, CloseSocket, Shape, ConnectionShape
      <3> QED
        BY <2>0, <3>1, <3>2, <1>k DEF SelectionInvariant
    <2> QED
      BY <2>0, <2>1, <2>2, <2>3 DEF WorkerStep
  <1>13. CASE Loop
    <2>0. UNCHANGED command /\ (LoopStep \/ DialTCP)
      BY <1>13 DEF Loop, Background
    <2>1. CASE LoopStep
      <3>1. /\ dial.pc = "waiting" /\ dial'.pc \in {"waiting", "returned"}
            /\ dial'.target = dial.target /\ UNCHANGED worker
        BY <2>1 DEF LoopStep, ReceiveOpened, ReceiveDone, ReceiveResult, Shape, ConnectionShape
      <3>2. socket'.peer = socket.peer
        BY <2>1 DEF LoopStep, ReceiveOpened, ReceiveDone, ReceiveResult, CloseSocket, Shape, ConnectionShape
      <3> QED
        BY <2>0, <3>1, <3>2, <1>k DEF SelectionInvariant
    <2>2. CASE DialTCP
      <3>1. config.transport = "tcp"
        BY <2>2 DEF DialTCP, SelectionInvariant, Shape, FileShape
      <3>2. worker'.pc = "done" /\ socket'.peer \in {socket.peer, Loopback}
        BY <2>2 DEF DialTCP, Shape, ConnectionShape
      <3> QED
        BY <3>1, <3>2, <1>k DEF SelectionInvariant
    <2> QED
      BY <2>0, <2>1, <2>2
  <1>14. CASE Exchange
    <2>1. UNCHANGED <<command, dial, worker>> /\ socket'.peer = socket.peer
      BY <1>14 DEF Exchange, Background, Connected, EndDialContext, CloseLateConnection, Shape, ConnectionShape
    <2> QED
      BY <2>1, <1>k DEF SelectionInvariant
  <1>15. CASE Watcher
    <2>1. Watch /\ UNCHANGED command
      BY <1>15 DEF Watcher, Background
    <2>2. UNCHANGED <<dial, worker>> /\ socket'.peer = socket.peer
      BY <2>1 DEF Watch, CloseSocket, Shape, ConnectionShape
    <2> QED
      BY <2>1, <2>2, <1>k DEF SelectionInvariant
  <1>16. CASE DeadlinePasses \/ World \/ RivalCreates \/ UNCHANGED vars
    <2>1. UNCHANGED <<command, dial, worker, socket>>
      BY <1>16 DEF DeadlinePasses, World, RivalCreates, vars
    <2> QED
      BY <2>1, <1>k DEF SelectionInvariant
  <1>17. CASE Kill
    <2>1. command'.step = "killed"
      BY <1>17, <1>g DEF Kill, Step
    <2>2. dial'.pc = "idle" /\ worker'.pc = "none" /\ socket'.peer = None
      BY <1>17 DEF Kill, NoDial, NoWorker, NoSocket
    <2> QED
      BY <2>1, <2>2, <1>k DEF SelectionInvariant
  <1> QED
    BY <1>1, <1>2, <1>3, <1>4, <1>5, <1>6, <1>7, <1>8, <1>9, <1>10, <1>11, <1>12, <1>13, <1>14,
       <1>15, <1>16, <1>17
       DEF Next, CommandStep, Terminated

--------------------------------------------------------------------------------
(* Every state satisfies the inductive invariant. *)
LEMMA CommandCorrect == Spec => []CommandInvariant
  <1>1. Init => CommandInvariant
    <2> SUFFICES ASSUME Init
                 PROVE  CommandInvariant
      OBVIOUS
    <2> USE DEF Init, TransportInit, ClientInit
    <2>1. FileShape
      BY DEF FileShape, CommandRecord, Step, Outcome, Absent
    <2>2. BodyShape
      BY DEF BodyShape, NoBody
    <2>3. ConnectionShape
      BY PeerAssumption DEF ConnectionShape, NoDial, NoWorker, NoSocket, Entry
    <2>4. CommitInvariant
      BY DEF CommitInvariant, Absent
    <2>5. DialInvariant
      BY PeerAssumption DEF DialInvariant, NoDial, NoWorker, NoSocket
    <2>6. ExchangeInvariant
      BY DEF ExchangeInvariant, NoBody
    <2>7. SelectionInvariant
      BY DEF SelectionInvariant, NoDial, NoWorker, NoSocket
    <2> QED
      BY <2>1, <2>2, <2>3, <2>4, <2>5, <2>6, <2>7 DEF CommandInvariant, Shape
  <1>2. CommandInvariant /\ [Next]_vars => CommandInvariant'
    BY ShapesPreserved, CommitPreserved, ConnectionPreserved, SelectionPreserved
       DEF CommandInvariant, ConnectionInvariant
  <1> QED
    BY <1>1, <1>2, PTL DEF Spec

(* Runtime.Resolve, connectUSB: for any devices and any attachments and    *)
(* detachments, the peer of the connection is the selected device.         *)
THEOREM SelectedDeviceIsThePeer == Spec => []SelectedDeviceAnswers
  <1>1. CommandInvariant => SelectedDeviceAnswers
    BY PeerAssumption
       DEF CommandInvariant, DialInvariant, SelectionInvariant, SelectedDeviceAnswers, NoSocket
  <1> QED
    BY <1>1, CommandCorrect, PTL

(* Dial, finishUSBResult, contextReadCloser: no connection is left without *)
(* somebody who closes it, and none is closed under its new owner.         *)
THEOREM NoConnectionLeaks == Spec => []SocketHasAnOwner
  <1>1. CommandInvariant => SocketHasAnOwner
    BY DEF CommandInvariant, Shape, ConnectionShape, DialInvariant, ExchangeInvariant,
           SocketHasAnOwner, NoSocket
  <1> QED
    BY <1>1, CommandCorrect, PTL

(* artifact.Write, Execute: the destination holds a verified artifact or   *)
(* nothing of the command's, and the exit status tells which.              *)
THEOREM ExitIsTruthful == Spec => []ExitTellsTheTruth
  <1>1. CommandInvariant => ExitTellsTheTruth
    BY ExitStatusZero DEF CommandInvariant, Shape, FileShape, CommitInvariant, ExitTellsTheTruth
  <1> QED
    BY <1>1, CommandCorrect, PTL

(* linkNoReplace: no step replaces or removes what is at the destination.  *)
THEOREM DestinationIsSafe == Spec => DestinationIsNeverReplaced
  <1>1. ASSUME [Next]_vars, dest # Absent
        PROVE  dest' = dest
    <2> USE DEF fileVars
    <2>1. ASSUME NEW error, Fails(error)
          PROVE  dest' = dest
      BY <2>1 DEF Fails
    <2>2. CASE CommandStep
      BY <1>1, <2>1, <2>2 DEF CommandStep, ResolveTCP, ResolveUSB, CheckDevice, SendRequest,
         RequestFails, ResponseOpens, ResponseIsUnexpected, CreateTemp, CopyReads, CopyEnds,
         CopyFails, Verify, Link, Unlink, PrintResult
    <2>3. CASE Worker \/ Loop \/ Exchange \/ Watcher
      BY <2>3, Zenon DEF Worker, Loop, Exchange, Watcher, Background
    <2> QED
      BY <1>1, <2>2, <2>3 DEF Next, DeadlinePasses, World, RivalCreates, Kill, Terminated, vars
  <1> QED
    BY <1>1, PTL DEF Spec, DestinationIsNeverReplaced
================================================================================
