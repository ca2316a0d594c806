---------------------------- MODULE ArtifactCommand ----------------------------
(***************************************************************************)
(* A command that brings an artifact from the App to a file: `screenshot   *)
(* capture`, and the download of `recording stop`, which runs under a      *)
(* deadline (what comes before and after that download is in               *)
(* RecordingCommands).  Runtime.Resolve chooses the device, ProtocolClient *)
(* opens the answer, artifact.Write makes the file.  Devices come and go   *)
(* meanwhile, another process may create the destination, and the command  *)
(* may be killed.                                                          *)
(***************************************************************************)
EXTENDS ProtocolClient, Devices

VARIABLES
    config,     \* the configuration: transport, device or None, and the command's deadline
    paired,     \* the devices that trust this Mac
    command,    \* the command: its step, the device it selected, its error
    temp,       \* the temporary file: "none", "some", or "stuck" after failed removals
    dest,       \* the destination: whose file is there, with which content
    printed     \* the result: "unprinted", "printed" or "lost"

Absent == [owner |-> "nobody", from |-> None, content |-> "none"]
Foreign == [Absent EXCEPT !.owner = "rival"]

vars == <<environmentVars, dialVars, clientVars, config, paired, command, temp, dest, printed>>
fileVars == <<temp, dest, printed>>

Init ==
    /\ TransportInit
    /\ ClientInit
    /\ config \in [transport : {"usb", "tcp"}, device : Udid \cup {None}, deadline : BOOLEAN]
    /\ paired \in {Udid, {}}
    /\ command = [step |-> "resolve", device |-> None, error |-> "ok"]
    /\ temp = "none"
    /\ dest = Absent
    /\ printed = "unprinted"

Running == command.step \notin {"exited", "killed"}

GoTo(step) == command' = [command EXCEPT !.step = step]

--------------------------------------------------------------------------------
(* The command fails: what it deferred closes the body and removes the     *)
(* temporary file.                                                         *)
RemoveTemp == temp' \in IF temp = "none" THEN {"none"} ELSE {"none", "stuck"}

Returns(error) == command' = [command EXCEPT !.step = "exited", !.error = error]

Fails(error) ==
    /\ Returns(error)
    /\ CloseBody
    /\ RemoveTemp
    /\ UNCHANGED <<ctx, dialCtx, dial, worker, opened, results, environmentVars, config, paired,
                   dest, printed>>

--------------------------------------------------------------------------------
(* Runtime.Resolve *)

(* The configuration was loaded; with TCP, NewTCP looks the host up. *)
ResolveTCP ==
    /\ command.step = "resolve" /\ config.transport = "tcp"
    /\ \/ GoTo("request")
       \/ Returns("config_invalid")
    /\ UNCHANGED <<environmentVars, dialVars, clientVars, config, paired, fileVars>>

(* devicectl knows every device; those in usbmuxd's table are available. *)
Listed ==
    {[udid |-> u, phone |-> TRUE, identified |-> TRUE, paired |-> u \in paired,
      available |-> \E e \in table : e.udid = u] : u \in Udid}

(* Discoverer.Resolve *)
ResolveUSB ==
    /\ command.step = "resolve" /\ config.transport = "usb"
    /\ \/ LET choice == Resolve(ParseList(Listed).devices, config.device, None)
          IN  IF choice.code = "ok"
              THEN command' = [command EXCEPT !.step = "ready",
                                  !.device = CHOOSE u \in Udid : \E d \in choice.device : d.udid = u]
              ELSE Returns(choice.code)
       \/ \E err \in DevicectlFailure : Returns(MapDeviceCtlError(err))
       \/ \E err \in {"io_failure", "protocol_mismatch"} : Returns(err)
    /\ UNCHANGED <<environmentVars, dialVars, clientVars, config, paired, fileVars>>

(* Discoverer.CheckReady; the pairing is the one that was listed. *)
CheckDevice(answer) ==
    /\ command.step = "ready"
    /\ LET code == CheckReady([paired |-> command.device \in paired], answer)
       IN  IF code = "ok" THEN GoTo("request") ELSE Returns(code)
    /\ UNCHANGED <<environmentVars, dialVars, clientVars, config, paired, fileVars>>

--------------------------------------------------------------------------------
(* The deadline of recordingContext starts after Resolve. *)
DeadlinePasses ==
    /\ config.deadline /\ ctx = "live"
    /\ command.step \notin {"resolve", "ready", "exited", "killed"}
    /\ ctx' = "done"
    /\ UNCHANGED <<environmentVars, dialVars, http, body, config, paired, command, fileVars>>

(* OpenBinary *)
SendRequest ==
    /\ command.step = "request"
    /\ Send(IF config.transport = "tcp" THEN Loopback ELSE command.device)
    /\ GoTo("open")
    /\ UNCHANGED <<environmentVars, config, paired, fileVars>>

RequestFails ==
    /\ command.step = "open"
    /\ \/ \E err \in TransportCode \cup {"deadline", "timeout", "plain", "artifact_too_large"} :
             ExchangeFails(err) /\ Returns(DoError(err))
       \/ \E code \in AppCode \cup {"artifact_too_large"} :
             Refuse(code, "screenshot_failed") /\ Returns(code)
       \/ \E err \in {"reset", "unexpected_eof"} :
             RefuseUnread(err) /\ Returns(ReadError(err))
    /\ UNCHANGED <<environmentVars, config, paired, fileVars>>

ResponseOpens ==
    /\ command.step = "open"
    /\ \E r \in Response : Open(r)
    /\ GoTo("opened")
    /\ UNCHANGED <<environmentVars, config, paired, fileVars>>

(* The headers of the screenshot do not parse, or the download is not the  *)
(* one that was announced.                                                 *)
ResponseIsUnexpected ==
    /\ command.step = "opened"
    /\ Fails(IF config.deadline THEN "artifact_checksum_mismatch" ELSE "protocol_mismatch")

--------------------------------------------------------------------------------
(* artifact.Write *)

(* MkdirAll and CreateTemp *)
CreateTemp ==
    /\ command.step = "opened"
    /\ \/ Fails("io_failure")
       \/ /\ temp' = "some"
          /\ GoTo("copy")
          /\ UNCHANGED <<environmentVars, dialVars, clientVars, config, paired, dest, printed>>

(* io.Copy, one chunk after the other *)
CopyReads ==
    /\ command.step = "copy"
    /\ BeginRead \/ ReadChunk
    /\ UNCHANGED <<environmentVars, config, paired, command, fileVars>>

CopyEnds ==
    /\ command.step = "copy"
    /\ \E content \in Content : ReadEnd(content)
    /\ GoTo("verify")
    /\ UNCHANGED <<environmentVars, config, paired, fileVars>>

(* The body fails with a code of its own; Chmod or a write fails. *)
CopyFails ==
    /\ command.step = "copy"
    /\ \/ \E err \in {"deadline", "closed", "reset", "timeout", "unexpected_eof"} :
             ReadFails(err) /\ Fails(ReadError(err))
       \/ ~body.reading /\ Fails("io_failure")

(* Sync and Close, the digest, and ValidatePNG or ValidateMP4 *)
Verify ==
    /\ command.step = "verify"
    /\ \/ Fails("io_failure")
       \/ /\ body.content = "corrupt"
          /\ Fails("artifact_checksum_mismatch")
       \/ /\ body.content = "malformed"
          /\ Fails(IF config.deadline THEN "recording_not_available" ELSE "screenshot_failed")
       \/ /\ body.content = "whole"
          /\ GoTo("link")
          /\ UNCHANGED <<environmentVars, dialVars, clientVars, config, paired, fileVars>>

Artifact == [owner |-> "command", from |-> socket.peer, content |-> body.content]

(* Slip: the temporary file is renamed over the destination. *)
LinkReplacing ==
    /\ command.step = "link"
    /\ \/ Fails("io_failure")
       \/ /\ dest' = Artifact
          /\ GoTo("unlink")
          /\ UNCHANGED <<environmentVars, dialVars, clientVars, config, paired, temp, printed>>

(* linkNoReplace: the commit point *)
Link ==
    /\ command.step = "link"
    /\ \/ Fails("io_failure")
       \/ /\ dest = Absent
          /\ dest' = Artifact
          /\ GoTo("unlink")
          /\ UNCHANGED <<environmentVars, dialVars, clientVars, config, paired, temp, printed>>

(* Slip: a temporary file that cannot be removed makes the command fail. *)
UnlinkOrFail ==
    /\ command.step = "unlink"
    /\ \/ temp' = "none" /\ GoTo("print")
       \/ temp' = "stuck" /\ Returns("io_failure")
    /\ UNCHANGED <<environmentVars, dialVars, clientVars, config, paired, dest, printed>>

(* The temporary name goes, now or when Write returns; that it stays is no *)
(* failure.                                                                *)
Unlink ==
    /\ command.step = "unlink"
    /\ RemoveTemp
    /\ GoTo("print")
    /\ UNCHANGED <<environmentVars, dialVars, clientVars, config, paired, dest, printed>>

(* Runtime.Success; an error of the JSON encoder has no stable code. *)
PrintResult ==
    /\ command.step = "print"
    /\ \/ printed' = "printed" /\ Returns("ok")
       \/ printed' = "lost" /\ \E err \in {"plain", "io_failure"} : Returns(err)
    /\ UNCHANGED <<environmentVars, dialVars, clientVars, config, paired, temp, dest>>

--------------------------------------------------------------------------------
(* The environment *)

(* Devices matter to the USB transport only. *)
World ==
    /\ Running /\ config.transport = "usb"
    /\ \/ \E u \in Udid, type \in ConnectionType : Attach(u, type)
       \/ \E e \in table : Detach(e)
    /\ UNCHANGED <<dialVars, clientVars, config, paired, command, fileVars>>

(* Another process creates a file where the artifact is to be. *)
RivalCreates ==
    /\ Running /\ dest = Absent
    /\ dest' = Foreign
    /\ UNCHANGED <<environmentVars, dialVars, clientVars, config, paired, command, temp, printed>>

(* The goroutines and connections go with the process. *)
Kill ==
    /\ Running
    /\ GoTo("killed")
    /\ ctx' = "live" /\ http' = "idle" /\ body' = NoBody
    /\ dialCtx' = "live" /\ dial' = NoDial /\ worker' = NoWorker
    /\ opened' = FALSE /\ results' = None /\ socket' = NoSocket
    /\ UNCHANGED <<environmentVars, config, paired, fileVars>>

Background(step) ==
    /\ command.step # "killed"
    /\ step
    /\ UNCHANGED <<environmentVars, config, paired, command, fileVars>>

Worker == Background(WorkerStep /\ UNCHANGED clientVars)
Loop == Background((LoopStep \/ DialTCP) /\ UNCHANGED clientVars)
Exchange == Background(Connected \/ EndDialContext \/ CloseLateConnection)
Watcher == Background(Watch)

CommandStep ==
    \/ ResolveTCP \/ ResolveUSB
    \/ \E answer \in DevicectlFailure \cup LockAnswer \cup {"io_failure"} : CheckDevice(answer)
    \/ SendRequest \/ RequestFails \/ ResponseOpens
    \/ ResponseIsUnexpected \/ CreateTemp
    \/ CopyReads \/ CopyEnds \/ CopyFails
    \/ Verify \/ Link \/ Unlink \/ PrintResult

Terminated ==
    /\ ~Running
    /\ UNCHANGED vars

Next ==
    \/ CommandStep
    \/ Worker \/ Loop \/ Exchange \/ Watcher
    \/ DeadlinePasses
    \/ World \/ RivalCreates \/ Kill
    \/ Terminated

Spec == Init /\ [][Next]_vars

(* Goroutines that can run do; usbmuxd is opened or refused, and a call on *)
(* a closed connection returns, but usbmuxd, devicectl and the App may     *)
(* leave every other call without an answer.  The deadline of a context    *)
(* passes, and a request or a TCP dial whose context is done returns.      *)
FairSpec ==
    /\ Spec
    /\ WF_vars(Background(OpenMux /\ UNCHANGED clientVars))
    /\ WF_vars(socket.state = "closed" /\ Worker)
    /\ WF_vars(Background(LoopStep /\ UNCHANGED clientVars))
    /\ WF_vars(dialCtx = "done" /\ Loop)
    /\ WF_vars(Watcher)
    /\ WF_vars(DeadlinePasses)
    /\ WF_vars(ctx = "done" /\ RequestFails)
    /\ WF_vars(CopyFails /\ (body.reading => body.state = "closed"))
    /\ WF_vars(CopyEnds)
    /\ WF_vars(SendRequest \/ CreateTemp \/ ResponseIsUnexpected)
    /\ WF_vars(Verify \/ Link \/ Unlink \/ PrintResult)
--------------------------------------------------------------------------------
(* The bytes come from the device the command selected, over its cable,    *)
(* though devices are plugged in and out between the listing, the lookup   *)
(* in usbmuxd and the connection: numbers in usbmuxd's table are not       *)
(* devices.  (connectUSB, Runtime.Resolve)                                 *)
SelectedDeviceAnswers ==
    /\ config.transport = "usb" /\ socket.peer # None =>
          /\ socket.peer.udid = command.device
          /\ socket.peer.type = "USB"
          /\ config.device \in {None, command.device}
    /\ config.transport = "tcp" => socket.peer \in {None, Loopback}

(* A connection is open only while somebody will close it: the goroutine   *)
(* that dials, a result nobody has received, or the exchange of a command  *)
(* that has not returned.  And what Dial hands over is open, though the    *)
(* loop may close it in the middle of the dial.  (Dial, finishUSBResult)   *)
SocketHasAnOwner ==
    /\ socket.state = "open" =>
          \/ worker.pc \in {"listing", "connecting"}
          \/ dial.pc = "waiting" /\ results = "ok"
          \/ dial.pc = "returned" /\ http \in {"dialing", "abandoned"}
          \/ http \in {"awaiting", "open"} /\ command.step # "exited"
    /\ dial.pc = "returned" /\ dial.code = "ok" /\ http # "closed" => socket.state = "open"

(* The destination holds nothing, somebody else's file, or a verified      *)
(* artifact, even after a kill; the exit status is 0 just when the         *)
(* artifact was committed and reported, a failure after the commit is only *)
(* one of the output, and no temporary file is forgotten.                  *)
(* (artifact.Write, Execute)                                               *)
ExitTellsTheTruth ==
    /\ dest.owner = "command" => dest.content = "whole"
    /\ command.step = "exited" =>
          /\ Execute(command.error) = 0 <=> dest.owner = "command" /\ printed = "printed"
          /\ dest.owner = "command" => printed # "unprinted"
          /\ temp # "some"

(* Whatever is at the destination is never replaced or removed.            *)
(* (linkNoReplace)                                                         *)
DestinationIsNeverReplaced == [][dest # Absent => dest' = dest]_vars

(* A deadline ends the command, though the App sends nothing more and      *)
(* usbmuxd answers nothing, and a dial whose context is done returns.      *)
(* (contextReadCloser, Dial)                                               *)
DeadlinesEndWaiting ==
    /\ ctx = "done" ~> ~Running
    /\ dialCtx = "done" ~> dial.pc = "returned" \/ command.step = "killed"
================================================================================
