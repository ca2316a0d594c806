---------------------------- MODULE DeviceTransport ----------------------------
(***************************************************************************)
(* The transports of the CLI: usbTransport.Dial with the goroutine that    *)
(* opens usbmuxd, lists the devices and connects, and tcpTransport.Dial.   *)
(* The environment is usbmuxd (external): its table of attached devices    *)
(* changes at any moment, and every attachment gets a number of its own.   *)
(***************************************************************************)
EXTENDS ErrorCodes

CONSTANTS
    None,
    Udid,           \* the devices
    Loopback,       \* the peer of a TCP connection
    MaxNumber       \* bound on attachments

VARIABLES
    table,      \* usbmuxd's entries
    number,     \* the last number usbmuxd gave out
    dialCtx,    \* the context of Dial: "live" or "done"
    dial,       \* Dial's loop: its target, what it knows, what it returned
    worker,     \* Dial's goroutine: its next call and the entry it matched
    opened,     \* the channel `opened` holds the connection to usbmuxd
    results,    \* the channel `results`: the error sent on it, or None
    socket      \* the connection to usbmuxd, later to the peer

environmentVars == <<table, number>>
dialVars == <<dialCtx, dial, worker, opened, results, socket>>

ConnectionType == {"USB", "Network"}

Entry == [udid : Udid, number : 1..MaxNumber, type : ConnectionType]

(* A device is an identifier, which is neither the absence of one nor the  *)
(* address of the TCP transport; None stands for an empty result, too.     *)
ASSUME PeerAssumption ==
    /\ None \notin Udid \cup {Loopback} \cup Entry
    /\ Loopback \notin Udid \cup Entry
    /\ None \notin TransportCode \cup {"ok"}
    /\ MaxNumber \in Nat \ {0}

NoDial == [pc |-> "idle", target |-> None, canceled |-> FALSE, active |-> FALSE, code |-> "ok"]
NoWorker == [pc |-> "none", match |-> None]
NoSocket == [state |-> "none", peer |-> None]

TransportInit ==
    /\ table \in {{}} \cup {{[udid |-> u, number |-> 1, type |-> t]} : u \in Udid, t \in ConnectionType}
    /\ number = 1
    /\ dialCtx = "live"
    /\ dial = NoDial
    /\ worker = NoWorker
    /\ opened = FALSE
    /\ results = None
    /\ socket = NoSocket

--------------------------------------------------------------------------------
(* The cable is plugged in, or the device joins the network. *)
Attach(u, type) ==
    /\ number < MaxNumber
    /\ \A e \in table : ~(e.udid = u /\ e.type = type)
    /\ number' = number + 1
    /\ table' = table \cup {[udid |-> u, number |-> number + 1, type |-> type]}

Detach(e) == table' = table \ {e} /\ UNCHANGED number

--------------------------------------------------------------------------------
(* Dial, called for the device `target`, or for Loopback *)
Dial(target) ==
    /\ dial.pc = "idle"
    /\ dial' = [NoDial EXCEPT !.pc = "waiting", !.target = target]
    /\ worker' = [worker EXCEPT !.pc = IF target = Loopback THEN "tcp" ELSE "opening"]
    /\ UNCHANGED <<dialCtx, opened, results, socket>>

CloseSocket == socket' = [socket EXCEPT !.state = "closed"]

(* The goroutine sends its result and ends. *)
WorkerSends(result) ==
    /\ worker' = [worker EXCEPT !.pc = "done"]
    /\ results' = result

OpenMux ==
    /\ worker.pc = "opening"
    /\ \/ /\ socket' = [state |-> "open", peer |-> None]
          /\ opened' = TRUE
          /\ worker' = [worker EXCEPT !.pc = "listing"]
          /\ UNCHANGED results
       \/ WorkerSends("transport_failure") /\ UNCHANGED <<opened, socket>>
    /\ UNCHANGED <<dialCtx, dial>>

(* Slip: the entries of the network are as good. *)
MatchesByUdid(u) == {e \in table : e.udid = u}

(* The entries connectUSB accepts; the first one of the listing is used. *)
Matches(u) == {e \in table : e.udid = u /\ e.type = "USB"}

(* connectUSB: ListDevices, which fails on a closed socket, and the match *)
ListEntries ==
    /\ worker.pc = "listing"
    /\ \/ /\ socket.state = "open"
          /\ \E e \in Matches(dial.target) : worker' = [pc |-> "connecting", match |-> e]
          /\ UNCHANGED <<results, socket>>
       \/ WorkerSends("transport_failure") /\ CloseSocket
    /\ UNCHANGED <<dialCtx, dial, opened>>

(* connectUSB: Connect by number and ReleaseConnection; a number that is   *)
(* no longer attached, an App that does not listen and a closed socket     *)
(* fail.                                                                   *)
Connect ==
    /\ worker.pc = "connecting"
    /\ \/ /\ socket.state = "open" /\ worker.match \in table
          /\ socket' = [socket EXCEPT !.peer = worker.match]
          /\ WorkerSends("ok")
       \/ \E code \in {"app_not_reachable", "transport_failure"} : WorkerSends(code) /\ CloseSocket
    /\ UNCHANGED <<dialCtx, dial, opened>>

(* Slip: a connection that is opened after the cancellation is kept. *)
ReceiveOpenedOnly ==
    /\ dial.pc = "waiting" /\ opened
    /\ opened' = FALSE
    /\ dial' = [dial EXCEPT !.active = TRUE]
    /\ UNCHANGED <<dialCtx, worker, results, socket>>

(* The three cases of Dial's select *)
ReceiveOpened ==
    /\ dial.pc = "waiting" /\ opened
    /\ opened' = FALSE
    /\ dial' = [dial EXCEPT !.active = TRUE]
    /\ IF dial.canceled THEN CloseSocket ELSE UNCHANGED socket
    /\ UNCHANGED <<dialCtx, worker, results>>

ReceiveDone ==
    /\ dial.pc = "waiting" /\ worker.pc # "tcp"
    /\ dialCtx = "done" /\ ~dial.canceled
    /\ dial' = [dial EXCEPT !.canceled = TRUE]
    /\ IF dial.active THEN CloseSocket ELSE UNCHANGED socket
    /\ UNCHANGED <<dialCtx, worker, opened, results>>

(* Slip: the result counts, whatever became of the context. *)
ReceiveResultAnyway ==
    /\ dial.pc = "waiting" /\ results # None
    /\ results' = None
    /\ dial' = [dial EXCEPT !.pc = "returned", !.code = results]
    /\ UNCHANGED <<dialCtx, worker, opened, socket>>

(* finishUSBResult: a finished context overrides the result, and the       *)
(* connection is closed.                                                   *)
ReceiveResult ==
    /\ dial.pc = "waiting" /\ results # None
    /\ results' = None
    /\ dial' = [dial EXCEPT !.pc = "returned",
                            !.code = IF dialCtx = "done" THEN "request_timeout" ELSE results]
    /\ IF dialCtx = "done" /\ results = "ok" THEN CloseSocket ELSE UNCHANGED socket
    /\ UNCHANGED <<dialCtx, worker, opened>>

(* tcpTransport.Dial: a context that is done and a timeout of the network  *)
(* are timeouts, every other error means that nobody listens.              *)
DialTCP ==
    /\ dial.pc = "waiting" /\ worker.pc = "tcp"
    /\ worker' = [worker EXCEPT !.pc = "done"]
    /\ \/ /\ socket' = [state |-> "open", peer |-> Loopback]
          /\ dial' = [dial EXCEPT !.pc = "returned"]
       \/ /\ \E code \in {"request_timeout", "app_not_reachable"} :
                dial' = [dial EXCEPT !.pc = "returned", !.code = code]
          /\ UNCHANGED socket
    /\ UNCHANGED <<dialCtx, opened, results>>

WorkerStep == OpenMux \/ ListEntries \/ Connect

LoopStep == ReceiveOpened \/ ReceiveDone \/ ReceiveResult
================================================================================
