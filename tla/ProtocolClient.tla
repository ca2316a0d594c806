---------------------------- MODULE ProtocolClient -----------------------------
(***************************************************************************)
(* protocol.Client.OpenBinary on top of DeviceTransport: one request on a  *)
(* connection of its own, the examination of the answer, and the body,     *)
(* which the reader, the reader's deferred Close and a watcher of the      *)
(* context share.                                                          *)
(*                                                                         *)
(* net/http is external.  It dials in a goroutine that outlives a request  *)
(* whose context is done; whether it also ends the context of the dial is  *)
(* left open, and a connection that arrives too late it closes, since keep *)
(* alive is disabled.                                                      *)
(***************************************************************************)
EXTENDS DeviceTransport

CONSTANT
    MaxLength       \* bound on the chunks of a body

VARIABLES
    ctx,        \* the context of the request: "live" or "done"
    http,       \* the exchange: what it waits for, and whether its request was abandoned
    body        \* contextReadCloser: the chunks left, its content, reader and watcher

clientVars == <<ctx, http, body>>

Content == {"whole", "corrupt", "malformed"}

NoBody == [state |-> "none", left |-> 0, content |-> "none", reading |-> FALSE, watcher |-> "none"]

ClientInit ==
    /\ ctx = "live"
    /\ http = "idle"
    /\ body = NoBody

(* What may be wrong with an answer, apart from its status *)
Fault == {"framing", "mime", "size", "metadata"}

Response == [status : {"2xx", "401", "403", "failure"}, faults : SUBSET Fault]

(* The checks of OpenBinary in their order: authenticationError,           *)
(* validateHTTPResponse, requireMIME, the length, and then the headers of  *)
(* a success or the envelope of a failure, which carries the App's code.   *)
Verdict(r, appCode) ==
    CASE r.status = "401" -> "auth_required"
      [] r.status = "403" -> "auth_failed"
      [] "framing" \in r.faults -> "protocol_mismatch"
      [] "mime" \in r.faults -> "protocol_mismatch"
      [] "size" \in r.faults -> "artifact_too_large"
      [] "metadata" \in r.faults -> "protocol_mismatch"
      [] r.status = "failure" -> appCode
      [] OTHER -> "ok"

(* do: a code of the transport stays, every other error means that the App *)
(* was not reachable.                                                      *)
DoError(err) ==
    CASE err \in {"deadline", "timeout"} -> "request_timeout"
      [] CodeOf(err) # "protocol_mismatch" -> CodeOf(err)
      [] OTHER -> "app_not_reachable"

(* classifyReadError *)
ReadError(err) ==
    CASE ctx = "done" \/ err \in {"deadline", "timeout"} -> "request_timeout"
      [] err = "reset" -> "transport_failure"
      [] OTHER -> "protocol_mismatch"

--------------------------------------------------------------------------------
(* net/http *)

Send(target) ==
    /\ http = "idle"
    /\ http' = "dialing"
    /\ Dial(target)
    /\ UNCHANGED <<ctx, body>>

Connected ==
    /\ http = "dialing"
    /\ dial.pc = "returned" /\ dial.code = "ok"
    /\ http' = "awaiting"
    /\ UNCHANGED <<ctx, body, dialVars>>

EndDialContext ==
    /\ http = "abandoned" /\ dial.pc = "waiting" /\ dialCtx = "live"
    /\ dialCtx' = "done"
    /\ UNCHANGED <<clientVars, dial, worker, opened, results, socket>>

CloseLateConnection ==
    /\ http = "abandoned" /\ dial.pc = "returned"
    /\ http' = "closed"
    /\ socket' = IF socket.state = "open" THEN [socket EXCEPT !.state = "closed"] ELSE socket
    /\ UNCHANGED <<ctx, body, dialCtx, dial, worker, opened, results>>

(* The errors with which the exchange may end, and what is left of it *)
ExchangeFails(err) ==
    /\ \/ /\ ctx = "done" /\ http = "dialing" /\ err = "deadline"
          /\ http' = "abandoned"
          /\ UNCHANGED socket
       \/ /\ http = "dialing" /\ dial.pc = "returned" /\ dial.code # "ok" /\ err = dial.code
          /\ http' = "closed"
          /\ UNCHANGED socket
       \/ /\ http = "awaiting"
          /\ err = "deadline" => ctx = "done"
          /\ err \in {"deadline", "timeout", "plain", "artifact_too_large"}
          /\ http' = "closed"
          /\ CloseSocket
    /\ UNCHANGED <<ctx, body, dialCtx, dial, worker, opened, results>>

--------------------------------------------------------------------------------
(* OpenBinary with an answer that is refused: the body is closed. *)
Refuse(code, appCode) ==
    /\ http = "awaiting"
    /\ \E r \in Response : Verdict(r, appCode) = code
    /\ code # "ok"
    /\ http' = "closed"
    /\ CloseSocket
    /\ UNCHANGED <<ctx, body, dialCtx, dial, worker, opened, results>>

(* The envelope of a failure cannot be read to its end. *)
RefuseUnread(err) ==
    /\ http = "awaiting"
    /\ err \in {"reset", "unexpected_eof"}
    /\ http' = "closed"
    /\ CloseSocket
    /\ UNCHANGED <<ctx, body, dialCtx, dial, worker, opened, results>>

(* OpenBinary succeeds: newContextReadCloser starts the watcher. *)
Open(r) ==
    /\ http = "awaiting"
    /\ Verdict(r, "ok") = "ok" /\ r.status = "2xx"
    /\ http' = "open"
    /\ \E length \in 0..MaxLength :
          body' = [state |-> "open", left |-> length, content |-> "none",
                   reading |-> FALSE, watcher |-> "waiting"]
    /\ UNCHANGED <<ctx, dialVars>>

--------------------------------------------------------------------------------
(* The body *)

(* contextReadCloser.Close: whoever comes first closes the connection. *)
Closed(b) == [b EXCEPT !.state = "closed", !.reading = FALSE]

CloseBody ==
    /\ body' = IF body.state = "none" THEN body ELSE Closed(body)
    /\ http' = IF http = "open" THEN "closed" ELSE http
    /\ socket' = IF http = "open" THEN [socket EXCEPT !.state = "closed"] ELSE socket

(* The watcher: the context is done, or the body was closed. *)
Watch ==
    /\ body.watcher = "waiting"
    /\ \/ /\ ctx = "done" /\ body.state = "open"
          /\ body' = [body EXCEPT !.state = "closed", !.watcher = "ended"]
          /\ http' = "closed"
          /\ CloseSocket
       \/ /\ body.state = "closed"
          /\ body' = [body EXCEPT !.watcher = "ended"]
          /\ UNCHANGED <<http, socket>>
    /\ UNCHANGED <<ctx, dialCtx, dial, worker, opened, results>>

(* Read with a live context asks the connection for more. *)
BeginRead ==
    /\ body.state # "none" /\ ~body.reading
    /\ ctx = "live"
    /\ body' = [body EXCEPT !.reading = TRUE]
    /\ UNCHANGED <<ctx, http, dialVars>>

(* The peer of the connection is still there. *)
PeerAttached == socket.peer = Loopback \/ socket.peer \in table

ReadChunk ==
    /\ body.reading /\ body.state = "open" /\ body.left > 0
    /\ PeerAttached
    /\ body' = [body EXCEPT !.reading = FALSE, !.left = @ - 1]
    /\ UNCHANGED <<ctx, http, dialVars>>

(* The end of the body: it is as long as announced, but may be corrupt or  *)
(* no image; Read itself closes it.                                        *)
ReadEnd(content) ==
    /\ body.reading /\ body.state = "open" /\ body.left = 0
    /\ body' = [Closed(body) EXCEPT !.content = content]
    /\ http' = "closed"
    /\ CloseSocket
    /\ UNCHANGED <<ctx, dialCtx, dial, worker, opened, results>>

(* Read fails: the context was done before, the connection broke, or the   *)
(* watcher closed the body in the middle.                                  *)
ReadFails(err) ==
    \/ ~body.reading /\ ctx = "done" /\ err = "deadline"
    \/ body.reading /\ body.state = "closed" /\ err = "closed"
    \/ /\ body.reading /\ body.state = "open" /\ err \in {"reset", "timeout"}
    \/ /\ body.reading /\ body.state = "open" /\ body.left > 0 /\ err = "unexpected_eof"
================================================================================
