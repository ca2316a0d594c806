------------------------ MODULE RecordingCommandsProofs ------------------------
(***************************************************************************)
(* The recording commands for any number of shells and recordings, and for *)
(* any bounds of the retention rule.                                       *)
(***************************************************************************)
EXTENDS RecordingCommands, TLAPS

(* One session at a time: the App works on at most one start or stop, the  *)
(* one of the current session, and offers a recording only when ready.     *)
Sessions ==
    /\ phase # "ready" => current = None
    /\ phase = "stopping" => stoppedAt # None
    /\ \A s \in Shell : request[s].state = "running" =>
          \/ request[s].op = "start" /\ phase = "starting"
          \/ request[s].op = "stop" /\ phase = "stopping"
    /\ \A s, t \in Shell :
          request[s].state = "running" /\ request[t].state = "running" => s = t
    /\ Stored \subseteq used

(* What the App knows of a recording when a request names it: the answer   *)
(* to a stop is a recording nobody else has heard of, and a delete is sent *)
(* for a recording only that is whole on the computer.                     *)
Requests ==
    \A s \in Shell :
        /\ request[s].op = "stop" /\ request[s].state = "ok" =>
              /\ request[s].id \in used
              /\ \A t \in Shell : command[t].id # request[s].id
              /\ \A t \in Shell :
                    t # s /\ request[t].op = "stop" /\ request[t].state = "ok" =>
                       request[t].id # request[s].id
        /\ request[s].op = "delete" =>
              request[s].id \in used /\ local[request[s].id] = "whole"
        /\ request[s].op = "delete" /\ request[s].state = "ok" => request[s].id \notin Stored

(* A running command waits for the request it sent, and has printed        *)
(* nothing yet.                                                            *)
Commands ==
    \A s \in Shell :
        /\ command[s].id \in used \cup {None}
        /\ command[s].step # "none" =>
              request[s].op = command[s].step /\ command[s].exit = "none" /\ ~command[s].deleted
        /\ command[s].step \in {"start", "stop"} => command[s].id = None
        /\ command[s].step \in {"open", "delete"} =>
              command[s].id \in used /\ request[s].id = command[s].id

CommandsInvariant ==
    /\ TypeOK
    /\ Sessions
    /\ Requests
    /\ Commands
    /\ NothingLost
    /\ ArtifactsAreWhole
    /\ OneCommandPerRecording

--------------------------------------------------------------------------------
Op == {"none", "start", "stop", "open", "delete"}

RequestRecord ==
    [op : Op, id : Recording \cup {None}, state : {"none", "sent", "running", "ok", "error"}]

CommandRecord ==
    [step : Op, id : Recording \cup {None}, exit : {"none", "success", "error"}, deleted : BOOLEAN]

(* The retention rule removes completed recordings only. *)
LEMMA RetentionRemovesStored ==
  ASSUME NEW now, NEW created
  PROVE  ToDelete(now, created) \subseteq DOMAIN created
  BY DEF ToDelete, Expired, OverLimit

(* So does a cleanup some of whose removals fail. *)
LEMMA RemovalsAreStored ==
  ASSUME NEW gone \in Removals
  PROVE  gone \subseteq Expiring /\ gone \subseteq Stored
  BY RetentionRemovesStored DEF Removals, Expiring, Stored

LEMMA StoredAfter ==
  ASSUME NEW gone, createdAt' = Without(gone)
  PROVE  Stored' = Stored \ gone /\ \A r \in Stored' : createdAt'[r] = createdAt[r]
  BY DEF Stored, Without

(* What the operators on requests and commands change: the record of one   *)
(* shell, in the fields they name.                                         *)
LEMMA AnswerChanges ==
  ASSUME request \in [Shell -> RequestRecord], NEW s \in Shell,
         NEW answer \in {"none", "sent", "running", "ok", "error"}, Answer(s, answer)
  PROVE  /\ request' \in [Shell -> RequestRecord]
         /\ request'[s].state = answer
         /\ request'[s].op = request[s].op
         /\ request'[s].id = request[s].id
         /\ \A t \in Shell \ {s} : request'[t] = request[t]
  BY DEF Answer, RequestRecord

LEMMA SendChanges ==
  ASSUME request \in [Shell -> RequestRecord], NEW s \in Shell, NEW op \in Op,
         NEW id \in Recording \cup {None}, Send(s, op, id)
  PROVE  /\ request' \in [Shell -> RequestRecord]
         /\ request'[s].state = "sent"
         /\ request'[s].op = op
         /\ request'[s].id = id
         /\ \A t \in Shell \ {s} : request'[t] = request[t]
  BY DEF Send, RequestRecord

LEMMA ClearChanges ==
  ASSUME request \in [Shell -> RequestRecord], NEW s \in Shell,
         request' = [request EXCEPT ![s] = NoRequest]
  PROVE  /\ request' \in [Shell -> RequestRecord]
         /\ request'[s].state = "none"
         /\ request'[s].op = "none"
         /\ \A t \in Shell \ {s} : request'[t] = request[t]
  BY DEF NoRequest, RequestRecord, Op

LEMMA ExitChanges ==
  ASSUME command \in [Shell -> CommandRecord], NEW s \in Shell,
         NEW exit \in {"none", "success", "error"}, NEW deleted \in BOOLEAN,
         Exit(s, exit, deleted)
  PROVE  /\ command' \in [Shell -> CommandRecord]
         /\ command'[s].step = "none"
         /\ command'[s].id = command[s].id
         /\ command'[s].exit = exit
         /\ command'[s].deleted = deleted
         /\ \A t \in Shell \ {s} : command'[t] = command[t]
  BY DEF Exit, CommandRecord, Op

LEMMA TypeSplit ==
  TypeOK => request \in [Shell -> RequestRecord] /\ command \in [Shell -> CommandRecord]
  BY DEF TypeOK, RequestRecord, CommandRecord, Op

--------------------------------------------------------------------------------
USE CommandsAssumption

(* An answer to one shell, while the App loses recordings at most, keeps   *)
(* what requests and commands know, unless it is the recording of a stop.  *)
LEMMA AnswerIsSafe ==
  ASSUME CommandsInvariant, NEW s \in Shell,
         NEW answer \in {"none", "sent", "running", "ok", "error"}, Answer(s, answer),
         request[s].op = "stop" => answer # "ok",
         request[s].op = "delete" /\ answer = "ok" => request[s].id \notin Stored',
         Stored' \subseteq Stored,
         UNCHANGED <<used, command, local>>
  PROVE  /\ Requests' /\ Commands' /\ ArtifactsAreWhole' /\ OneCommandPerRecording'
         /\ request' \in [Shell -> RequestRecord]
         /\ request'[s].state = answer /\ request'[s].op = request[s].op
         /\ \A t \in Shell \ {s} : request'[t] = request[t]
  <1>1. request \in [Shell -> RequestRecord]
    BY TypeSplit DEF CommandsInvariant
  <1>2. /\ request' \in [Shell -> RequestRecord]
        /\ request'[s].state = answer /\ request'[s].op = request[s].op
        /\ request'[s].id = request[s].id
        /\ \A t \in Shell \ {s} : request'[t] = request[t]
    BY <1>1, AnswerChanges
  <1>3. Requests'
    BY <1>2 DEF CommandsInvariant, Requests
  <1>4. Commands'
    BY <1>2 DEF CommandsInvariant, Commands
  <1>5. ArtifactsAreWhole' /\ OneCommandPerRecording'
    BY DEF CommandsInvariant, ArtifactsAreWhole, OneCommandPerRecording
  <1> QED
    BY <1>2, <1>3, <1>4, <1>5

(* cleanup() and a delete lose no recording that is not on the computer.   *)
LEMMA RemovalIsSafe ==
  ASSUME CommandsInvariant, NEW gone \in Removals, NEW removed \in SUBSET Stored,
         \A r \in removed : local[r] = "whole",
         Remove(gone, removed),
         UNCHANGED <<used, local, clock>>
  PROVE  /\ Stored' = Stored \ (gone \cup removed)
         /\ NothingLost'
         /\ Stored' \subseteq Recording /\ \A r \in Stored' : createdAt'[r] \in 0..MaxClock
         /\ aged' \subseteq Recording
  <1>1. gone \subseteq Stored
    BY RemovalsAreStored
  <1>2. /\ createdAt' = Without(gone \cup removed)
        /\ aged' = aged \cup gone
    BY DEF Remove
  <1>3. /\ Stored' = Stored \ (gone \cup removed)
        /\ \A r \in Stored' : createdAt'[r] = createdAt[r]
    BY <1>2, StoredAfter
  <1>4. NothingLost'
    BY <1>1, <1>2, <1>3 DEF CommandsInvariant, NothingLost
  <1> QED
    BY <1>1, <1>2, <1>3, <1>4 DEF CommandsInvariant, TypeOK

(* The App's handlers keep the invariant. *)
LEMMA AppPreserves ==
  ASSUME CommandsInvariant, NEW s \in Shell, AppStep(s)
  PROVE  CommandsInvariant'
  <1> USE DEF CommandsInvariant
  <1>e. ASSUME NEW answer \in {"running", "ok", "error"}, Answer(s, answer),
               UNCHANGED <<current, createdAt, used, aged, command, local, clock, restarts>>,
               request[s].op \in {"start", "stop"},
               request[s].op = "stop" => answer # "ok",
               phase' \in {"idle", "starting", "recording", "stopping", "ready", "failed"},
               stoppedAt' \in (0..MaxClock) \cup {None},
               Sessions'
        PROVE  CommandsInvariant'
    <2>1. Stored' = Stored
      BY <1>e DEF Stored
    <2>2. /\ Requests' /\ Commands' /\ ArtifactsAreWhole' /\ OneCommandPerRecording'
          /\ request' \in [Shell -> RequestRecord]
      BY <1>e, <2>1, AnswerIsSafe
    <2>3. TypeOK'
      BY <1>e, <2>1, <2>2 DEF TypeOK, RequestRecord, Op
    <2>4. NothingLost'
      BY <1>e, <2>1 DEF NothingLost
    <2> QED
      BY <1>e, <2>2, <2>3, <2>4
  <1>a. ASSUME NEW answer \in {"running", "ok", "error"}, Answer(s, answer)
        PROVE  /\ request'[s].state = answer /\ request'[s].op = request[s].op
               /\ \A t \in Shell \ {s} : request'[t] = request[t]
    BY <1>a, TypeSplit, AnswerChanges
  <1>1. CASE HandleStart(s)
    <2>1. UNCHANGED <<current, stoppedAt, used, command, local, clock, restarts>> /\ Asked(s, "start")
      BY <1>1 DEF HandleStart
    <2>2. CASE phase \in {"idle", "failed"}
      <3>0. PICK none \in SUBSET Stored : none = {}
        OBVIOUS
      <3>1. phase' = "starting" /\ Answer(s, "running")
        BY <1>1, <2>2 DEF HandleStart
      <3>g. PICK gone \in Removals : Remove(gone, none)
        BY <1>1, <2>2, <3>0 DEF HandleStart
      <3>2. /\ Stored' \subseteq Stored /\ NothingLost'
            /\ Stored' \subseteq Recording /\ \A r \in Stored' : createdAt'[r] \in 0..MaxClock
            /\ aged' \subseteq Recording
        BY <2>1, <3>0, <3>g, RemovalIsSafe
      <3>3. /\ Requests' /\ Commands' /\ ArtifactsAreWhole' /\ OneCommandPerRecording'
            /\ request' \in [Shell -> RequestRecord]
        BY <2>1, <3>1, <3>2, AnswerIsSafe DEF Asked
      <3>4. TypeOK'
        BY <2>1, <3>1, <3>2, <3>3 DEF TypeOK, RequestRecord, Op
      <3>5. Sessions'
        BY <2>1, <2>2, <3>1, <3>2, <1>a DEF Sessions, Asked
      <3> QED
        BY <3>2, <3>3, <3>4, <3>5
    <2>3. CASE phase \notin {"idle", "failed"}
      <3>1. Answer(s, "error") /\ UNCHANGED <<phase, createdAt, aged>>
        BY <1>1, <2>3 DEF HandleStart
      <3>2. Sessions'
        BY <2>1, <3>1, <1>a DEF Sessions, Stored
      <3> QED
        BY <2>1, <3>1, <3>2, <1>e DEF Asked, TypeOK
    <2> QED
      BY <2>2, <2>3
  <1>2. CASE FinishStart(s)
    <2>1. /\ UNCHANGED <<current, createdAt, stoppedAt, used, aged, command, local, clock, restarts>>
          /\ request[s].op = "start" /\ request[s].state = "running"
      BY <1>2 DEF FinishStart
    <2>2. PICK answer \in {"ok", "error"} : Answer(s, answer)
      BY <1>2 DEF FinishStart
    <2>3. phase' \in {"recording", "failed"}
      BY <1>2 DEF FinishStart
    <2>4. Sessions'
      BY <2>1, <2>2, <2>3, <1>a DEF Sessions, Stored
    <2> QED
      BY <2>1, <2>2, <2>3, <2>4, <1>e DEF TypeOK
  <1>3. CASE HandleStop(s)
    <2>1. UNCHANGED <<current, createdAt, used, aged, command, local, clock, restarts>> /\ Asked(s, "stop")
      BY <1>3 DEF HandleStop
    <2>2. CASE phase = "recording"
      <3>1. phase' = "stopping" /\ stoppedAt' = clock /\ Answer(s, "running")
        BY <1>3, <2>2 DEF HandleStop
      <3>2. clock \in 0..MaxClock /\ clock # None
        BY DEF TypeOK
      <3>3. Sessions'
        BY <2>1, <2>2, <3>1, <3>2, <1>a DEF Sessions, Stored, Asked
      <3> QED
        BY <2>1, <3>1, <3>2, <3>3, <1>e DEF Asked
    <2>3. CASE phase # "recording"
      <3>1. Answer(s, "error") /\ UNCHANGED <<phase, stoppedAt>>
        BY <1>3, <2>3 DEF HandleStop
      <3>2. Sessions'
        BY <2>1, <3>1, <1>a DEF Sessions, Stored
      <3> QED
        BY <2>1, <3>1, <3>2, <1>e DEF Asked, TypeOK
    <2> QED
      BY <2>2, <2>3
  <1>c. ASSUME NEW gone \in Removals, NEW removed \in SUBSET Stored,
               NEW answer \in {"ok", "error"},
               CleanupAndRemove(gone, removed), Answer(s, answer),
               \A r \in removed : local[r] = "whole",
               UNCHANGED <<stoppedAt, used, command, local, clock, restarts>>,
               \/ Asked(s, "open")
               \/ Asked(s, "delete") /\ (answer = "ok" => request[s].id \in removed)
        PROVE  CommandsInvariant'
    <2>1. Remove(gone, removed)
      BY <1>c DEF CleanupAndRemove
    <2>2. \/ phase' = "idle" /\ current' = None
          \/ UNCHANGED <<phase, current>>
      BY <1>c DEF CleanupAndRemove
    <2>3. /\ Stored' = Stored \ (gone \cup removed)
          /\ NothingLost'
          /\ Stored' \subseteq Recording /\ \A r \in Stored' : createdAt'[r] \in 0..MaxClock
          /\ aged' \subseteq Recording
      BY <1>c, <2>1, RemovalIsSafe
    <2>4. /\ Requests' /\ Commands' /\ ArtifactsAreWhole' /\ OneCommandPerRecording'
          /\ request' \in [Shell -> RequestRecord]
      BY <1>c, <2>3, AnswerIsSafe DEF Asked
    <2>5. TypeOK'
      BY <1>c, <2>2, <2>3, <2>4 DEF TypeOK, RequestRecord, Op
    <2>6. phase = "ready" \/ UNCHANGED phase
      BY <1>c DEF CleanupAndRemove
    <2>7. Sessions'
      BY <1>c, <2>2, <2>3, <2>6, <1>a DEF Sessions, Asked
    <2> QED
      BY <2>3, <2>4, <2>5, <2>7
  <1>4. CASE HandleOpen(s)
    <2>1. PICK gone \in Removals, none \in SUBSET Stored, answer \in {"ok", "error"} :
             none = {} /\ CleanupAndRemove(gone, none) /\ Answer(s, answer)
      BY <1>4 DEF HandleOpen
    <2> QED
      BY <1>4, <2>1, <1>c DEF HandleOpen
  <1>5. CASE HandleDelete(s)
    <2>1. request[s].op = "delete" => local[request[s].id] = "whole"
      BY DEF Requests
    <2>2. PICK gone \in Removals :
             \/ /\ request[s].id \in Stored \ gone
                /\ CleanupAndRemove(gone, {request[s].id})
                /\ Answer(s, "ok")
             \/ CleanupAndRemove(gone, {}) /\ Answer(s, "error")
      BY <1>5 DEF HandleDelete
    <2>3. CASE /\ request[s].id \in Stored \ gone
               /\ CleanupAndRemove(gone, {request[s].id})
               /\ Answer(s, "ok")
      BY <1>5, <2>1, <2>3, <1>c DEF HandleDelete, Asked
    <2>4. CASE CleanupAndRemove(gone, {}) /\ Answer(s, "error")
      <3>1. PICK none \in SUBSET Stored : none = {}
        OBVIOUS
      <3> QED
        BY <1>5, <2>4, <3>1, <1>c DEF HandleDelete
    <2> QED
      BY <2>2, <2>3, <2>4
  <1> QED
    BY <1>1, <1>2, <1>3, <1>4, <1>5 DEF AppStep

(* The commands, the network and the users keep the invariant: what they   *)
(* do to the App is to send a request.                                     *)
LEMMA ShellPreserves ==
  ASSUME CommandsInvariant, NEW s \in Shell,
         \/ CommandStep(s) \/ Invoke(s, "start") \/ Invoke(s, "stop")
         \/ Lose(s) \/ Forget(s) \/ GiveUp(s)
  PROVE  CommandsInvariant'
  <1> USE DEF CommandsInvariant
  <1>t. request \in [Shell -> RequestRecord] /\ command \in [Shell -> CommandRecord]
    BY TypeSplit
  <1>a. UNCHANGED <<appVars, clock, restarts>>
    BY DEF CommandStep, CommandFails, StartReturns, StopReturns, Download, DeleteReturns, Invoke,
           Lose, Forget, GiveUp
  <1>u. UNCHANGED <<phase, current, createdAt, stoppedAt, used, aged, clock, restarts>> /\ Stored' = Stored
    BY <1>a DEF appVars, Stored
  <1>s. ASSUME request' \in [Shell -> RequestRecord], command' \in [Shell -> CommandRecord],
               local' \in [Recording -> {"none", "whole", "cut"}],
               \A t \in Shell : request'[t].state = "running" => request'[t] = request[t]
        PROVE  TypeOK' /\ Sessions'
    <2>1. TypeOK'
      BY <1>s, <1>u DEF TypeOK, RequestRecord, CommandRecord, Op
    <2>2. Sessions'
      BY <1>s, <1>u DEF Sessions
    <2> QED
      BY <2>1, <2>2
  <1>l. local \in [Recording -> {"none", "whole", "cut"}]
    BY DEF TypeOK
  <1>n. UNCHANGED local => NothingLost'
    BY <1>u DEF NothingLost
  <1>c. "none" \in Op /\ "start" \in Op /\ "stop" \in Op /\ "open" \in Op /\ "delete" \in Op
    BY DEF Op
  (* A command ends, and its request is forgotten. *)
  <1>x. ASSUME NEW exit \in {"success", "error"}, NEW deleted \in BOOLEAN, Exit(s, exit, deleted),
               request' = [request EXCEPT ![s] = NoRequest], UNCHANGED local,
               exit = "success" /\ command[s].id # None => local[command[s].id] = "whole",
               deleted => command[s].id \notin Stored
        PROVE  CommandsInvariant'
    <2>1. /\ request' \in [Shell -> RequestRecord]
          /\ request'[s].state = "none" /\ request'[s].op = "none"
          /\ \A t \in Shell \ {s} : request'[t] = request[t]
      BY <1>x, <1>t, ClearChanges
    <2>2. /\ command' \in [Shell -> CommandRecord]
          /\ command'[s].step = "none" /\ command'[s].id = command[s].id
          /\ command'[s].exit = exit /\ command'[s].deleted = deleted
          /\ \A t \in Shell \ {s} : command'[t] = command[t]
      BY <1>x, <1>t, ExitChanges
    <2>3. \A t \in Shell : command'[t].id = command[t].id
      BY <2>2
    <2>4. TypeOK' /\ Sessions'
      BY <1>x, <2>1, <2>2, <1>s, <1>l
    <2>5. Requests'
      BY <1>x, <2>1, <2>3, <1>u DEF Requests
    <2>6. Commands'
      BY <2>1, <2>2, <1>u DEF Commands
    <2>7. ArtifactsAreWhole'
      BY <1>x, <2>2, <1>u DEF ArtifactsAreWhole
    <2>8. OneCommandPerRecording'
      BY <2>3 DEF OneCommandPerRecording
    <2> QED
      BY <1>x, <2>4, <2>5, <2>6, <2>7, <2>8, <1>n
  <1>1. CASE CommandFails(s)
    BY <1>1, <1>x DEF CommandFails
  <1>2. CASE StartReturns(s)
    <2>1. command[s].id = None
      BY <1>2 DEF StartReturns, Answered, Commands
    <2> QED
      BY <1>2, <2>1, <1>x DEF StartReturns
  <1>3. CASE StopReturns(s)
    <2> DEFINE id == request[s].id
    <2>0. /\ command[s].step = "stop" /\ request[s].op = "stop" /\ request[s].state = "ok"
          /\ UNCHANGED local
      BY <1>3 DEF StopReturns, Answered
    <2>1. /\ id \in used /\ id \in Recording /\ id # None
          /\ \A t \in Shell : command[t].id # id
          /\ \A t \in Shell : t # s /\ request[t].op = "stop" /\ request[t].state = "ok" =>
                request[t].id # id
          /\ command[s].exit = "none" /\ ~command[s].deleted
      BY <2>0 DEF Requests, Commands, TypeOK
    <2> HIDE DEF id
    <2>2. /\ request' \in [Shell -> RequestRecord]
          /\ request'[s].state = "sent" /\ request'[s].op = "open" /\ request'[s].id = id
          /\ \A t \in Shell \ {s} : request'[t] = request[t]
      BY <1>3, <2>1, <1>t, <1>c, SendChanges DEF StopReturns, id
    <2>3. /\ command' \in [Shell -> CommandRecord]
          /\ command'[s].step = "open" /\ command'[s].id = id
          /\ command'[s].exit = "none" /\ ~command'[s].deleted
          /\ \A t \in Shell \ {s} : command'[t] = command[t]
      <3>1. command' = [command EXCEPT ![s].step = "open", ![s].id = id]
        BY <1>3 DEF StopReturns, id
      <3>2. id \in Recording \cup {None}
        BY <2>1
      <3>3. /\ command' \in [Shell -> CommandRecord]
            /\ command'[s].step = "open" /\ command'[s].id = id
            /\ command'[s].exit = command[s].exit /\ command'[s].deleted = command[s].deleted
            /\ \A t \in Shell \ {s} : command'[t] = command[t]
        BY <3>1, <3>2, <1>t, <1>c DEF CommandRecord
      <3> QED
        BY <2>1, <3>3
    <2>4. TypeOK' /\ Sessions'
      BY <2>0, <2>2, <2>3, <1>s, <1>l
    <2>5. Requests'
      BY <2>0, <2>1, <2>2, <2>3, <1>u DEF Requests
    <2>6. Commands'
      BY <2>1, <2>2, <2>3, <1>u DEF Commands
    <2>7. ArtifactsAreWhole'
      BY <2>0, <2>3, <1>u DEF ArtifactsAreWhole
    <2>8. OneCommandPerRecording'
      BY <2>1, <2>3 DEF OneCommandPerRecording
    <2> QED
      BY <2>0, <2>4, <2>5, <2>6, <2>7, <2>8, <1>n
  <1>4. ASSUME NEW content \in {"whole", "cut"}, Download(s, content)
        PROVE  CommandsInvariant'
    <2> DEFINE id == command[s].id
    <2>0. command[s].step = "open" /\ request[s].op = "open"
      BY <1>4 DEF Download, Answered
    <2>1. id \in used /\ id \in Recording /\ request[s].id = id /\ command[s].exit = "none"
            /\ ~command[s].deleted
      BY <2>0 DEF Commands, TypeOK
    <2>2. CASE content = "whole"
      <3> HIDE DEF id
      <3>1. /\ local' \in [Recording -> {"none", "whole", "cut"}]
            /\ local'[id] = "whole"
            /\ \A r \in Recording \ {id} : local'[r] = local[r]
        BY <1>4, <2>1, <2>2, <1>l DEF Download, id
      <3>2. /\ request' \in [Shell -> RequestRecord]
            /\ request'[s].state = "sent" /\ request'[s].op = "delete" /\ request'[s].id = id
            /\ \A t \in Shell \ {s} : request'[t] = request[t]
        BY <1>4, <2>1, <2>2, <1>t, <1>c, SendChanges DEF Download, id
      <3>3. /\ command' \in [Shell -> CommandRecord]
            /\ command'[s].step = "delete" /\ command'[s].id = id
            /\ command'[s].exit = "none" /\ ~command'[s].deleted
            /\ \A t \in Shell \ {s} : command'[t] = command[t]
        <4>1. command' = [command EXCEPT ![s].step = "delete"]
          BY <1>4, <2>2 DEF Download
        <4> QED
          BY <2>1, <4>1, <1>t, <1>c DEF CommandRecord, id
      <3>4. TypeOK' /\ Sessions'
        BY <3>1, <3>2, <3>3, <1>s
      <3>5. \A r \in Recording : local[r] = "whole" => local'[r] = "whole"
        BY <3>1
      <3>6. \A t \in Shell : command'[t].id = command[t].id
        BY <3>3 DEF id
      <3>7. used \subseteq Recording
        BY DEF TypeOK
      <3>8. Requests'
        <4>1. /\ \A t \in Shell \ {s} : request'[t] = request[t]
              /\ request'[s].op = "delete" /\ request'[s].state = "sent"
              /\ request'[s].id \in used /\ local'[request'[s].id] = "whole"
          BY <2>1, <3>1, <3>2
        <4>2. \A t \in Shell : request[t].op = "delete" => local'[request[t].id] = "whole"
          BY <3>5, <3>7 DEF Requests
        <4> QED
          BY <3>6, <4>1, <4>2, <1>u DEF Requests
      <3>9. Commands'
        BY <2>1, <3>2, <3>3, <1>u DEF Commands
      <3>10. ArtifactsAreWhole'
        <4>1. \A r \in Recording : local'[r] # "cut"
          BY <3>1 DEF ArtifactsAreWhole
        <4>2. \A t \in Shell : command[t].id \in Recording \cup {None}
          BY DEF TypeOK
        <4> QED
          BY <3>1, <3>3, <3>5, <4>1, <4>2, <1>u DEF ArtifactsAreWhole
      <3>11. OneCommandPerRecording'
        BY <3>6 DEF OneCommandPerRecording
      <3>12. NothingLost'
        BY <3>5, <3>7, <1>u DEF NothingLost
      <3> QED
        BY <3>4, <3>8, <3>9, <3>10, <3>11, <3>12
    <2>3. CASE content # "whole"
      BY <1>4, <2>3, <1>x DEF Download
    <2> QED
      BY <2>2, <2>3
  <1>5. CASE DeleteReturns(s)
    <2>1. command[s].step = "delete" /\ request[s].op = "delete" /\ request[s].id = command[s].id
      BY <1>5 DEF DeleteReturns, Commands
    <2>2. local[command[s].id] = "whole" /\ (request[s].state = "ok" => command[s].id \notin Stored)
      BY <2>1 DEF Requests
    <2>3. CASE request[s].state = "ok"
      <3>1. Exit(s, "success", TRUE)
        BY <1>5, <2>3, Zenon DEF DeleteReturns, Exit
      <3> QED
        BY <1>5, <2>2, <2>3, <3>1, <1>x DEF DeleteReturns
    <2>4. CASE request[s].state # "ok"
      <3>1. Exit(s, "success", FALSE)
        BY <1>5, <2>4, Zenon DEF DeleteReturns, Exit
      <3> QED
        BY <1>5, <2>2, <3>1, <1>x DEF DeleteReturns
    <2> QED
      BY <2>3, <2>4
  <1>6. ASSUME NEW op \in {"start", "stop"}, Invoke(s, op)
        PROVE  CommandsInvariant'
    <2>1. /\ request' \in [Shell -> RequestRecord]
          /\ request'[s].state = "sent" /\ request'[s].op = op /\ request'[s].id = None
          /\ \A t \in Shell \ {s} : request'[t] = request[t]
      BY <1>6, <1>t, <1>c, SendChanges DEF Invoke
    <2>2. /\ command' \in [Shell -> CommandRecord]
          /\ command'[s].step = op /\ command'[s].id = None
          /\ command'[s].exit = "none" /\ ~command'[s].deleted
          /\ \A t \in Shell \ {s} : command'[t] = command[t]
      BY <1>6, <1>t, <1>c DEF Invoke, NoCommand, CommandRecord
    <2>3. UNCHANGED local
      BY <1>6 DEF Invoke
    <2>4. TypeOK' /\ Sessions'
      BY <2>1, <2>2, <2>3, <1>s, <1>l
    <2>5. None \notin used
      BY DEF TypeOK
    <2>6. Requests'
      BY <2>1, <2>2, <2>3, <2>5, <1>u DEF Requests
    <2>7. Commands'
      BY <2>1, <2>2, <1>u DEF Commands
    <2>8. ArtifactsAreWhole'
      BY <2>2, <2>3, <1>u DEF ArtifactsAreWhole
    <2>9. OneCommandPerRecording'
      BY <2>2 DEF OneCommandPerRecording
    <2> QED
      BY <2>3, <2>4, <2>6, <2>7, <2>8, <2>9, <1>n
  <1>7. CASE Lose(s)
    <2>1. Answer(s, "error") /\ UNCHANGED <<command, local>>
      BY <1>7 DEF Lose
    <2>2. /\ Requests' /\ Commands' /\ ArtifactsAreWhole' /\ OneCommandPerRecording'
          /\ request' \in [Shell -> RequestRecord]
          /\ request'[s].state = "error"
          /\ \A t \in Shell \ {s} : request'[t] = request[t]
      BY <2>1, <1>u, AnswerIsSafe
    <2> QED
      BY <2>1, <2>2, <1>l, <1>n, <1>s, <1>t
  <1>8. CASE Forget(s)
    <2>1. /\ request' \in [Shell -> RequestRecord]
          /\ request'[s].state = "none" /\ request'[s].op = "none"
          /\ \A t \in Shell \ {s} : request'[t] = request[t]
      BY <1>8, <1>t, ClearChanges DEF Forget
    <2>2. UNCHANGED <<command, local>> /\ command[s].step = "none"
      BY <1>8 DEF Forget
    <2>3. TypeOK' /\ Sessions'
      BY <2>1, <2>2, <1>l, <1>s, <1>t
    <2>4. Requests'
      BY <2>1, <2>2, <1>u DEF Requests
    <2>5. Commands' /\ ArtifactsAreWhole' /\ OneCommandPerRecording'
      BY <2>1, <2>2, <1>u DEF Commands, ArtifactsAreWhole, OneCommandPerRecording
    <2> QED
      BY <2>2, <2>3, <2>4, <2>5, <1>n
  <1>9. CASE GiveUp(s)
    <2>1. UNCHANGED <<request, local>> /\ command[s].step # "none"
      BY <1>9 DEF GiveUp
    <2>2. PICK exit \in {"success", "error"} :
             /\ Exit(s, exit, FALSE)
             /\ exit = "success" => command[s].step = "delete"
      BY <1>9 DEF GiveUp
    <2>3. /\ command' \in [Shell -> CommandRecord]
          /\ command'[s].step = "none" /\ command'[s].id = command[s].id
          /\ command'[s].exit = exit /\ ~command'[s].deleted
          /\ \A t \in Shell \ {s} : command'[t] = command[t]
      BY <2>2, <1>t, ExitChanges
    <2>4. \A t \in Shell : command'[t].id = command[t].id
      BY <2>3
    <2>5. exit = "success" => local[command[s].id] = "whole"
      BY <2>2 DEF Commands, Requests
    <2>6. TypeOK' /\ Sessions'
      BY <2>1, <2>3, <1>l, <1>s, <1>t
    <2>7. Requests'
      BY <2>1, <2>4, <1>u DEF Requests
    <2>8. Commands'
      BY <2>1, <2>3, <1>u DEF Commands
    <2>9. ArtifactsAreWhole'
      BY <2>1, <2>3, <2>5, <1>u DEF ArtifactsAreWhole
    <2>10. OneCommandPerRecording'
      BY <2>4 DEF OneCommandPerRecording
    <2> QED
      BY <2>1, <2>6, <2>7, <2>8, <2>9, <2>10, <1>n
  <1> QED
    BY <1>1, <1>2, <1>3, <1>4, <1>5, <1>6, <1>7, <1>8, <1>9 DEF CommandStep

(* What happens in the App without a request of its own. *)
LEMMA BackgroundPreserves ==
  ASSUME CommandsInvariant, AutomaticStop \/ FinishStop \/ ReadRecording \/ Restart \/ Tick
  PROVE  CommandsInvariant'
  <1> USE DEF CommandsInvariant
  <1>t. request \in [Shell -> RequestRecord] /\ command \in [Shell -> CommandRecord]
    BY TypeSplit
  <1>q. ASSUME UNCHANGED <<createdAt, used, aged, request, command, local>>
        PROVE  /\ Stored' = Stored
               /\ Requests' /\ Commands' /\ NothingLost' /\ ArtifactsAreWhole'
               /\ OneCommandPerRecording'
    <2>1. Stored' = Stored
      BY <1>q DEF Stored
    <2> QED
      BY <1>q, <2>1 DEF Requests, Commands, NothingLost, ArtifactsAreWhole, OneCommandPerRecording
  <1>1. CASE AutomaticStop
    <2>1. /\ UNCHANGED <<current, createdAt, used, aged, request, command, local, clock, restarts>>
          /\ phase = "recording" /\ phase' = "stopping" /\ stoppedAt' = clock
      BY <1>1 DEF AutomaticStop, shellVars
    <2>2. clock \in 0..MaxClock /\ clock # None
      BY DEF TypeOK
    <2>3. TypeOK'
      BY <2>1, <2>2, <1>q DEF TypeOK
    <2>4. Sessions'
      BY <2>1, <2>2, <1>q DEF Sessions
    <2> QED
      BY <2>1, <2>3, <2>4, <1>q
  <1>2. CASE Tick
    <2>1. /\ UNCHANGED <<phase, current, createdAt, stoppedAt, used, aged, request, command, local, restarts>>
          /\ clock < MaxClock /\ clock' = clock + 1
      BY <1>2 DEF Tick, appVars, shellVars
    <2>c. clock' \in 0..MaxClock
      BY <2>1 DEF TypeOK
    <2>2. TypeOK'
      <3> HIDE DEF CommandsInvariant
      <3>1. TypeOK
        BY DEF CommandsInvariant
      <3>2. Stored' = Stored
        BY <2>1, <1>q
      <3> QED
        BY <2>1, <2>c, <3>1, <3>2 DEF TypeOK
    <2>3. Sessions'
      BY <2>1, <1>q DEF Sessions
    <2> QED
      BY <2>1, <2>2, <2>3, <1>q
  <1>3. CASE Restart
    <2>0. PICK none \in SUBSET Stored : none = {}
      OBVIOUS
    <2>1. /\ restarts < MaxRestarts /\ restarts' = restarts + 1
          /\ phase' = "idle" /\ current' = None /\ stoppedAt' = None
          /\ UNCHANGED <<used, command, local, clock>>
      BY <1>3 DEF Restart
    <2>g. PICK gone \in Removals : Remove(gone, none)
      BY <1>3, <2>0 DEF Restart
    <2>2. /\ Stored' \subseteq Stored /\ NothingLost'
          /\ Stored' \subseteq Recording /\ \A r \in Stored' : createdAt'[r] \in 0..MaxClock
          /\ aged' \subseteq Recording
      BY <2>0, <2>1, <2>g, RemovalIsSafe
    <2>3. \A s \in Shell :
             request'[s] = IF request[s].op = "none" THEN NoRequest
                           ELSE [request[s] EXCEPT !.state = "error"]
      BY <1>3 DEF Restart
    <2>4. /\ request' \in [Shell -> RequestRecord]
          /\ \A s \in Shell : /\ request'[s].op = request[s].op
                              /\ request'[s].state \in {"none", "error"}
                              /\ request'[s].op # "none" => request'[s].id = request[s].id
      <3>1. ASSUME NEW s \in Shell
            PROVE  request'[s] \in RequestRecord
        <4>1. NoRequest \in RequestRecord
          BY DEF NoRequest, RequestRecord, Op
        <4>2. [request[s] EXCEPT !.state = "error"] \in RequestRecord
          BY <1>t DEF RequestRecord
        <4> QED
          BY <2>3, <4>1, <4>2
      <3>2. request' = [s \in Shell |-> request'[s]]
        BY <1>3 DEF Restart
      <3> QED
        BY <2>3, <3>1, <3>2, <1>t DEF NoRequest, RequestRecord, Op
    <2>5. TypeOK'
      <3>1. restarts' \in 0..MaxRestarts
        BY <2>1 DEF TypeOK
      <3> QED
        BY <2>1, <2>2, <2>4, <3>1 DEF TypeOK, RequestRecord, Op
    <2>6. Sessions'
      BY <2>1, <2>2, <2>4 DEF Sessions
    <2>7. Requests'
      BY <2>1, <2>2, <2>4 DEF Requests
    <2>8. Commands'
      BY <2>1, <2>2, <2>4 DEF Commands
    <2>9. ArtifactsAreWhole' /\ OneCommandPerRecording'
      BY <2>1, <2>2 DEF ArtifactsAreWhole, OneCommandPerRecording
    <2> QED
      BY <2>2, <2>5, <2>6, <2>7, <2>8, <2>9
  <1>4. CASE FinishStop
    <2>1. phase = "stopping" /\ stoppedAt' = None /\ UNCHANGED <<aged, command, local, clock, restarts>>
      BY <1>4 DEF FinishStop
    <2>r. \A s \in Shell : request[s].op = "stop" /\ request[s].state = "running"
                              <=> request[s].state = "running"
      BY <2>1 DEF Sessions
    <2>2. CASE \E r \in Recording :
                  /\ Publish(r)
                  /\ request' = [s \in Shell |->
                        IF request[s].op = "stop" /\ request[s].state = "running"
                        THEN [request[s] EXCEPT !.state = "ok", !.id = r] ELSE request[s]]
      <3>1. PICK r \in Recording :
                  /\ Publish(r)
                  /\ request' = [s \in Shell |->
                        IF request[s].op = "stop" /\ request[s].state = "running"
                        THEN [request[s] EXCEPT !.state = "ok", !.id = r] ELSE request[s]]
        BY <2>2
      <3>2. /\ r \notin used /\ phase' = "ready" /\ current' = r /\ used' = used \cup {r}
            /\ createdAt' = [x \in Stored \cup {r} |-> IF x = r THEN stoppedAt ELSE createdAt[x]]
        BY <3>1 DEF Publish
      <3>3. Stored' = Stored \cup {r}
        BY <3>2 DEF Stored
      <3>4. \A s \in Shell :
               IF request[s].state = "running"
               THEN request[s].op = "stop" /\ request'[s].op = "stop" /\ request'[s].state = "ok"
                      /\ request'[s].id = r
               ELSE request'[s] = request[s]
        BY <3>1, <2>r, <1>t DEF RequestRecord
      <3>5. request' \in [Shell -> RequestRecord]
        BY <3>1, <1>t DEF RequestRecord
      <3>6. \A x \in Stored' : createdAt'[x] \in 0..MaxClock
        BY <2>1, <3>2, <3>3 DEF TypeOK, Sessions
      <3>7. TypeOK'
        BY <2>1, <3>2, <3>3, <3>5, <3>6 DEF TypeOK, RequestRecord, Op
      <3>8. Sessions'
        BY <2>1, <3>2, <3>3, <3>4 DEF Sessions
      <3>9. Requests'
        <4>1. \A t \in Shell : command[t].id # r
          BY <3>2 DEF Commands, TypeOK
        <4>2. \A s \in Shell : request[s].state = "running" => \A t \in Shell \ {s} : request'[t] = request[t]
          BY <3>4 DEF Sessions
        <4> QED
          BY <2>1, <3>2, <3>3, <3>4, <4>1, <4>2 DEF Requests
      <3>10. Commands'
        BY <2>1, <3>2, <3>4 DEF Commands
      <3>11. ArtifactsAreWhole'
        <4>1. \A t \in Shell : command[t].id # r
          BY <3>2 DEF Commands, TypeOK
        <4> QED
          BY <2>1, <3>3, <4>1 DEF ArtifactsAreWhole
      <3>12. NothingLost' /\ OneCommandPerRecording'
        BY <2>1, <3>2, <3>3 DEF NothingLost, OneCommandPerRecording
      <3> QED
        BY <3>7, <3>8, <3>9, <3>10, <3>11, <3>12
    <2>3. CASE /\ phase' = "failed"
               /\ request' = [s \in Shell |->
                     IF request[s].op = "stop" /\ request[s].state = "running"
                     THEN [request[s] EXCEPT !.state = "error"] ELSE request[s]]
               /\ UNCHANGED <<current, createdAt, used>>
      <3>1. Stored' = Stored
        BY <2>3 DEF Stored
      <3>2. \A s \in Shell :
               IF request[s].state = "running"
               THEN request[s].op = "stop" /\ request'[s].op = "stop" /\ request'[s].state = "error"
                      /\ request'[s].id = request[s].id
               ELSE request'[s] = request[s]
        BY <2>3, <2>r, <1>t DEF RequestRecord
      <3>3. request' \in [Shell -> RequestRecord]
        BY <2>3, <1>t DEF RequestRecord
      <3>4. TypeOK'
        BY <2>1, <2>3, <3>1, <3>3 DEF TypeOK, RequestRecord, Op
      <3>5. Sessions'
        BY <2>1, <2>3, <3>1, <3>2 DEF Sessions
      <3>6. Requests'
        BY <2>1, <2>3, <3>1, <3>2 DEF Requests
      <3>7. Commands'
        BY <2>1, <2>3, <3>2 DEF Commands
      <3>8. NothingLost' /\ ArtifactsAreWhole' /\ OneCommandPerRecording'
        BY <2>1, <2>3, <3>1 DEF NothingLost, ArtifactsAreWhole, OneCommandPerRecording
      <3> QED
        BY <3>4, <3>5, <3>6, <3>7, <3>8
    <2> QED
      BY <1>4, <2>2, <2>3 DEF FinishStop
  <1>5. CASE ReadRecording
    <2>1. PICK gone \in Removals, none \in SUBSET Stored :
             none = {} /\ CleanupAndRemove(gone, none)
      BY <1>5 DEF ReadRecording
    <2>2. UNCHANGED <<stoppedAt, used, request, command, local, clock, restarts>>
      BY <1>5 DEF ReadRecording, shellVars
    <2>3. /\ Remove(gone, none)
          /\ \/ phase' = "idle" /\ current' = None
             \/ UNCHANGED <<phase, current>>
          /\ phase = "ready" \/ UNCHANGED phase
      BY <2>1 DEF CleanupAndRemove
    <2>4. /\ Stored' \subseteq Stored /\ NothingLost'
          /\ Stored' \subseteq Recording /\ \A r \in Stored' : createdAt'[r] \in 0..MaxClock
          /\ aged' \subseteq Recording
      BY <2>1, <2>2, <2>3, RemovalIsSafe
    <2>5. TypeOK'
      BY <2>2, <2>3, <2>4 DEF TypeOK
    <2>6. Sessions'
      BY <2>2, <2>3, <2>4 DEF Sessions
    <2>7. Requests' /\ Commands'
      BY <2>2, <2>4 DEF Requests, Commands
    <2>8. ArtifactsAreWhole' /\ OneCommandPerRecording'
      BY <2>2, <2>4 DEF ArtifactsAreWhole, OneCommandPerRecording
    <2> QED
      BY <2>4, <2>5, <2>6, <2>7, <2>8
  <1> QED
    BY <1>1, <1>2, <1>3, <1>4, <1>5

--------------------------------------------------------------------------------
(* Every state satisfies the inductive invariant. *)
LEMMA CommandsCorrect == Spec => []CommandsInvariant
  <1>1. Init => CommandsInvariant
    <2> SUFFICES ASSUME Init
                 PROVE  CommandsInvariant
      OBVIOUS
    <2>1. Stored = {}
      BY DEF Init, Stored
    <2>2. TypeOK
      BY <2>1 DEF Init, TypeOK, NoRequest, NoCommand
    <2>3. Sessions /\ Requests /\ Commands
      BY <2>1 DEF Init, Sessions, Requests, Commands, NoRequest, NoCommand
    <2>4. NothingLost /\ ArtifactsAreWhole /\ OneCommandPerRecording
      BY <2>1 DEF Init, NothingLost, ArtifactsAreWhole, OneCommandPerRecording, NoCommand
    <2> QED
      BY <2>2, <2>3, <2>4 DEF CommandsInvariant
  <1>2. ASSUME CommandsInvariant, [Next]_vars
        PROVE  CommandsInvariant'
    <2>1. CASE UNCHANGED vars
      <3>1. Stored' = Stored
        BY <2>1 DEF vars, appVars, Stored
      <3> QED
        BY <1>2, <2>1, <3>1
           DEF vars, appVars, shellVars, CommandsInvariant, TypeOK, Sessions, Requests, Commands,
               NothingLost, ArtifactsAreWhole, OneCommandPerRecording
    <2> QED
      BY <1>2, <2>1, AppPreserves, ShellPreserves, BackgroundPreserves DEF Next
  <1> QED
    BY <1>1, <1>2, PTL DEF Spec

(* The App, the requests and the commands keep their types; retention, the *)
(* deletions and the restarts never leave the clock or the recordings.     *)
THEOREM CommandsTypeCorrect == Spec => []TypeOK
  <1>1. CommandsInvariant => TypeOK
    BY DEF CommandsInvariant
  <1> QED
    BY <1>1, CommandsCorrect, PTL

(* recording stop: whatever requests and answers are lost, and wherever a  *)
(* command is cut off, a completed recording stays on the device until it  *)
(* is whole on the computer or the retention rule removes it.              *)
THEOREM RecordingsAreNeverLost == Spec => []NothingLost
  <1>1. CommandsInvariant => NothingLost
    BY DEF CommandsInvariant
  <1> QED
    BY <1>1, CommandsCorrect, PTL

(* recording stop: what a command reports as saved is whole, and what it   *)
(* reports as deleted is gone from the device.                             *)
THEOREM SavedReportsAreTrue == Spec => []ArtifactsAreWhole
  <1>1. CommandsInvariant => ArtifactsAreWhole
    BY DEF CommandsInvariant
  <1> QED
    BY <1>1, CommandsCorrect, PTL

(* recording stop: any number of shells that stop at once never work on    *)
(* the same recording.                                                     *)
THEOREM CommandsNeverShare == Spec => []OneCommandPerRecording
  <1>1. CommandsInvariant => OneCommandPerRecording
    BY DEF CommandsInvariant
  <1> QED
    BY <1>1, CommandsCorrect, PTL

--------------------------------------------------------------------------------
(* The App of the commands, seen as the service: a step of the App is one  *)
(* of the service's operations, and the shells' steps are none of it.      *)
LEMMA StepMapsToService ==
  ASSUME CommandsInvariant, [Next]_vars
  PROVE  [Service!Next]_(Service!vars)
  <1> USE DEF CommandsInvariant
  <1>t. /\ Stored \subseteq Recording /\ Stored \subseteq used /\ Expiring \subseteq Stored
        /\ phase # "ready" => current = None
        /\ \A s \in Shell : request[s].id \in Recording \cup {None}
    BY RetentionRemovesStored DEF TypeOK, Sessions, Stored, Expiring
  <1>u. ASSUME UNCHANGED <<phase, current, createdAt>>
        PROVE  UNCHANGED Service!vars
    BY <1>u DEF Service!vars, Stored
  <1>g. ASSUME NEW gone \in Removals, NEW removed, Remove(gone, removed)
        PROVE  gone \subseteq Expiring /\ Stored' = Stored \ (gone \cup removed)
    BY <1>g, RemovalsAreStored, StoredAfter DEF Remove
  <1>r. ASSUME NEW gone \in Removals, NEW removed \in SUBSET Stored,
               CleanupAndRemove(gone, removed)
        PROVE  Service!Next
    <2> DEFINE released == Expiring \cup removed
    <2>1. released \in SUBSET Recording /\ None \notin released
      BY <1>t
    <2>2. /\ Stored' \subseteq Stored
          /\ Stored \ released \subseteq Stored'
      BY <1>r, <1>g DEF CleanupAndRemove
    <2>3. current \in released => phase = "ready"
      BY <1>t, <2>1
    <2>4. Service!Release(released)
      BY <1>r, <2>2, <2>3 DEF CleanupAndRemove, Service!Release
    <2> QED
      BY <2>1, <2>4 DEF Service!Next
  <1>1. ASSUME NEW s \in Shell, HandleStart(s)
        PROVE  [Service!Next]_(Service!vars)
    <2>1. CASE phase \in {"idle", "failed"}
      <3>1. Stored' \subseteq Stored
        BY <1>1, <2>1, <1>g DEF HandleStart
      <3>2. Service!Start
        BY <1>1, <2>1, <3>1, <1>t DEF HandleStart, Service!Start
      <3> QED
        BY <3>2 DEF Service!Next
    <2>2. CASE phase \notin {"idle", "failed"}
      BY <1>1, <2>2, <1>u DEF HandleStart
    <2> QED
      BY <2>1, <2>2
  <1>2. ASSUME NEW s \in Shell, FinishStart(s)
        PROVE  Service!Next
    <2>1. phase = "starting" /\ UNCHANGED <<current, createdAt>> /\ phase' \in {"recording", "failed"}
      BY <1>2 DEF FinishStart, Sessions
    <2>2. Stored' = Stored
      BY <2>1 DEF Stored
    <2> QED
      BY <2>1, <2>2 DEF Service!Next, Service!Begin, Service!Fail
  <1>3. ASSUME NEW s \in Shell, HandleStop(s)
        PROVE  [Service!Next]_(Service!vars)
    <2>1. CASE phase = "recording"
      <3>1. phase' = "stopping" /\ UNCHANGED <<current, createdAt>>
        BY <1>3, <2>1 DEF HandleStop
      <3>2. Service!BeginStop
        BY <2>1, <3>1 DEF Service!BeginStop, Stored
      <3> QED
        BY <3>2 DEF Service!Next
    <2>2. CASE phase # "recording"
      BY <1>3, <2>2, <1>u DEF HandleStop
    <2> QED
      BY <2>1, <2>2
  <1>4. ASSUME (\E s \in Shell : HandleOpen(s)) \/ ReadRecording
        PROVE  Service!Next
    <2>1. PICK gone \in Removals, none \in SUBSET Stored :
             none = {} /\ CleanupAndRemove(gone, none)
      BY <1>4 DEF HandleOpen, ReadRecording
    <2> QED
      BY <2>1, <1>r
  <1>5. ASSUME NEW s \in Shell, HandleDelete(s)
        PROVE  Service!Next
    <2>1. PICK gone \in Removals :
             \/ /\ request[s].id \in Stored \ gone
                /\ CleanupAndRemove(gone, {request[s].id})
             \/ CleanupAndRemove(gone, {})
      BY <1>5 DEF HandleDelete
    <2>2. \E removed \in SUBSET Stored : CleanupAndRemove(gone, removed)
      <3>1. CASE request[s].id \in Stored \ gone /\ CleanupAndRemove(gone, {request[s].id})
        <4>1. PICK removed \in SUBSET Stored : removed = {request[s].id}
          BY <3>1
        <4> QED
          BY <3>1, <4>1
      <3>2. CASE CleanupAndRemove(gone, {})
        <4>1. PICK removed \in SUBSET Stored : removed = {}
          OBVIOUS
        <4> QED
          BY <3>2, <4>1
      <3> QED
        BY <2>1, <3>1, <3>2
    <2> QED
      BY <2>2, <1>r
  <1>6. ASSUME NEW s \in Shell,
               \/ CommandStep(s)
               \/ Invoke(s, "start")
               \/ Invoke(s, "stop")
               \/ Lose(s)
               \/ Forget(s)
               \/ GiveUp(s)
        PROVE  UNCHANGED Service!vars
    <2>1. UNCHANGED appVars
      BY <1>6 DEF CommandStep, CommandFails, StartReturns, StopReturns, Download, DeleteReturns,
                  Invoke, Lose, Forget, GiveUp
    <2> QED
      BY <2>1, <1>u DEF appVars
  <1>7. ASSUME AutomaticStop
        PROVE  Service!Next
    <2>1. phase = "recording" /\ phase' = "stopping" /\ UNCHANGED <<current, createdAt>>
      BY <1>7 DEF AutomaticStop
    <2>2. Service!BeginStop
      BY <2>1 DEF Service!BeginStop, Stored
    <2> QED
      BY <2>2 DEF Service!Next
  <1>8. ASSUME FinishStop
        PROVE  Service!Next
    <2>1. phase = "stopping"
      BY <1>8 DEF FinishStop
    <2>2. ASSUME NEW r \in Recording, Publish(r)
          PROVE  Service!Next
      <3>1. Stored' = Stored \cup {r} /\ r \notin Stored
        BY <2>2, <1>t DEF Publish, Stored
      <3>2. Service!Publish(r)
        BY <2>1, <2>2, <3>1 DEF Publish, Service!Publish
      <3> QED
        BY <3>2 DEF Service!Next
    <2>3. ASSUME phase' = "failed", UNCHANGED <<current, createdAt, used>>
          PROVE  Service!Next
      <3>1. Service!Fail
        BY <2>1, <2>3 DEF Service!Fail, Stored
      <3> QED
        BY <3>1 DEF Service!Next
    <2> QED
      BY <1>8, <2>2, <2>3 DEF FinishStop
  <1>9. ASSUME Restart
        PROVE  Service!Next
    <2>1. Stored' \subseteq Stored
      BY <1>9, <1>g DEF Restart
    <2>2. Service!Crash
      BY <1>9, <2>1 DEF Restart, Service!Crash
    <2> QED
      BY <2>2 DEF Service!Next
  <1>10. ASSUME Tick \/ UNCHANGED vars
         PROVE  UNCHANGED Service!vars
    BY <1>10, <1>u DEF Tick, vars, appVars
  <1> QED
    BY <1>1, <1>2, <1>3, <1>4, <1>5, <1>6, <1>7, <1>8, <1>9, <1>10 DEF Next, AppStep

(* The recording routes: with any number of shells, lost requests and      *)
(* restarts, the App behaves as RecordingService promises: one session at  *)
(* a time through the published phases, and a library that grows only when *)
(* a session becomes ready and that the session leaves with its recording. *)
THEOREM AppKeepsTheContract == Spec => KeepsServiceContract
  <1>1. Init => Service!Init
    BY DEF Init, Service!Init, Stored
  <1>2. CommandsInvariant /\ [Next]_vars => [Service!Next]_(Service!vars)
    BY StepMapsToService
  <1> QED
    BY <1>1, <1>2, CommandsCorrect, PTL DEF Spec, KeepsServiceContract, Service!Spec
================================================================================
