----------------------------- MODULE DebugActions ------------------------------
(***************************************************************************)
(* DebugActionRegistry, the SwiftUI views that register in it while they   *)
(* are on screen, and the CLI's `actions activate`: one request to list    *)
(* and validate, another one to activate, with views coming, going and     *)
(* being replaced between the two, and answers that come too late.         *)
(*                                                                         *)
(* A view is a value of DebugActionLifecycleView, which declares one       *)
(* identifier; several views may declare the same one.  SwiftUI (external) *)
(* decides when views appear and disappear.  Role and description are the  *)
(* view's own and are left out, and so are identifiers of invalid form,    *)
(* which are never registered.  A client is one run of the command.        *)
(***************************************************************************)
EXTENDS Integers

CONSTANTS
    None,
    View,               \* the views
    Identifier,         \* action identifiers
    Declares,           \* the identifier each view declares
    Client,             \* runs of `actions activate`
    MaxGeneration       \* bound on the registry's generation

ASSUME ActionsAssumption ==
    /\ Declares \in [View -> Identifier]
    /\ None \notin View \cup Identifier \cup Nat
    /\ MaxGeneration \in Nat

VARIABLES
    entries,        \* per identifier: the registered view and its generation
    generation,     \* the registry's generation
    token,          \* per view: the token of its registration
    onScreen,       \* the views on screen
    enabled,        \* the views whose action is enabled
    client,         \* per client: how far its command is
    request         \* per client: its activation request, at the App

vars == <<entries, generation, token, onScreen, enabled, client, request>>

registry == <<entries, generation, token, onScreen>>

Entry == [view : View \cup {None}, generation : 0..MaxGeneration]
NoEntry == [view |-> None, generation |-> 0]
NoCommand == [step |-> "none", identifier |-> None, listed |-> NoEntry]
NoRequest == [step |-> "none", performed |-> NoEntry]

Init ==
    /\ entries = [i \in Identifier |-> NoEntry]
    /\ generation = 0
    /\ token = [v \in View |-> None]
    /\ onScreen = {}
    /\ enabled = View
    /\ client = [c \in Client |-> NoCommand]
    /\ request = [c \in Client |-> NoRequest]

--------------------------------------------------------------------------------
(* The views *)

(* DebugActionRegistry.register.  The generation a registration drew       *)
(* stands for its UUID too: neither is ever drawn twice.                   *)
Register(v) ==
    /\ generation' = generation + 1
    /\ entries' = [entries EXCEPT ![Declares[v]] = [view |-> v, generation |-> generation + 1]]
    /\ token' = [token EXCEPT ![v] = generation + 1]

(* onAppear *)
Appear(v) ==
    /\ v \notin onScreen
    /\ generation < MaxGeneration
    /\ Register(v)
    /\ onScreen' = onScreen \cup {v}
    /\ UNCHANGED <<enabled, client, request>>

(* Slip: whatever the view's identifier names is unregistered. *)
UnregisterByIdentifier(v) ==
    /\ entries' = [entries EXCEPT ![Declares[v]] = NoEntry]
    /\ generation' = generation + 1

(* Slip: the token is looked up after it has been given up. *)
UnregisterNothing(v) ==
    /\ v \in View
    /\ UNCHANGED <<entries, generation>>

(* DebugActionRegistry.unregister: nothing happens to a token that is no   *)
(* longer registered, because another view has taken the identifier over.  *)
Unregister(v) ==
    IF entries[Declares[v]].generation = token[v]
    THEN /\ entries' = [entries EXCEPT ![Declares[v]] = NoEntry]
         /\ generation' = generation + 1
    ELSE UNCHANGED <<entries, generation>>

(* onDisappear *)
Disappear(v) ==
    /\ v \in onScreen
    /\ generation < MaxGeneration
    /\ Unregister(v)
    /\ token' = [token EXCEPT ![v] = None]
    /\ onScreen' = onScreen \ {v}
    /\ UNCHANGED <<enabled, client, request>>

(* The App enables or disables the action of a view. *)
Toggle(v) ==
    /\ enabled' = IF v \in enabled THEN enabled \ {v} ELSE enabled \cup {v}
    /\ UNCHANGED <<registry, client, request>>

--------------------------------------------------------------------------------
(* `actions activate <identifier>` *)

Activatable(i) == entries[i] # NoEntry /\ entries[i].view \in enabled

Ends(c, how) == client' = [client EXCEPT ![c].step = how]

(* Validate: the actions are listed and the identifier is found enabled;   *)
(* the activation is sent unless this is a dry run.                        *)
Validate(c, i, dryRun) ==
    /\ client[c].step = "none"
    /\ Activatable(i)
    /\ client' = [client EXCEPT ![c] =
          [step |-> IF dryRun THEN "validated" ELSE "waiting",
           identifier |-> i, listed |-> entries[i]]]
    /\ request' = IF dryRun THEN request ELSE [request EXCEPT ![c].step = "sent"]
    /\ UNCHANGED <<registry, enabled>>

(* Validate finds no such action, or finds it disabled. *)
ValidateFails(c, i) ==
    /\ client[c].step = "none"
    /\ ~Activatable(i)
    /\ Ends(c, "error")
    /\ UNCHANGED <<registry, enabled, request>>

(* POST /v1/actions/activate reaches the registry: the entry is looked up  *)
(* again, and its action begins.                                           *)
Activate(c) ==
    LET i == client[c].identifier
    IN  /\ request[c].step = "sent"
        /\ request' = [request EXCEPT ![c] =
              IF Activatable(i)
              THEN [step |-> "performing", performed |-> entries[i]]
              ELSE [step |-> "failed", performed |-> NoEntry]]
        /\ UNCHANGED <<registry, enabled, client>>

(* The action returns or throws. *)
Performed(c) ==
    /\ request[c].step = "performing"
    /\ \E outcome \in {"answered", "failed"} :
          request' = [request EXCEPT ![c].step = outcome]
    /\ UNCHANGED <<registry, enabled, client>>

(* The answer, or the connection, is lost, or the command's deadline       *)
(* passes.  What was sent may still be performed.                          *)
GiveUp(c) ==
    /\ client[c].step = "waiting"
    /\ Ends(c, "error")
    /\ UNCHANGED <<registry, enabled, request>>

(* Slip: the generations are not compared. *)
OutcomeWithoutComparing(c) == IF request[c].step = "failed" THEN "error" ELSE "success"

(* What the command reports: it compares the generation it was answered    *)
(* with the one it validated.                                              *)
Outcome(c) ==
    IF request[c].step = "failed"
    THEN "error"
    ELSE IF request[c].performed.generation = client[c].listed.generation
         THEN "success"
         ELSE "mismatch"

Report(c) ==
    /\ client[c].step = "waiting"
    /\ request[c].step \in {"answered", "failed"}
    /\ Ends(c, Outcome(c))
    /\ UNCHANGED <<registry, enabled, request>>

--------------------------------------------------------------------------------
Next ==
    \/ \E v \in View : Appear(v) \/ Disappear(v) \/ Toggle(v)
    \/ \E c \in Client :
          \/ \E i \in Identifier : ValidateFails(c, i)
          \/ \E i \in Identifier, dryRun \in BOOLEAN : Validate(c, i, dryRun)
          \/ Activate(c)
          \/ Performed(c)
          \/ GiveUp(c)
          \/ Report(c)

Spec == Init /\ [][Next]_vars

--------------------------------------------------------------------------------
(* Every variable has its declared shape. *)
TypeOK ==
    /\ entries \in [Identifier -> Entry]
    /\ generation \in 0..MaxGeneration
    /\ token \in [View -> (1..MaxGeneration) \cup {None}]
    /\ onScreen \subseteq View
    /\ enabled \subseteq View
    /\ client \in [Client ->
          [step : {"none", "validated", "waiting", "success", "mismatch", "error"},
           identifier : Identifier \cup {None},
           listed : Entry]]
    /\ request \in [Client ->
          [step : {"none", "sent", "performing", "answered", "failed"},
           performed : Entry]]

(* What an identifier names belongs to a view that is still on screen and  *)
(* holds its token: no action outlives its view (register, unregister and  *)
(* the modifier's onAppear and onDisappear).                               *)
NoActionOutlivesItsView ==
    \A i \in Identifier :
        entries[i] # NoEntry =>
            /\ entries[i].view \in onScreen
            /\ Declares[entries[i].view] = i
            /\ token[entries[i].view] = entries[i].generation

(* A registration ends only when its own view goes or when a later one     *)
(* takes its identifier over: a view that was replaced and goes later      *)
(* leaves its replacement alone (unregister compares tokens).              *)
OnlyOwnerOrSuccessorEndsRegistration ==
    [][\A i \in Identifier :
          entries[i] # NoEntry /\ entries'[i] # entries[i] =>
              \/ entries[i].view \notin onScreen'
              \/ entries'[i].generation > entries[i].generation]_vars

(* A command reports success only if the App performed the very            *)
(* registration the command validated, never that of a view that took the  *)
(* identifier over in between, and reports a mismatch only if the App      *)
(* performed another one: the generation, all that the command compares    *)
(* (newActionsActivate), tells registrations apart.                        *)
ReportIsTrue ==
    \A c \in Client :
        /\ client[c].step = "success" => request[c].performed = client[c].listed
        /\ client[c].step = "mismatch" => request[c].performed \notin {NoEntry, client[c].listed}
================================================================================
