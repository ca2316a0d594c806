-------------------------- MODULE DebugActionsProofs ---------------------------
(***************************************************************************)
(* Proofs about DebugActions: for any views, identifiers and clients, and  *)
(* any bound on the generation.                                            *)
(*                                                                         *)
(* The command compares generations only, so its report is true because a  *)
(* generation identifies a registration for ever: GenerationsIdentify says *)
(* so of every registration the registry holds or a command remembers.     *)
(***************************************************************************)
EXTENDS DebugActions, TLAPS

(* The registrations that matter in a state: registered, listed, performed *)
Known ==
    {entries[i] : i \in Identifier} \cup {client[c].listed : c \in Client}
                                    \cup {request[c].performed : c \in Client}

(* A generation identifies a registration, and has been drawn. *)
GenerationsIdentify ==
    /\ \A e \in Known : e.generation <= generation
    /\ \A e \in Known : e.generation = 0 => e = NoEntry
    /\ \A e, f \in Known : e.generation = f.generation => e = f

(* A request names an identifier, performs what it finds registered, and   *)
(* is answered before the command reports on it.                           *)
ReportsFollowAnswers ==
    \A c \in Client :
        /\ request[c].step # "none" => client[c].identifier \in Identifier
        /\ request[c].step \in {"performing", "answered"} => request[c].performed # NoEntry
        /\ client[c].step \in {"success", "mismatch"} => request[c].step = "answered"

(* No two views hold the same token. *)
TokensAreUnique ==
    /\ \A v \in View : token[v] # None => token[v] <= generation
    /\ \A v, w \in View : token[v] # None /\ token[v] = token[w] => v = w

IInv ==
    /\ TypeOK
    /\ NoActionOutlivesItsView
    /\ GenerationsIdentify
    /\ TokensAreUnique
    /\ ReportsFollowAnswers
    /\ ReportIsTrue

--------------------------------------------------------------------------------
USE ActionsAssumption

(* An empty registry, with no command under way, satisfies the invariant. *)
LEMMA InitSatisfies == Init => IInv
  <1> SUFFICES ASSUME Init PROVE IInv
    OBVIOUS
  <1> USE DEF Init, NoEntry, NoCommand, NoRequest
  <1>1. NoEntry \in Entry
    BY DEF Entry
  <1>2. TypeOK
    BY <1>1 DEF TypeOK
  <1>3. \A e \in Known : e = NoEntry
    BY DEF Known
  <1>4. GenerationsIdentify
    BY <1>3 DEF GenerationsIdentify
  <1> QED
    BY <1>2, <1>4 DEF IInv, NoActionOutlivesItsView, TokensAreUnique, ReportsFollowAnswers,
                      ReportIsTrue

(* Every step keeps the shapes: a generation is drawn below its bound, and *)
(* what a command remembers is an entry.                                   *)
LEMMA TypeStep == TypeOK /\ ReportsFollowAnswers /\ [Next]_vars => TypeOK'
  <1> SUFFICES ASSUME TypeOK, ReportsFollowAnswers, [Next]_vars PROVE TypeOK'
    OBVIOUS
  <1> USE DEF TypeOK
  <1>0. NoEntry \in Entry
    BY DEF Entry, NoEntry
  <1>1. ASSUME NEW v \in View, Appear(v) PROVE TypeOK'
    <2>1. [view |-> v, generation |-> generation + 1] \in Entry
      BY <1>1 DEF Appear, Entry
    <2> QED
      BY <1>1, <2>1 DEF Appear, Register
  <1>2. ASSUME NEW v \in View, Disappear(v) PROVE TypeOK'
    BY <1>0, <1>2 DEF Disappear, Unregister
  <1>3. ASSUME NEW v \in View, Toggle(v) PROVE TypeOK'
    BY <1>3 DEF Toggle, registry
  <1>4. ASSUME NEW c \in Client, NEW i \in Identifier, NEW dryRun \in BOOLEAN,
               Validate(c, i, dryRun)
        PROVE  TypeOK'
    <2>1. [step |-> IF dryRun THEN "validated" ELSE "waiting",
           identifier |-> i, listed |-> entries[i]]
             \in [step : {"none", "validated", "waiting", "success", "mismatch", "error"},
                  identifier : Identifier \cup {None}, listed : Entry]
      BY DEF Entry
    <2>2. client' \in [Client ->
             [step : {"none", "validated", "waiting", "success", "mismatch", "error"},
              identifier : Identifier \cup {None}, listed : Entry]]
      BY <1>4, <2>1 DEF Validate
    <2> QED
      BY <1>4, <2>2 DEF Validate, registry
  <1>5. ASSUME NEW c \in Client, NEW i \in Identifier, ValidateFails(c, i) PROVE TypeOK'
    BY ZenonT(30), <1>5 DEF ValidateFails, Ends, registry
  <1>6. ASSUME NEW c \in Client, Activate(c) PROVE TypeOK'
    <2>1. CASE Activatable(client[c].identifier)
      <3>1. client[c].identifier \in Identifier
        BY <1>6 DEF Activate, ReportsFollowAnswers
      <3> QED
        BY <1>6, <2>1, <3>1 DEF Activate, registry
    <2>2. CASE ~Activatable(client[c].identifier)
      BY <1>0, <1>6, <2>2 DEF Activate, registry
    <2> QED
      BY <2>1, <2>2
  <1>7. ASSUME NEW c \in Client, Performed(c) PROVE TypeOK'
    BY <1>7 DEF Performed, registry
  <1>8. ASSUME NEW c \in Client, GiveUp(c) PROVE TypeOK'
    BY <1>8 DEF GiveUp, Ends, registry
  <1>9. ASSUME NEW c \in Client, Report(c) PROVE TypeOK'
    BY <1>9 DEF Report, Outcome, Ends, registry
  <1>10. CASE UNCHANGED vars
    BY <1>10 DEF vars
  <1> QED
    BY <1>1, <1>2, <1>3, <1>4, <1>5, <1>6, <1>7, <1>8, <1>9, <1>10 DEF Next

(* Views come and go with their registrations: a view that appears takes   *)
(* its identifier over, and one that goes removes its own entry only.      *)
LEMMA ViewsStep ==
  TypeOK /\ NoActionOutlivesItsView /\ [Next]_vars => NoActionOutlivesItsView'
  <1> SUFFICES ASSUME TypeOK, NoActionOutlivesItsView, [Next]_vars
               PROVE  NoActionOutlivesItsView'
    OBVIOUS
  <1> USE DEF NoActionOutlivesItsView
  <1>1. ASSUME NEW v \in View, Appear(v) PROVE NoActionOutlivesItsView'
    <2> SUFFICES ASSUME NEW i \in Identifier, entries'[i] # NoEntry
                 PROVE  /\ entries'[i].view \in onScreen'
                        /\ Declares[entries'[i].view] = i
                        /\ token'[entries'[i].view] = entries'[i].generation
      OBVIOUS
    <2>1. CASE i = Declares[v]
      BY <1>1, <2>1 DEF Appear, Register, TypeOK
    <2>2. CASE i # Declares[v]
      <3>1. entries'[i] = entries[i] /\ entries[i].view # v
        BY <1>1, <2>2 DEF Appear, Register, TypeOK
      <3> QED
        BY <1>1, <2>2, <3>1 DEF Appear, Register, TypeOK
    <2> QED
      BY <2>1, <2>2
  <1>2. ASSUME NEW v \in View, Disappear(v) PROVE NoActionOutlivesItsView'
    <2> SUFFICES ASSUME NEW i \in Identifier, entries'[i] # NoEntry
                 PROVE  /\ entries'[i].view \in onScreen'
                        /\ Declares[entries'[i].view] = i
                        /\ token'[entries'[i].view] = entries'[i].generation
      OBVIOUS
    <2>1. entries'[i] = entries[i]
      BY <1>2 DEF Disappear, Unregister, TypeOK
    <2>2. entries[i].view # v
      BY <1>2, <2>1 DEF Disappear, Unregister, TypeOK
    <2> QED
      BY <1>2, <2>1, <2>2 DEF Disappear, TypeOK
  <1>3. CASE UNCHANGED registry
    BY <1>3 DEF registry
  <1>4. CASE UNCHANGED vars
    BY <1>4 DEF vars
  <1>5. (\E v \in View : Appear(v) \/ Disappear(v)) \/ UNCHANGED registry \/ UNCHANGED vars
    BY DEF Next, Toggle, Validate, ValidateFails, Activate, Performed, GiveUp, Report
  <1> QED
    BY <1>1, <1>2, <1>3, <1>4, <1>5

(* What may become known in a step was known, is no registration at all,   *)
(* or has just drawn its generation.                                       *)
LEMMA KnownStep ==
  TypeOK /\ ReportsFollowAnswers /\ [Next]_vars =>
      \/ /\ generation' >= generation
         /\ Known' \subseteq Known \cup {NoEntry}
      \/ \E v \in View :
            /\ generation' = generation + 1
            /\ Known' \subseteq Known \cup {[view |-> v, generation |-> generation + 1]}
  <1> SUFFICES ASSUME TypeOK, ReportsFollowAnswers, [Next]_vars
               PROVE  \/ /\ generation' >= generation
                         /\ Known' \subseteq Known \cup {NoEntry}
                      \/ \E v \in View :
                            /\ generation' = generation + 1
                            /\ Known' \subseteq Known
                                   \cup {[view |-> v, generation |-> generation + 1]}
    OBVIOUS
  <1> USE DEF TypeOK, Known
  <1>1. ASSUME NEW v \in View, Appear(v)
        PROVE  /\ generation' = generation + 1
               /\ Known' \subseteq Known \cup {[view |-> v, generation |-> generation + 1]}
    BY <1>1 DEF Appear, Register
  <1>2. ASSUME NEW v \in View, Disappear(v)
        PROVE  generation' >= generation /\ Known' \subseteq Known \cup {NoEntry}
    <2>1. \A i \in Identifier : entries'[i] \in {entries[i], NoEntry}
      BY <1>2 DEF Disappear, Unregister
    <2>2. client' = client /\ request' = request /\ generation' >= generation
      BY <1>2 DEF Disappear, Unregister
    <2> QED
      BY <2>1, <2>2
  <1>3. ASSUME NEW c \in Client, NEW i \in Identifier, NEW dryRun \in BOOLEAN,
               Validate(c, i, dryRun)
        PROVE  generation' >= generation /\ Known' \subseteq Known \cup {NoEntry}
    BY <1>3 DEF Validate, registry
  <1>4. ASSUME NEW c \in Client, Activate(c)
        PROVE  generation' >= generation /\ Known' \subseteq Known \cup {NoEntry}
    <2>1. client[c].identifier \in Identifier
      BY <1>4 DEF Activate, ReportsFollowAnswers
    <2>2. \A b \in Client : request'[b].performed
                               \in {request[b].performed, entries[client[c].identifier], NoEntry}
      BY <1>4 DEF Activate
    <2>3. entries' = entries /\ client' = client /\ generation' = generation
      BY <1>4 DEF Activate, registry
    <2> QED
      BY <2>1, <2>2, <2>3
  <1>5. ASSUME NEW c \in Client, NEW i \in Identifier, ValidateFails(c, i)
        PROVE  generation' >= generation /\ Known' \subseteq Known \cup {NoEntry}
    BY <1>5 DEF ValidateFails, Ends, registry
  <1>6. ASSUME NEW c \in Client, Performed(c) \/ GiveUp(c) \/ Report(c)
        PROVE  generation' >= generation /\ Known' \subseteq Known \cup {NoEntry}
    BY SMTT(30), <1>6 DEF Performed, GiveUp, Report, Ends, registry
  <1>7. ASSUME NEW v \in View, Toggle(v)
        PROVE  generation' >= generation /\ Known' \subseteq Known \cup {NoEntry}
    BY <1>7 DEF Toggle, registry
  <1>8. CASE UNCHANGED vars
    BY <1>8 DEF vars
  <1> HIDE DEF TypeOK, Known
  <1> QED
    BY <1>1, <1>2, <1>3, <1>4, <1>5, <1>6, <1>7, <1>8 DEF Next

(* A generation keeps identifying its registration: the next one drawn is  *)
(* larger than all that are known.                                         *)
LEMMA GenerationsStep ==
  ASSUME TypeOK, ReportsFollowAnswers, GenerationsIdentify, [Next]_vars
  PROVE  GenerationsIdentify'
  <1>1. generation \in Nat /\ \A e \in Known : e.generation \in Nat
    BY DEF TypeOK, Known, Entry
  <1>2. CASE generation' >= generation /\ Known' \subseteq Known \cup {NoEntry}
    <2>1. generation' \in Nat
      BY TypeStep DEF TypeOK
    <2>2. NoEntry.generation = 0
      BY DEF NoEntry
    <2> QED
      BY <1>1, <1>2, <2>1, <2>2 DEF GenerationsIdentify
  <1>3. ASSUME NEW v \in View, generation' = generation + 1,
               Known' \subseteq Known \cup {[view |-> v, generation |-> generation + 1]}
        PROVE  GenerationsIdentify'
    <2>1. \A e \in Known' : \/ e \in Known /\ e.generation <= generation
                            \/ /\ e = [view |-> v, generation |-> generation + 1]
                               /\ e.generation = generation + 1
      BY <1>3 DEF GenerationsIdentify
    <2> QED
      BY <1>1, <1>3, <2>1 DEF GenerationsIdentify
  <1> QED
    BY <1>2, <1>3, KnownStep

(* A token is drawn above all those held, and given up with its view. *)
LEMMA TokensStep ==
  ASSUME TypeOK, TokensAreUnique, [Next]_vars
  PROVE  TokensAreUnique'
  <1> USE DEF TypeOK, TokensAreUnique
  <1>0. \A v \in View : token[v] # None => token[v] \in Nat
    OBVIOUS
  <1>1. ASSUME NEW v \in View, Appear(v) PROVE TokensAreUnique'
    BY <1>0, <1>1 DEF Appear, Register
  <1>2. ASSUME NEW v \in View, Disappear(v) PROVE TokensAreUnique'
    <2>1. generation' \in Nat /\ generation' >= generation
      BY <1>2 DEF Disappear, Unregister
    <2>2. \A w \in View : token'[w] \in {token[w], None}
      BY <1>2 DEF Disappear
    <2> QED
      BY <1>0, <2>1, <2>2
  <1>3. CASE generation' = generation /\ token' = token
    BY <1>3
  <1>4. \/ \E v \in View : Appear(v) \/ Disappear(v)
        \/ generation' = generation /\ token' = token
    BY DEF Next, Toggle, Validate, ValidateFails, Activate, Performed, GiveUp, Report,
           registry, vars
  <1> HIDE DEF TypeOK, TokensAreUnique
  <1> QED
    BY <1>1, <1>2, <1>3, <1>4

(* A command's request and its report are about the same registration.     *)
LEMMA ReportsStep ==
  ASSUME TypeOK, GenerationsIdentify, ReportsFollowAnswers, ReportIsTrue, [Next]_vars
  PROVE  ReportsFollowAnswers' /\ ReportIsTrue'
  <1> USE DEF TypeOK, ReportsFollowAnswers, ReportIsTrue
  <1>1. ASSUME NEW c \in Client, NEW i \in Identifier, NEW dryRun \in BOOLEAN,
               Validate(c, i, dryRun)
        PROVE  ReportsFollowAnswers' /\ ReportIsTrue'
    BY <1>1 DEF Validate
  <1>2. ASSUME NEW c \in Client, NEW i \in Identifier, ValidateFails(c, i)
        PROVE  ReportsFollowAnswers' /\ ReportIsTrue'
    BY <1>2 DEF ValidateFails, Ends
  <1>3. ASSUME NEW c \in Client, Activate(c)
        PROVE  ReportsFollowAnswers' /\ ReportIsTrue'
    BY <1>3 DEF Activate, Activatable
  <1>4. ASSUME NEW c \in Client, Performed(c)
        PROVE  ReportsFollowAnswers' /\ ReportIsTrue'
    BY <1>4 DEF Performed
  <1>5. ASSUME NEW c \in Client, GiveUp(c)
        PROVE  ReportsFollowAnswers' /\ ReportIsTrue'
    BY <1>5 DEF GiveUp, Ends
  <1>6. ASSUME NEW c \in Client, Report(c)
        PROVE  ReportsFollowAnswers' /\ ReportIsTrue'
    <2>1. request[c].performed.generation = client[c].listed.generation
             => request[c].performed = client[c].listed
      BY DEF GenerationsIdentify, Known
    <2> QED
      BY <1>6, <2>1 DEF Report, Outcome, Ends
  <1>7. ASSUME UNCHANGED <<client, request>>
        PROVE  ReportsFollowAnswers' /\ ReportIsTrue'
    BY <1>7
  <1>8. \/ UNCHANGED <<client, request>>
        \/ \E c \in Client :
              \/ \E i \in Identifier : ValidateFails(c, i)
              \/ \E i \in Identifier, dryRun \in BOOLEAN : Validate(c, i, dryRun)
              \/ Activate(c) \/ Performed(c) \/ GiveUp(c) \/ Report(c)
    BY DEF Next, Appear, Disappear, Toggle, vars
  <1> HIDE DEF TypeOK, ReportsFollowAnswers, ReportIsTrue
  <1> QED
    BY <1>1, <1>2, <1>3, <1>4, <1>5, <1>6, <1>7, <1>8

(* The inductive invariant holds in every state. *)
LEMMA InvariantHolds == Spec => []IInv
  <1>1. Init => IInv
    BY InitSatisfies
  <1>2. IInv /\ [Next]_vars => IInv'
    BY TypeStep, ViewsStep, GenerationsStep, TokensStep, ReportsStep DEF IInv
  <1> QED
    BY <1>1, <1>2, PTL DEF Spec

(* Every variable keeps its declared shape: among others, no registration  *)
(* draws a generation beyond the bound, and every token is one drawn.      *)
THEOREM ActionsTypeCorrect == Spec => []TypeOK
  <1>1. IInv => TypeOK
    BY DEF IInv
  <1> QED
    BY <1>1, InvariantHolds, PTL

(* However views come, go and replace each other, what an identifier names *)
(* belongs to a view on screen that still holds its token.                 *)
THEOREM RegistrationsFollowViews == Spec => []NoActionOutlivesItsView
  <1>1. IInv => NoActionOutlivesItsView
    BY DEF IInv
  <1> QED
    BY <1>1, InvariantHolds, PTL

(* The report of `actions activate` is true although the command lists and *)
(* activates in two requests and compares nothing but generations.         *)
THEOREM ReportsAreTrue == Spec => []ReportIsTrue
  <1>1. IInv => ReportIsTrue
    BY DEF IInv
  <1> QED
    BY <1>1, InvariantHolds, PTL

(* A step that ends a registration is its own view's disappearance or the  *)
(* appearance of a view that takes its identifier over.                    *)
THEOREM RegistrationsEndProperly == Spec => OnlyOwnerOrSuccessorEndsRegistration
  <1>1. ASSUME IInv, [Next]_vars,
               NEW i \in Identifier, entries[i] # NoEntry, entries'[i] # entries[i]
        PROVE  \/ entries[i].view \notin onScreen'
               \/ entries'[i].generation > entries[i].generation
    <2> USE DEF IInv, TypeOK
    <2>1. ASSUME NEW v \in View, Appear(v)
          PROVE  entries'[i].generation > entries[i].generation
      <3>1. entries[i].generation <= generation
        BY <1>1 DEF GenerationsIdentify, Known
      <3>2. entries[i].generation \in Nat
        BY <1>1 DEF Entry
      <3> QED
        BY <1>1, <2>1, <3>1, <3>2 DEF Appear, Register
    <2>2. ASSUME NEW v \in View, Disappear(v)
          PROVE  entries[i].view \notin onScreen'
      <3>1. i = Declares[v] /\ entries[i].generation = token[v]
        BY <1>1, <2>2 DEF Disappear, Unregister
      <3>2. entries[i].view \in View /\ token[entries[i].view] = entries[i].generation
        BY <1>1 DEF NoActionOutlivesItsView, Entry, NoEntry
      <3>3. token[v] # None
        BY <1>1, <3>1 DEF Entry
      <3>4. entries[i].view = v
        BY <1>1, <2>2, <3>1, <3>2, <3>3 DEF TokensAreUnique
      <3> QED
        BY <2>2, <3>4 DEF Disappear
    <2>3. (\E v \in View : Appear(v) \/ Disappear(v)) \/ entries' = entries
      BY <1>1 DEF Next, Toggle, Validate, ValidateFails, Activate, Performed, GiveUp, Report,
             registry, vars
    <2> HIDE DEF IInv, TypeOK
    <2> QED
      BY <1>1, <2>1, <2>2, <2>3
  <1>2. IInv /\ [Next]_vars =>
           [\A i \in Identifier :
               entries[i] # NoEntry /\ entries'[i] # entries[i] =>
                   \/ entries[i].view \notin onScreen'
                   \/ entries'[i].generation > entries[i].generation]_vars
    BY <1>1
  <1> QED
    BY <1>2, InvariantHolds, PTL DEF Spec, OnlyOwnerOrSuccessorEndsRegistration

================================================================================
