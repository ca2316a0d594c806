----------------------------- MODULE Configuration -----------------------------
(***************************************************************************)
(* config.Load: the configuration of a command from the user's file, the   *)
(* project's file, the environment and the flags, each of which may set    *)
(* any of the fields it knows, and the validation of the result.  The      *)
(* token, which only the environment may set, decides nothing here.        *)
(***************************************************************************)
EXTENDS Naturals

Unset == "unset"

Field == {"device", "port", "output", "transport", "host"}

(* Ports are "0", a valid one, or "junk" in the environment, which is text. *)
DefaultPort == "9876"

Defaults ==
    [valid |-> TRUE, device |-> Unset, port |-> DefaultPort, output |-> <<"working", "default">>,
     transport |-> "usb", host |-> "127.0.0.1", hostSet |-> FALSE]

Invalid == [Defaults EXCEPT !.valid = FALSE]

(* The fields a source sets to the empty string *)
EmptyIn(source) == \E f \in Field \ {"port"} : source[f] = ""

(* resolvePath: a relative output directory is relative to the source. *)
ResolvePath(base, value) == IF value = "absolute" THEN <<"root", value>> ELSE <<base, value>>

(* Slip: a source fills in what the ones before it left open. *)
FillIn(result, source, base) ==
    LET Or(old, default, new) == IF old = default /\ new # Unset THEN new ELSE old
    IN  [result EXCEPT
            !.device = Or(@, Unset, source["device"]),
            !.port = Or(@, DefaultPort, source["port"]),
            !.output = IF source["output"] = Unset THEN @ ELSE ResolvePath(base, source["output"]),
            !.transport = Or(@, "usb", source["transport"]),
            !.host = Or(@, "127.0.0.1", source["host"]),
            !.hostSet = @ \/ source["host"] # Unset]

(* What a source sets replaces what the ones before it set. *)
Override(result, source, base) ==
    LET Or(old, new) == IF new = Unset THEN old ELSE new
    IN  [result EXCEPT
            !.device = Or(@, source["device"]),
            !.port = Or(@, source["port"]),
            !.output = IF source["output"] = Unset THEN @ ELSE ResolvePath(base, source["output"]),
            !.transport = Or(@, source["transport"]),
            !.host = Or(@, source["host"]),
            !.hostSet = @ \/ source["host"] # Unset]

(* loadFile and applyFile: a file that cannot be read or decoded, that has *)
(* an unknown field or a token, or a field that is empty.                  *)
ApplyFile(result, source, base) ==
    IF ~result.valid \/ source["broken"] \/ EmptyIn(source)
    THEN Invalid ELSE Override(result, source, base)

(* The environment knows neither transport nor host, and its port must be  *)
(* valid by itself.                                                        *)
ApplyEnvironment(result, source) ==
    IF ~result.valid \/ EmptyIn(source) \/ source["port"] \in {"0", "junk"}
    THEN Invalid ELSE Override(result, source, "working")

ApplyFlags(result, source) ==
    IF ~result.valid \/ EmptyIn(source)
    THEN Invalid ELSE Override(result, source, "working")

(* validate; `loops` are the hosts that resolve to loopback addresses only *)
Validate(result, loops) ==
    IF \/ ~result.valid
       \/ result.port = "0"
       \/ result.transport \notin {"usb", "tcp"}
       \/ result.transport = "usb" /\ result.hostSet
       \/ result.transport = "tcp" /\ result.host \notin loops
    THEN Invalid ELSE result

Load(sources, loops) ==
    LET user == ApplyFile(Defaults, sources["user"], "home")
        project == ApplyFile(user, sources["project"], "working")
        environment == ApplyEnvironment(project, sources["environment"])
    IN  Validate(ApplyFlags(environment, sources["flags"]), loops)

--------------------------------------------------------------------------------
(* The same, stated without the order of the code: a field has the value   *)
(* of the most specific source that sets it, and the configuration is      *)
(* valid if no source is malformed in itself and the values fit together.  *)
Precedence == <<"flags", "environment", "project", "user">>

Setting(sources, f) ==
    LET setters == {k \in DOMAIN Precedence : sources[Precedence[k]][f] # Unset}
    IN  IF setters = {} THEN Unset
        ELSE Precedence[CHOOSE k \in setters : \A l \in setters : k <= l]

Effective(sources, f, default) ==
    IF Setting(sources, f) = Unset THEN default ELSE sources[Setting(sources, f)][f]

OutputBase(sources) == IF Setting(sources, "output") = "user" THEN "home" ELSE "working"

IsValid(sources, loops) ==
    /\ \A s \in DOMAIN sources : ~sources[s]["broken"] /\ ~EmptyIn(sources[s])
    /\ sources["environment"]["port"] \notin {"0", "junk"}
    /\ Effective(sources, "port", DefaultPort) # "0"
    /\ \/ /\ Effective(sources, "transport", "usb") = "usb"
          /\ Setting(sources, "host") = Unset
       \/ /\ Effective(sources, "transport", "usb") = "tcp"
          /\ Effective(sources, "host", "127.0.0.1") \in loops

FollowsPrecedence(sources, loops) ==
    LET loaded == Load(sources, loops)
    IN  /\ loaded.valid <=> IsValid(sources, loops)
        /\ loaded.valid =>
              /\ loaded.device = Effective(sources, "device", Unset)
              /\ loaded.port = Effective(sources, "port", DefaultPort)
              /\ loaded.transport = Effective(sources, "transport", "usb")
              /\ loaded.host = Effective(sources, "host", "127.0.0.1")
              /\ loaded.output =
                    IF Setting(sources, "output") = Unset THEN <<"working", "default">>
                    ELSE ResolvePath(OutputBase(sources), Effective(sources, "output", Unset))
================================================================================
