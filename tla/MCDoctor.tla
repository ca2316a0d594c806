-------------------------------- MODULE MCDoctor -------------------------------
(* The configuration sources that set at most two things, in any of the    *)
(* places where they can be set, and the listings of at most two devices.  *)
EXTENDS Doctor, TLC

Silent == [f \in Field |-> Unset] @@ [broken |-> FALSE]
NoSource == [s \in {"user", "project", "environment", "flags"} |-> Silent]

FileSettings ==
    {<<"broken", TRUE>>, <<"device", "u1">>, <<"device", "">>, <<"port", "0">>, <<"port", "1">>,
     <<"output", "relative">>, <<"output", "absolute">>, <<"output", "">>,
     <<"transport", "usb">>, <<"transport", "tcp">>, <<"transport", "serial">>, <<"transport", "">>,
     <<"host", "localhost">>, <<"host", "remote">>, <<"host", "">>}

(* The environment has no transport and no host; --port=0 and what is no   *)
(* number are refused before any command runs.                             *)
Settings ==
    ({"user", "project"} \X FileSettings)
      \cup ({"environment"} \X ({<<"port", "junk">>} \cup
              {s \in FileSettings : s[1] \in {"device", "port", "output"}}))
      \cup ({"flags"} \X {s \in FileSettings : s[1] # "broken" /\ s # <<"port", "0">>})

Put(sources_, setting) ==
    [sources_ EXCEPT ![setting[1]] = [@ EXCEPT ![setting[2][1]] = setting[2][2]]]

MCSources == {Put(Put(NoSource, a), b) : a \in Settings, b \in Settings}

Phone(u, available, paired) ==
    [udid |-> u, phone |-> TRUE, identified |-> TRUE, available |-> available, paired |-> paired]

MCListings ==
    LET known == {Phone("u1", a, p) : a, p \in BOOLEAN} \cup {Phone("u2", a, TRUE) : a \in BOOLEAN}
    IN  {{}, {[Phone("u1", TRUE, TRUE) EXCEPT !.identified = FALSE]},
         {[Phone("u1", TRUE, TRUE) EXCEPT !.phone = FALSE]}}
          \cup {{d} : d \in known} \cup {{d, e} : d, e \in known}
================================================================================
