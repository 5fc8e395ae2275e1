---------------------------- MODULE CliCommands ----------------------------
(***************************************************************************)
(* The commands of pygira (src/pygira/commands), each as the sequence of   *)
(* what it does: ask for consent, read input, find its device, check that  *)
(* the device is of a family it works on, call the facade of the device,   *)
(* write a file; and the table of device families that the program         *)
(* declares for its commands (command_support.py).                         *)
(***************************************************************************)
EXTENDS Naturals, Sequences, FiniteSets, TLC

Families == {"g1", "x1", "tks-ip"}

\* The steps of a command.
Ask == [do |-> "ask"]                     \* click.confirm, unless a flag says yes
Input == [do |-> "input"]                 \* options, prompts or files that may be invalid
Detect == [do |-> "detect"]               \* resolve_login: what family answers?
TksLogin == [do |-> "tks"]                \* resolve_tks_login, resolve_tks_ip: not detected
Need(families) == [do |-> "need", families |-> families]
Call(op) == [do |-> "call", op |-> op]
Wait(op) == [do |-> "wait", op |-> op]    \* a call that a facade may say it cannot do
Save == [do |-> "save"]

-----------------------------------------------------------------------------
(* What a facade implements; a call of anything else is UnsupportedCapabilityError, or *)
(* would go wrong in a way nobody wrote down                                           *)

SharedOps == {"device_info", "network_info", "ntp_info", "diagnostic_page", "logfile",
              "install_firmware"}
ApiOps == {"set_ntp", "set_ip", "get_logging_severity", "set_logging_severity",
           "check_update", "trigger_online_update", "wait_for_completion",
           "commissioning_test", "enable_ssh", "disable_ssh", "reboot", "factory_reset"}
\* Both families have a GDS socket; run_gds, and the G1 that the group gds makes, are not
\* told which one they talk to.
GdsOps == {"process_view", "device_config", "set_device_config", "app_value", "set_app_value",
           "set_location", "tks_status", "configure_tks", "listen", "restart",
           "gds_factory_reset", "get_ui_configuration", "set_ui_configuration"}
TksOps == {"activate_web", "status", "raw_device_info", "sip_clients", "create_sip_client",
           "delete_sip_client", "register", "backup_save", "backup_restore", "firmware_update"}

G1Facade == SharedOps \cup ApiOps \cup GdsOps
X1Facade == SharedOps \cup ApiOps \cup GdsOps
TksIpFacade == SharedOps \cup TksOps
Facade == [f \in Families |-> CASE f = "g1" -> G1Facade [] f = "x1" -> X1Facade
                                [] f = "tks-ip" -> TksIpFacade]

Reads == (SharedOps \ {"install_firmware"})
         \cup {"get_logging_severity", "check_update", "wait_for_completion", "process_view",
               "device_config", "app_value", "tks_status", "listen", "get_ui_configuration",
               "status", "raw_device_info", "sip_clients", "backup_save"}
Erasing == {"factory_reset", "gds_factory_reset", "backup_restore", "delete_sip_client",
            "set_ui_configuration", "firmware_update"}

-----------------------------------------------------------------------------
(* The commands *)

Runs(path, steps) == [path |-> path, steps |-> steps]

InfoCommands ==
    {Runs(<<"device", "detect">>, <<Detect>>),
     Runs(<<"device", "info">>, <<Detect, Call("device_info")>>)}

SettingCommands ==
    {Runs(<<"device", "diagnostics">>, <<Detect, Call("diagnostic_page")>>),
     Runs(<<"ntp", "set">>, <<Input, Detect, Call("set_ntp")>>),
     Runs(<<"ntp", "get">>, <<Detect, Call("ntp_info")>>),
     Runs(<<"network", "set">>,
          <<Input, Detect, Call("device_info"), Input, Call("set_ip")>>),
     Runs(<<"network", "get">>, <<Detect, Call("network_info")>>)}

FirmwareCommands ==
    {Runs(<<"firmware", "check">>, <<Detect, Call("check_update")>>),
     Runs(<<"firmware", "upgrade", "--file">>,
          <<Input, Detect, Call("install_firmware"), Wait("wait_for_completion")>>),
     Runs(<<"firmware", "upgrade", "--online">>,
          <<Detect, Call("trigger_online_update"), Wait("wait_for_completion")>>),
     Runs(<<"device", "commissioning-test">>, <<Detect, Call("commissioning_test")>>),
     Runs(<<"ssh", "enable">>, <<Detect, Call("enable_ssh")>>),
     Runs(<<"ssh", "disable">>, <<Detect, Call("disable_ssh")>>)}

\* set-tks and set-weather: the capability is checked, then run_gds is called directly.
TksConfigure ==
    {Runs(<<"tks", "configure">>, <<Input, Detect, Need({"g1"}), Call("configure_tks")>>)}
WeatherSet ==
    {Runs(<<"weather", "set">>,
          <<Input, Detect, Need({"g1"}), Input, Call("set_app_value")>>)}

\* Mistake: the reset is sent, then the question is asked.
AskLate ==
    {Runs(<<"device", "restart">>, <<Detect, Call("reboot")>>),
     Runs(<<"device", "factory-reset">>, <<Detect, Call("factory_reset"), Ask>>)}

LifecycleCommands ==
    {Runs(<<"device", "restart">>, <<Detect, Call("reboot")>>),
     Runs(<<"device", "factory-reset">>, <<Ask, Detect, Call("factory_reset")>>)}

TksCommands ==
    {Runs(<<"tks", "activate">>, <<TksLogin, Call("activate_web")>>),
     Runs(<<"tks", "status">>, <<TksLogin, Call("status")>>),
     Runs(<<"tks", "backup", "save">>, <<TksLogin, Call("backup_save"), Save>>),
     Runs(<<"tks", "backup", "restore">>, <<Input, Ask, TksLogin, Call("backup_restore")>>),
     Runs(<<"tks", "firmware", "update">>,
          <<Input, Ask, TksLogin, Call("firmware_update")>>),
     Runs(<<"tks", "info">>, <<TksLogin, Call("raw_device_info")>>)}

SipCommands ==
    {Runs(<<"tks", "sip", "info">>, <<TksLogin, Call("sip_clients")>>),
     Runs(<<"tks", "sip", "users", "add">>, <<Input, TksLogin, Call("create_sip_client")>>),
     Runs(<<"tks", "sip", "users", "delete">>, <<Ask, TksLogin, Call("delete_sip_client")>>),
     Runs(<<"tks", "sip", "monitor">>, <<Input, TksLogin, Call("register")>>)}

\* pull-logs; what tail-logs does is LogTail.
LogCommands ==
    {Runs(<<"logs", "pull">>, <<Detect, Call("logfile"), Save>>)}
LoggingCommands ==
    {Runs(<<"logging", "set">>, <<Detect, Call("set_logging_severity")>>),
     Runs(<<"logging", "get">>, <<Detect, Call("get_logging_severity")>>)}

ProgramCommands ==
    {Runs(<<"program", "export">>,
          <<Detect, Need({"x1"}), Call("get_ui_configuration"), Save>>),
     Runs(<<"program", "import">>,
          <<Input, Ask, Input, Detect, Need({"x1"}), Call("set_ui_configuration")>>)}

\* Mistake: the group does not look at what it has found.
GroupOpen == <<Detect>>

\* The group finds its device and refuses others before a command in it does anything.
GdsGroup == <<Detect, Need({"g1"})>>

GdsCommand(steps) == GdsGroup \o steps
GdsCommands ==
    {Runs(<<"gds", "process-view">>, GdsCommand(<<Call("process_view")>>)),
     Runs(<<"gds", "device-config">>, GdsCommand(<<Call("device_config")>>)),
     Runs(<<"gds", "set-device-config">>, GdsCommand(<<Input, Call("set_device_config")>>)),
     Runs(<<"gds", "app-value", "get">>, GdsCommand(<<Input, Call("app_value")>>)),
     Runs(<<"gds", "app-value", "set">>, GdsCommand(<<Input, Call("set_app_value")>>)),
     Runs(<<"gds", "set-location">>, GdsCommand(<<Input, Call("set_location")>>)),
     Runs(<<"gds", "tks-status">>, GdsCommand(<<Call("tks_status")>>)),
     Runs(<<"gds", "configure-tks">>,
          GdsCommand(<<Input, Need({"g1"}), Call("configure_tks")>>)),
     Runs(<<"gds", "listen">>, GdsCommand(<<Call("listen")>>)),
     Runs(<<"gds", "restart">>, GdsCommand(<<Call("restart")>>)),
     Runs(<<"gds", "factory-reset">>, GdsCommand(<<Ask, Call("gds_factory_reset")>>))}
Listed == InfoCommands \cup SettingCommands \cup FirmwareCommands \cup TksConfigure
          \cup WeatherSet \cup LifecycleCommands \cup TksCommands \cup SipCommands
          \cup LogCommands \cup LoggingCommands \cup ProgramCommands \cup GdsCommands

\* The steps of each command.
Commands == [path \in {e.path : e \in Listed} |->
                (CHOOSE e \in Listed : e.path = path).steps]

-----------------------------------------------------------------------------
(* What is declared *)

G1X1 == {"g1", "x1"}
For(path, families) == [path |-> path, families |-> families]
PathSupport ==
    {For(<<"device">>, Families),
     For(<<"device", "commissioning-test">>, G1X1),
     For(<<"device", "factory-reset">>, G1X1),
     For(<<"device", "restart">>, G1X1),
     For(<<"firmware">>, Families),
     For(<<"firmware", "check">>, G1X1),
     For(<<"gds">>, {"g1"}),
     For(<<"logging">>, G1X1),
     For(<<"logs">>, Families),
     For(<<"network">>, Families),
     For(<<"network", "set">>, G1X1),
     For(<<"ntp">>, Families),
     For(<<"ntp", "set">>, G1X1),
     For(<<"program">>, {"x1"}),
     For(<<"ssh">>, G1X1),
     For(<<"tks">>, {"g1", "tks-ip"}),
     For(<<"tks", "configure">>, {"g1"}),
     For(<<"weather">>, {"g1"})}
    \cup {For(<<"tks", name>>, {"tks-ip"}) :
            name \in {"activate", "status", "info", "sip", "backup", "firmware"}}

\* An entry is for a command or for a group that the command is in.
Covers(e, path) == Len(e.path) <= Len(path) /\ \A i \in 1 .. Len(e.path) : e.path[i] = path[i]

\* A command without an entry has that of the nearest group that has one.
Declared(path) ==
    LET entries == {e \in PathSupport : Covers(e, path)}
    IN (CHOOSE e \in entries : \A x \in entries : Len(x.path) <= Len(e.path)).families

-----------------------------------------------------------------------------
(* Running a command *)

VARIABLES
    cli,      \* how the invocation stands: "running", or how it ended
    command,  \* what was invoked
    stage,     \* the number of the step it is at
    family,   \* the family of the device it talks to, "unknown" before it is found
    consent,  \* the flag that skips the question was given, or the question was answered
    called,   \* what was done with the device
    file      \* the output file was written

cliVars == <<cli, command, stage, family, consent, called, file>>

CliInit ==
    /\ cli = "running" /\ command \in DOMAIN Commands /\ stage = 1
    /\ family = "unknown" /\ consent \in BOOLEAN /\ called = {} /\ file = FALSE

Program == Commands[command]
Doing(do) == cli = "running" /\ stage <= Len(Program) /\ Program[stage].do = do
Proceed == stage' = stage + 1 /\ UNCHANGED <<cli, command>>

\* Mistake: a command that ends counts the step it did not take.
EndFurther(result) == cli' = result /\ stage' = stage + 1 /\ UNCHANGED command
EndWith(result) == cli' = result /\ UNCHANGED <<command, stage>>

Confirm ==
    /\ Doing("ask")
    /\ \/ Proceed /\ consent' = TRUE
       \/ ~consent /\ EndWith("aborted") /\ UNCHANGED consent
    /\ UNCHANGED <<family, called, file>>

ReadInput ==
    /\ Doing("input")
    /\ Proceed \/ EndWith("invalid")
    /\ UNCHANGED <<family, consent, called, file>>

\* A device that is not found, not known or not the expected one ends the command.
FindTarget ==
    /\ Doing("detect") \/ Doing("tks")
    /\ \/ /\ family' \in IF Program[stage].do = "tks" THEN {"tks-ip"} ELSE Families
          /\ Proceed
       \/ EndWith("refused") /\ UNCHANGED family
    /\ UNCHANGED <<consent, called, file>>

CheckFamily ==
    /\ Doing("need")
    /\ IF family \in Program[stage].families THEN Proceed ELSE EndWith("unsupported")
    /\ UNCHANGED <<family, consent, called, file>>

\* The request may fail after it was carried out.
CallDevice ==
    /\ Doing("call")
    /\ IF Program[stage].op \in Facade[family]
       THEN \/ Proceed /\ called' = called \cup {Program[stage].op}
            \/ EndWith("failed") /\ called' \in {called, called \cup {Program[stage].op}}
       ELSE EndWith("unsupported") /\ UNCHANGED called
    /\ UNCHANGED <<family, consent, file>>

\* --no-wait, or a facade that cannot wait (can_wait_for_upgrade), ends the command.
WaitForDevice ==
    /\ Doing("wait")
    /\ \/ EndWith("done") /\ UNCHANGED called
       \/ /\ Program[stage].op \in Facade[family]
          /\ \/ Proceed /\ called' = called \cup {Program[stage].op}
             \/ EndWith("failed") /\ UNCHANGED called
    /\ UNCHANGED <<family, consent, file>>

\* The data is complete before the file is opened.
SaveFile ==
    /\ Doing("save")
    /\ \/ Proceed /\ file' = TRUE
       \/ EndWith("failed") /\ file' \in BOOLEAN
    /\ UNCHANGED <<family, consent, called>>

Finish ==
    /\ cli = "running" /\ stage > Len(Program)
    /\ EndWith("done")
    /\ UNCHANGED <<family, consent, called, file>>

CliNext == Confirm \/ ReadInput \/ FindTarget \/ CheckFamily \/ CallDevice \/ WaitForDevice
           \/ SaveFile \/ Finish

CliSpec == CliInit /\ [][CliNext]_cliVars

-----------------------------------------------------------------------------
(* Properties *)

\* Every variable has the shape its declaration says.
CliTypeOK ==
    /\ cli \in {"running", "done", "aborted", "invalid", "refused", "unsupported", "failed"}
    /\ command \in DOMAIN Commands /\ stage \in 1 .. Len(Program) + 1
    /\ family \in Families \cup {"unknown"}
    /\ consent \in BOOLEAN /\ file \in BOOLEAN
    /\ called \subseteq UNION {Facade[f] : f \in Families}

\* The families that pygira declares for a command are those it works on: on another one
\* it calls no operation that changes the device and does not end well, on a declared one
\* it is not refused as unsupported (command_support.py:94).  The code makes an exception
\* of firmware upgrade --online, which is declared for TKS-IP, too.
SupportedAsDeclared ==
    family # "unknown" =>
        /\ family \notin Declared(command) => cli # "done" /\ called \subseteq Reads
        /\ cli = "unsupported" =>
             \/ family \notin Declared(command)
             \/ command = <<"firmware", "upgrade", "--online">> /\ family = "tks-ip"

\* Nothing that erases or overwrites what a device holds is sent before the user agreed, by
\* the flag or by answering the question; and a command that ends because the user said
\* no, the input makes no sense or the device is the wrong one has changed neither the
\* device nor a file, whichever of the checks comes first (maintenance.py:729, :1063).
UntouchedUnlessAgreed ==
    /\ called \cap Erasing # {} => consent
    /\ cli \in {"aborted", "invalid", "refused", "unsupported"} =>
         called \subseteq Reads /\ ~file
    /\ file => \E op \in called : op \in {"logfile", "backup_save", "get_ui_configuration"}
=============================================================================
