----------------------------- MODULE Bootstrap -----------------------------
(***************************************************************************)
(* pygira bootstrap (src/pygira/commands/bootstrap.py): three steps on one *)
(* device, in a fixed order, none of which stops the ones after it, and    *)
(* the report of what was done.  The TKS step is itself three requests:    *)
(* the credentials, and the two values of the datapoint that makes a G1    *)
(* connect to its TKS-IP gateway (GdsClient.configure_tks).                *)
(***************************************************************************)
EXTENDS Integers, FiniteSets

BootSteps == {"network", "tks", "weather"}

CONSTANT
    Capable     \* what each device family implements of BootSteps

ASSUME CapableSteps == \A f \in DOMAIN Capable : Capable[f] \subseteq BootSteps

VARIABLES
    boot,      \* what bootstrap does now: a request of a step, or an end
    target,    \* the family resolve_login found
    wanted,    \* the steps whose options were given (all three of the TKS ones)
    valid,     \* the network options, merged with the device's, are addresses
    status,    \* the BootstrapStep of each step, "none" before it
    \* The device:
    holds,     \* the steps whose settings it holds
    away,      \* it has left the address bootstrap talks to
    trigger,   \* the datapoint 500002
    connected  \* with which credentials it has connected to its gateway meanwhile

bootVars == <<boot, target, wanted, valid, status, holds, away, trigger, connected>>
invocation == <<target, wanted, valid>>

Ended == {"reported", "refused", "aborted", "escaped"}
After == [network |-> "tks", tks |-> "weather", weather |-> "reported"]

BootInit ==
    /\ boot = "resolving"
    /\ target \in DOMAIN Capable /\ wanted \in SUBSET BootSteps /\ valid \in BOOLEAN
    /\ status = [s \in BootSteps |-> "none"]
    /\ holds = {} /\ away = FALSE /\ trigger \in {0, 1} /\ connected = "none"

-----------------------------------------------------------------------------
(* External: what a request does to the device *)

\* The device takes the network settings; with another address, it is gone from its old
\* one, perhaps before the answer arrives.
TakeNetwork == holds' = holds \cup {"network"} /\ away' \in BOOLEAN

\* The gateway connection is made anew when the datapoint goes from 0 to 1.
TakeTrigger(value) ==
    /\ trigger' = value
    /\ connected' = IF trigger = 0 /\ value = 1
                    THEN IF "tks" \in holds THEN "new" ELSE "old"
                    ELSE connected

-----------------------------------------------------------------------------
(* The command *)

Resolve ==
    /\ boot = "resolving" /\ boot' \in {"network", "refused"}
    /\ UNCHANGED <<invocation, status, holds, away, trigger, connected>>

Report(step, outcome) ==
    /\ status' = [status EXCEPT ![step] = outcome]
    /\ boot' = After[step]

Skip(step) ==
    /\ boot = step /\ step \notin wanted
    /\ Report(step, "skipped")
    /\ UNCHANGED <<invocation, holds, away, trigger, connected>>

Unsupported(step) ==
    /\ boot = step /\ step \in wanted \ Capable[target]
    /\ Report(step, "failed")
    /\ UNCHANGED <<invocation, holds, away, trigger, connected>>

Attempted(step) == boot = step /\ step \in wanted \cap Capable[target]

\* No answer, an error in the answer, a lookup that finds no weather station: all of
\* these are PygiraErrors.
Fails(step) ==
    /\ Attempted(step)
    /\ Report(step, "failed")
    /\ UNCHANGED <<invocation, holds, away, trigger, connected>>

\* set_ip with what device_info answered and the options.
ConfigureNetwork ==
    /\ Attempted("network") /\ valid
    /\ TakeNetwork
    /\ Report("network", "succeeded") \/ Report("network", "failed")
    /\ UNCHANGED <<invocation, trigger, connected>>

\* A ValidationError of the merged settings is no PygiraError: it ends the command.
InvalidNetwork ==
    /\ boot = "network" /\ "network" \in wanted /\ ~valid
    /\ boot' = "aborted"
    /\ UNCHANGED <<invocation, status, holds, away, trigger, connected>>

\* An answer over HTTP that is no HTTP, no JSON or not of the expected shape raises what is
\* no PygiraError (of http.client, a JSONDecodeError, an AttributeError) and ends the
\* command, in the first step perhaps when the device has taken the settings.  The device
\* of any family is asked for its settings.  GdsClient wraps what it gets.
AnswerEscapes(step) ==
    /\ boot = step /\ step \in wanted /\ boot' = "escaped"
    /\ \/ step = "network" /\ UNCHANGED <<holds, away>>
       \/ step = "network" /\ Attempted(step) /\ valid /\ TakeNetwork
       \/ step = "weather" /\ Attempted(step) /\ UNCHANGED <<holds, away>>
    /\ UNCHANGED <<invocation, status, trigger, connected>>

\* Mistake: the answer to SetConfiguration is not looked at.
CredentialsUnchecked ==
    /\ Attempted("tks") /\ ~away
    /\ holds' \in {holds, holds \cup {"tks"}}
    /\ boot' = "pulseLow"
    /\ UNCHANGED <<invocation, status, away, trigger, connected>>

\* set_configuration: an error in the answer raises; one that is lost does, too.
SetCredentials ==
    /\ Attempted("tks") /\ ~away
    /\ holds' = holds \cup {"tks"}
    /\ \/ boot' = "pulseLow" /\ UNCHANGED status
       \/ Report("tks", "failed")
    /\ UNCHANGED <<invocation, away, trigger, connected>>

\* SetValue 500002: an answer that reports an error passes for success; none raises.
Pulse(now, value, then) ==
    /\ boot = now
    /\ TakeTrigger(value) \/ UNCHANGED <<trigger, connected>>
    /\ \/ then = "weather" /\ Report("tks", "succeeded")
       \/ then # "weather" /\ boot' = then /\ UNCHANGED status
       \/ Report("tks", "failed")
    /\ UNCHANGED <<invocation, holds, away>>

Trigger ==
    \/ Pulse("pulseLow", 0, "pulseHigh")
    \/ Pulse("pulseHigh", 1, "weather")

\* Mistake: the answer to SetAppValue is not looked at.
WeatherUnchecked ==
    /\ Attempted("weather") /\ ~away
    /\ holds' \in {holds, holds \cup {"weather"}}
    /\ Report("weather", "succeeded")
    /\ UNCHANGED <<invocation, away, trigger, connected>>

\* find_station, then SetAppValue: an error in the answer raises.
ConfigureWeather ==
    /\ Attempted("weather") /\ ~away
    /\ holds' = holds \cup {"weather"}
    /\ Report("weather", "succeeded") \/ Report("weather", "failed")
    /\ UNCHANGED <<invocation, away, trigger, connected>>

BootNext ==
    \/ Resolve
    \/ \E s \in BootSteps : Skip(s) \/ Unsupported(s) \/ Fails(s) \/ AnswerEscapes(s)
    \/ ConfigureNetwork \/ InvalidNetwork \/ SetCredentials \/ Trigger \/ ConfigureWeather

BootFairness == WF_bootVars(BootNext)
BootSpec == BootInit /\ [][BootNext]_bootVars /\ BootFairness

-----------------------------------------------------------------------------
(* Properties *)

\* Every variable has the shape its declaration says.
BootTypeOK ==
    /\ boot \in BootSteps \cup Ended \cup {"resolving", "pulseLow", "pulseHigh"}
    /\ target \in DOMAIN Capable /\ wanted \subseteq BootSteps /\ valid \in BOOLEAN
    /\ status \in [BootSteps -> {"none", "skipped", "failed", "succeeded"}]
    /\ holds \subseteq BootSteps /\ away \in BOOLEAN /\ trigger \in {0, 1}
    /\ connected \in {"none", "old", "new"}

\* What bootstrap prints at its end is true of the device: a step is reported skipped
\* exactly if its options were not given, one reported as completed left its settings on
\* the device, and one the family does not implement is reported as failed
\* (bootstrap.py:234-245).
ReportIsTrue ==
    boot = "reported" =>
        \A s \in BootSteps :
            /\ status[s] # "none"
            /\ (status[s] = "skipped") = (s \notin wanted)
            /\ status[s] = "succeeded" => s \in holds
            /\ s \in wanted \ Capable[target] => status[s] = "failed" /\ s \notin holds

\* If the device connects to its gateway anew while bootstrap runs, it does so with the
\* credentials bootstrap was given, whichever of the requests got lost (gds.py:473-480).
ConnectsWithNewCredentials == connected # "old"

\* Whatever fails, Ctrl-C aside, bootstrap ends, with a report unless the device was not resolved,
\* the network options are no addresses, or an answer over HTTP was garbled, in the first
\* step or the last; nothing that happens in the TKS step ends it without a report
\* (bootstrap.py:137, :169, :214, :222-253).
BootEnds ==
    <>(/\ boot \in Ended
       /\ boot = "aborted" => ~valid
       /\ boot = "escaped" => status["network"] = "none" \/ status["tks"] # "none")
=============================================================================
