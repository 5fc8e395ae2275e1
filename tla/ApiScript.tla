----------------------------- MODULE ApiScript ------------------------------
(***************************************************************************)
(* A CLI command that sends one or more commands to the web service of a   *)
(* G1 or X1 (src/pygira/api.py, auth.py, commands/firmware.py): ssh        *)
(* enable and disable, reboot, firmware upgrade with the wait that follows *)
(* it.  Every command is sent with basic authentication first and, if the  *)
(* device refuses that, once more in a cookie session.                     *)
(*                                                                         *)
(* What the model asks of the device: a command it refuses for its         *)
(* credentials has no effect, and `progress` tells of the job it accepted  *)
(* last.                                                                   *)
(***************************************************************************)
EXTENDS Integers, Sequences

CONSTANTS
    Scripts   \* command lines: sequences of commands of the web service

Polled == {"startonlineupdate", "initlocalupload"}
ScriptCommands == UNION {{s[i] : i \in 1..Len(s)} : s \in Scripts}

ASSUME ScriptAssumption == Scripts \subseteq Seq(STRING) /\ \A s \in Scripts : s # <<>>

VARIABLES
    script,   \* the commands the CLI command is to send
    step,     \* how many of them it has an answer to
    phase,    \* the exchange that comes next
    outcome,  \* what the CLI command reports
    accepts,  \* how the device lets the user in: of "basic" and "session"
    effects,  \* the commands that took effect
    job       \* what `progress` tells: "none", "stale", "running", "rebooting", "done", "failed"

apiVars == <<script, step, phase, outcome, accepts, effects, job>>

ApiInit ==
    /\ script \in Scripts /\ step = 0 /\ phase = "basic" /\ outcome = "none"
    /\ accepts \in SUBSET {"basic", "session"}
    /\ effects = <<>> /\ job \in {"none", "stale"}

Command == script[step + 1]
Reachable == job # "rebooting"

Fail == phase' = "over" /\ outcome' = "error" /\ UNCHANGED step

\* The device does what it is told; the upload only prepares a job.
Takes ==
    /\ effects' = Append(effects, Command)
    /\ job' = IF Command \in Polled THEN "running" ELSE job

\* upgrade(): after the last command it waits, unless told not to.
Answered ==
    /\ step' = step + 1
    /\ IF step + 1 < Len(script) THEN phase' = "basic" /\ UNCHANGED outcome
       ELSE \/ Command \in Polled /\ phase' = "wait" /\ UNCHANGED outcome
            \/ phase' = "over" /\ outcome' = "ok"

-----------------------------------------------------------------------------
(* _post(), _post_with_session_fallback(), authenticated_request() *)

Sending == phase \in {"basic", "again"} /\ step < Len(script)
Accepted == (IF phase = "basic" THEN "basic" ELSE "session") \in accepts

\* The answer may be lost after the command took effect: the transport error
\* ends the script, nothing is sent again.
Executed ==
    /\ Sending /\ Reachable /\ Accepted
    /\ Takes /\ (Answered \/ Fail)
    /\ UNCHANGED <<script, accepts>>

\* Mistake: a request without an answer is repeated in a session.
RefusedOrLost ==
    /\ phase = "basic" /\ Command # "upload"
    /\ \/ "basic" \notin accepts /\ UNCHANGED <<effects, job>>
       \/ "basic" \in accepts /\ Takes
    /\ phase' = "salt" /\ UNCHANGED <<script, step, outcome, accepts>>

\* An error with the id of a refused authentication (220, 235); an upload has no
\* fallback, its HTTP status ends it.
RefusedBasic ==
    /\ phase = "basic" /\ "basic" \notin accepts /\ Command # "upload"
    /\ phase' = "salt"
    /\ UNCHANGED <<script, step, outcome, accepts, effects, job>>

SaltGiven ==
    /\ phase = "salt" /\ phase' = "auth"
    /\ UNCHANGED <<script, step, outcome, accepts, effects, job>>

Authenticated ==
    /\ phase = "auth" /\ "session" \in accepts /\ phase' = "again"
    /\ UNCHANGED <<script, step, outcome, accepts, effects, job>>

\* Wrong credentials, an error of the device, no connection: the script ends.
ExchangeFails ==
    /\ phase \in {"basic", "salt", "auth", "again"} /\ Fail
    /\ UNCHANGED <<script, accepts, effects, job>>

-----------------------------------------------------------------------------
(* wait_for_completion() *)

SeenState ==
    /\ phase = "wait" /\ Reachable /\ accepts # {}
    /\ \/ job \in {"done", "stale"} /\ phase' = "over" /\ outcome' = "completed"
       \/ job = "failed" /\ phase' = "over" /\ outcome' = "error"
    /\ UNCHANGED <<script, step, accepts, effects, job>>

\* A poll that finds no device is passed over.  One that gets an error object, or
\* something that is not JSON from a device on its way up, is not.
PollFails ==
    /\ phase = "wait" /\ Reachable /\ Fail
    /\ UNCHANGED <<script, accepts, effects, job>>

WaitEnds ==
    /\ phase = "wait" /\ phase' = "over" /\ outcome' = "timedOut"
    /\ UNCHANGED <<script, step, accepts, effects, job>>

-----------------------------------------------------------------------------
\* The device works, reboots and comes back with the result.
JobGoesOn ==
    /\ \/ job = "running" /\ job' \in {"rebooting", "failed"}
       \/ job = "rebooting" /\ job' = "done"
    /\ UNCHANGED <<script, step, phase, outcome, accepts, effects>>

ApiStep == Executed \/ RefusedBasic \/ SaltGiven \/ Authenticated \/ ExchangeFails
           \/ SeenState \/ PollFails \/ WaitEnds
ApiNext == ApiStep \/ JobGoesOn
ApiSpec == ApiInit /\ [][ApiNext]_apiVars

\* Every request has a timeout and the wait a deadline.
ApiFairness == WF_apiVars(ApiStep)

-----------------------------------------------------------------------------
\* Every variable has the shape its declaration says.
ApiTypeOK ==
    /\ script \in Scripts /\ step \in 0..Len(script)
    /\ phase \in {"basic", "salt", "auth", "again", "wait", "over"}
    /\ outcome \in {"none", "ok", "completed", "timedOut", "error"}
    /\ accepts \subseteq {"basic", "session"}
    /\ effects \in Seq(ScriptCommands)
    /\ job \in {"none", "stale", "running", "rebooting", "done", "failed"}

\* Whatever is refused, repeated or lost, the device does what the script says, in
\* its order, each command once; it may be one command further than the caller
\* knows; success is reported for the whole script only, and "Firmware update
\* completed." of the update this command started, not of an earlier one.
EffectsFollowScript ==
    /\ Len(effects) <= Len(script)
    /\ \A i \in 1..Len(effects) : effects[i] = script[i]
    /\ Len(effects) \in {step, step + 1}
    /\ outcome \in {"ok", "completed", "timedOut"} => Len(effects) = Len(script)
    /\ outcome = "completed" => job = "done"

\* The command ends, whatever the device does.
ApiEnds == <>(phase = "over")
=============================================================================
