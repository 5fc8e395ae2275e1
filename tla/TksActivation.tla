--------------------------- MODULE TksActivation ----------------------------
(***************************************************************************)
(* Starting the on-demand web application of a TKS-IP gateway              *)
(* (activate_tks_webinterface of src/pygira/config_service.py): a hook on  *)
(* port 80, then port 8080 is asked for the application's state until it   *)
(* runs or the deadline has passed.                                        *)
(*                                                                         *)
(* A request is two steps, for the gateway's state may change between its  *)
(* answer and the return of the request: the gateway takes or answers it,  *)
(* and the client hears of that.  Time is counted in units in which every  *)
(* wait, pause and timeout is a whole number.                              *)
(***************************************************************************)
EXTENDS Integers

CONSTANTS
    Timeout,   \* of the activation
    Interval,  \* poll_interval
    Slow,      \* what a poll waits at most, once to connect and once for the
               \* answer: min(poll_interval, 5.0)
    HookSlow   \* the same of the hook: min(timeout, 15.0)

ASSUME TimeAssumption ==
    /\ Timeout \in Nat \ {0} /\ Interval \in Nat \ {0}
    /\ Slow \in Nat /\ HookSlow \in 0..Timeout

Least(x, y) == IF x < y THEN x ELSE y
Later(x, y) == IF x < y THEN y ELSE x

VARIABLES
    act,        \* where the activation stands
    clock,      \* the time since its start
    app,        \* the application: "off", "starting", "running", "error"
    readyAt,    \* when it began to run, -1 if it does not
    lastState,  \* last_state, "none" for None
    lastError,  \* has a poll failed?
    reply       \* what became of the last poll

actVars == <<act, clock, app, readyAt, lastState, lastError, reply>>

ActInit ==
    /\ act = "idle" /\ clock = 0
    /\ app \in {"off", "running"} /\ readyAt = IF app = "running" THEN 0 ELSE -1
    /\ lastState = "none" /\ lastError = FALSE /\ reply = "none"

-----------------------------------------------------------------------------
\* _start_tks_webinterface: the hook starts the application, also when its answer is
\* lost, an HTTP error, or so odd that http.client raises what _http.py does not catch.
SendHook ==
    /\ act = "idle" /\ act' = "hooked"
    /\ \E d \in 0..HookSlow : clock' = clock + d
    /\ app' = IF app = "off" THEN "starting" ELSE app
    /\ UNCHANGED <<readyAt, lastState, lastError, reply>>

HookReturns ==
    /\ act = "hooked" /\ act' \in {"polling", "transportError", "escaped"}
    /\ \E d \in 0..HookSlow : clock' = clock + d
    /\ UNCHANGED <<app, readyAt, lastState, lastError, reply>>

HookLost ==
    /\ act = "idle" /\ act' = "transportError"
    /\ \E d \in 0..HookSlow : clock' = clock + d
    /\ UNCHANGED <<app, readyAt, lastState, lastError, reply>>

\* Mistake: the deadline is looked at before a poll, not after it.
Before(time) == IF time + Interval >= Timeout THEN "timeout" ELSE "sleeping"

\* The deadline is looked at after a poll.
Onward(time) == IF time >= Timeout THEN "timeout" ELSE "sleeping"

\* The gateway answers a poll with the state of this moment, or the poll is lost, which
\* stands also for an HTTP error.
AnswerPoll ==
    /\ act = "polling" /\ act' = "answered"
    /\ \E d \in 0..Slow : clock' = clock + d
    /\ \/ reply' \in {"lost", "odd"}
       \/ app = "starting" /\ reply' \in {"starting", "unreadable"}
       \/ app \in {"running", "error"} /\ reply' = app
    /\ UNCHANGED <<app, readyAt, lastState, lastError>>

\* _poll_tks_state: an error of HTTP keeps the last state, an answer that cannot be
\* parsed clears it, and the loop looks at the clock; what is no HTTP ends it.
PollReturns ==
    /\ act = "answered"
    /\ \E d \in 0..Slow : clock' = clock + d
    /\ lastError' = (lastError \/ reply = "lost")
    /\ lastState' = CASE reply = "unreadable" -> "none"
                      [] reply \in {"starting", "running"} -> reply
                      [] OTHER -> lastState
    /\ act' = CASE reply = "running" -> "up"
                [] reply = "error" -> "protocolError"
                [] reply = "odd" -> "escaped"
                [] OTHER -> Onward(clock')
    /\ UNCHANGED <<app, readyAt, reply>>

PauseUpTo == Least(Interval, Timeout - clock)

SleepOn ==
    /\ act = "sleeping" /\ act' = "polling"
    /\ clock' = clock + PauseUpTo
    /\ UNCHANGED <<app, readyAt, lastState, lastError, reply>>

-----------------------------------------------------------------------------
AppStarts ==
    /\ app = "starting"
    /\ \/ app' = "running" /\ readyAt' = clock
       \/ app' = "error" /\ UNCHANGED readyAt
    /\ UNCHANGED <<act, clock, lastState, lastError, reply>>

\* The gateway ends an application that nobody uses.
AppStops ==
    /\ app \in {"running", "error"} /\ app' = "off" /\ readyAt' = -1
    /\ UNCHANGED <<act, clock, lastState, lastError, reply>>

ActStep == SendHook \/ HookReturns \/ HookLost \/ AnswerPoll \/ PollReturns \/ SleepOn
ActNext == ActStep \/ AppStarts \/ AppStops
ActSpec == ActInit /\ [][ActNext]_actVars

\* Each request has a timeout and time passes in a sleep.
ActFairness == WF_actVars(ActStep)

-----------------------------------------------------------------------------
Results == {"up", "timeout", "transportError", "protocolError", "escaped"}

\* Every variable has the shape its declaration says.
ActTypeOK ==
    /\ act \in {"idle", "hooked", "polling", "answered", "sleeping"} \cup Results
    /\ clock \in Nat /\ readyAt \in Nat \cup {-1}
    /\ app \in {"off", "starting", "running", "error"}
    /\ lastState \in {"none", "starting", "running"}
    /\ lastError \in BOOLEAN
    /\ reply \in {"none", "lost", "odd", "starting", "unreadable", "running", "error"}

\* However the requests and pauses fall, the activation is over at most one request after
\* its deadline, or after the hook if that took longer, and it gives up only on an
\* application that was not ready at its last answer, unless that was lost; and the last
\* answer is given no earlier than one wait before the deadline, so an application that is
\* ready by then is found (config_service.py:505-516).  One that becomes ready after it
\* need not be: an answer that returns at the deadline is not followed by another poll.
DeadlineIsKept ==
    /\ clock <= Later(Timeout, 2 * HookSlow) + 2 * Slow
    /\ act = "sleeping" => clock < Timeout
    /\ act = "timeout" /\ reply # "lost" => readyAt = -1 \/ readyAt >= Timeout - Slow

\* The activation ends.
ActEnds == act # "idle" ~> act \in Results
=============================================================================
