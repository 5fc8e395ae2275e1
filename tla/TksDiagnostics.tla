--------------------------- MODULE TksDiagnostics ---------------------------
(***************************************************************************)
(* What device-status concludes from the log of a TKS-IP gateway           *)
(* (src/pygira/config_service.py and commands/maintenance.py).  The log    *)
(* shows a day and a time but no year; the year is guessed from the clock  *)
(* of the gateway.                                                         *)
(*                                                                         *)
(* A time is a number of equal steps; a line is [at, says], the time it    *)
(* was written at and the one signal in it.                                *)
(***************************************************************************)
EXTENDS Integers, Sequences, FiniteSets, SequencesExt

CONSTANTS
    Year, Day,      \* how many steps a year has, and a day
    FailureWindow,  \* failure_window: how long before the latest signal a failure counts
    Labels          \* the failures that are looked for

ASSUME DiagnosticSteps == Year \in Nat /\ Day \in 1 .. Year /\ FailureWindow \in 0 .. Day

\* The signals that are no failures.
HealthSigns == {"resources", "sip_memory", "sip_alive", "sip_dead", "bus"}
ASSUME FailuresAreNoOtherSignals == Labels \cap HealthSigns = {}

Never == -1

\* What the log shows of a time, and the time _syslog_time takes it for.
Shown(at) == at % Year

\* Mistake: every line is taken to be of the clock's year.
ThisYear(shown, reference) == (reference \div Year) * Year + shown

SyslogTime(shown, reference) ==
    LET parsed == (reference \div Year) * Year + shown
    IN IF parsed - reference > Day THEN parsed - Year ELSE parsed

\* _RuntimeSignals, as far as the report depends on it: when the latest line of each kind
\* was written, the last keepalive, and the failures with their times.
NoSignals == [resources |-> Never, sip |-> Never, bus |-> Never, responsive |-> "unknown",
              failures |-> {}]

\* The readers of resources, of SIP, and of the bus and the failures.
ReadSignal(s, says, timestamp) ==
    CASE says = "resources" -> [s EXCEPT !.resources = timestamp]
      [] says = "sip_memory" -> [s EXCEPT !.sip = timestamp]
      [] says \in {"sip_alive", "sip_dead"} ->
           [s EXCEPT !.sip = timestamp, !.responsive = says]
      [] says = "bus" -> [s EXCEPT !.bus = timestamp]
      [] says \in Labels -> [s EXCEPT !.failures = @ \cup {<<timestamp, says>>}]

ReadLine(reference, s, line) ==
    ReadSignal(s, line.says, SyslogTime(Shown(line.at), reference))

Signals(log, reference) ==
    FoldLeft(LAMBDA s, line : ReadLine(reference, s, line), NoSignals, log)

\* _runtime_diagnostics: the failures in the window before the latest signal of health.
Cutoff(s, reference) ==
    LET observed == {s.resources, s.sip, s.bus} \ {Never}
    IN (IF observed = {} THEN reference
        ELSE CHOOSE t \in observed : \A u \in observed : u <= t) - FailureWindow

RecentFailures(s, reference) ==
    {f[2] : f \in {g \in s.failures : g[1] >= Cutoff(s, reference)}}

\* get_tks_device_status and _tks_status_summary: the page on port 80, and the log if it
\* was there and could be read (an AES key is known and fits).
Summary(page, readable, log, reference) ==
    LET s == Signals(log, reference)
    IN CASE page = "none" -> "unavailable"
         [] page = "other" -> "unexpected"
         [] page = "gateway" /\ ~readable -> "reachable"
         [] page = "gateway" /\ readable ->
              IF RecentFailures(s, reference) # {} \/ s.responsive = "sip_dead"
              THEN "needs_attention" ELSE "operational"

-----------------------------------------------------------------------------
(* Properties *)

\* The clock is read before the log is downloaded (config_service.py:349-363), so a line
\* may be ahead of it; one that is ahead over New Year is dated a year back.
DatedBack(at, reference) == at > reference /\ at \div Year # reference \div Year

\* A log whose lines are in the order of their times: none so old that its day is ahead of
\* the clock's again, none more than a day ahead, and none ahead over New Year.
Datable(log, reference) ==
    /\ \A i, j \in DOMAIN log : i < j => log[i].at <= log[j].at
    /\ \A i \in DOMAIN log : /\ reference - log[i].at < Year - Day
                             /\ log[i].at - reference <= Day
                             /\ ~DatedBack(log[i].at, reference)

\* A log whose last keepalive failed calls for attention, whatever its times are taken for.
\* One that can be dated does so exactly if that is so or a failure was written no longer
\* than the window before the latest sign of health, as the times were, not as they are
\* shown: New Year between two lines changes nothing, nor between a line and the later
\* clock, nor does a line written after the clock was read, unless New Year lies between
\* (config_service.py:210, :272, :349-363; maintenance.py:236).
AttentionWhenDue(log, reference) ==
    LET health == {i \in DOMAIN log : log[i].says \notin Labels}
        latest == IF health = {} THEN reference
                  ELSE log[CHOOSE i \in health : \A j \in health : j <= i].at
        keepalives == {i \in DOMAIN log : log[i].says \in {"sip_alive", "sip_dead"}}
        dead == \E i \in keepalives : log[i].says = "sip_dead" /\ \A j \in keepalives : j <= i
        due == {log[i].says : i \in {j \in DOMAIN log :
                   log[j].says \in Labels /\ log[j].at >= latest - FailureWindow}}
    IN /\ dead => Summary("gateway", TRUE, log, reference) = "needs_attention"
       /\ Datable(log, reference) =>
            /\ RecentFailures(Signals(log, reference), reference) = due
            /\ (Summary("gateway", TRUE, log, reference) = "needs_attention") =
                 (due # {} \/ dead)
=============================================================================
