--------------------------- MODULE BaresipMonitor ---------------------------
(***************************************************************************)
(* One BaresipMonitor (src/pygira/baresip_monitor.py): the Baresip process *)
(* it runs, the owner-only directory with the SIP password in it, and the  *)
(* control socket from which events are read.                              *)
(*                                                                         *)
(* A message on the socket is two parts, because a netstring may reach the *)
(* reader in pieces: what one recv() got before the next timed out is      *)
(* gone.  Events are numbered in the order Baresip emits them.             *)
(***************************************************************************)
EXTENDS Integers, Sequences, SequencesExt

CONSTANTS
    MaxEvents,  \* bound on the events Baresip emits
    MaxStarts   \* bound on the calls of start()

ASSUME MonitorBounds == MaxEvents \in Nat /\ MaxStarts \in Nat

VARIABLES
    mon,       \* where start(), events() or close() stands
    process,   \* the child: "none", "running", "exited"
    told,      \* the last signal close() sent it, "cut" if Ctrl-C came before the first
    handle,    \* self._process is set
    files,     \* what exists of the temporary directory
    password,  \* self._password is not empty
    link,      \* self._control: is the socket open?
    stream,    \* the parts of messages that have not been received
    half,      \* the message of which Baresip has sent the first part, or Nothing
    partial,   \* the message whose first part the reader holds, or Nothing
    emitted,   \* the events Baresip has sent
    astray,    \* it has sent an answer that nobody asked for
    kept,      \* self._pending_events
    given,     \* the events yielded to the caller
    starts     \* the calls of start()

monVars == <<mon, process, told, handle, files, password, link, stream, half,
             partial, emitted, astray, kept, given, starts>>
disk == <<files, password>>
child == <<process, told, handle>>
wire == <<stream, half, partial, emitted, astray, kept, given>>

\* Messages: events are 1, 2, ...; the others answer a command.
Nothing == 0
Ok == -1
Rejected == -2
Foreign == -3   \* neither an event nor the answer to the token of uareg
Answers == {Ok, Rejected, Foreign}
Working == {"writing", "spawning", "dialling", "asking", "closing", "terminating", "killing"}

MonitorInit ==
    /\ mon = "idle" /\ starts = 0
    /\ process = "none" /\ told = "none" /\ handle = FALSE
    /\ files = {} /\ password = TRUE /\ link = FALSE
    /\ stream = <<>> /\ half = Nothing /\ partial = Nothing /\ emitted = 0 /\ astray = FALSE
    /\ kept = <<>> /\ given = <<>>

-----------------------------------------------------------------------------
(* start() *)

\* An executable that is missing ends start() before anything is made; a process
\* that an interrupted close() left behind ends it, too: events() refuses without a
\* control socket, and a caller that has one left does not read on but closes.
\* A new directory replaces one that an earlier start() left behind.
StartMonitor ==
    /\ mon \in {"idle", "over"} /\ starts < MaxStarts /\ starts' = starts + 1
    /\ IF handle
       THEN mon' = "closing" /\ UNCHANGED files
       ELSE \/ mon' = "over" /\ UNCHANGED files
            \/ mon' = "writing" /\ files' = {"directory"}
    /\ UNCHANGED <<child, password, link, wire>>

\* Outside the try block: an exception leaves what has been written so far.
WriteConfig ==
    /\ mon = "writing"
    /\ \/ /\ password
          /\ mon' = "spawning" /\ files' = {"directory", "config", "accounts"}
       \/ /\ mon' = "over"
          /\ files' \in {{"directory"}, {"directory", "config"}}
                        \cup IF password THEN {{"directory", "config", "accounts"}} ELSE {}
    /\ UNCHANGED <<child, password, link, wire, starts>>

Spawn ==
    /\ mon = "spawning"
    /\ \/ mon' \in {"over", "closing"} /\ UNCHANGED child   \* os.open, Popen raise
       \/ mon' = "dialling" /\ process' = "running" /\ handle' = TRUE /\ told' = "none"
    /\ UNCHANGED <<disk, link, wire, starts>>

\* Mistake: the account file stays for the life of the directory.
DialKeeping ==
    /\ mon = "dialling"
    /\ \/ mon' = "closing" /\ UNCHANGED <<disk, link, wire>>
       \/ /\ process = "running"
          /\ mon' = "asking" /\ link' = TRUE /\ password' = FALSE
          /\ UNCHANGED <<files, wire>>
    /\ UNCHANGED <<child, starts>>

\* _connect() fails when the process has exited or the deadline passes.
Dial ==
    /\ mon = "dialling"
    /\ \/ mon' = "closing" /\ UNCHANGED <<disk, link, wire>>
       \/ /\ process = "running"
          /\ mon' = "asking" /\ link' = TRUE
          /\ files' = files \ {"accounts"} /\ password' = FALSE
          /\ UNCHANGED wire
    /\ UNCHANGED <<child, starts>>

-----------------------------------------------------------------------------
(* Reading: _read_netstring, _send_command, events() *)

\* events() yields what _send_command() kept before it reads on.
Receiving == mon = "asking" \/ (mon = "reading" /\ kept = <<>>)

\* _send_command() keeps the events that precede the answer to its token.
ReceiveInCommand(m) ==
    /\ mon = "asking"
    /\ CASE m > 0 -> kept' = Append(kept, m) /\ UNCHANGED <<mon, given>>
         [] m = Ok -> mon' = "reading" /\ UNCHANGED <<kept, given>>
         [] m = Rejected -> mon' = "closing" /\ UNCHANGED <<kept, given>>
         [] OTHER -> UNCHANGED <<mon, kept, given>>

ReceiveInEvents(m) ==
    /\ mon = "reading"
    /\ given' = IF m > 0 THEN Append(given, m) ELSE given
    /\ UNCHANGED <<mon, kept>>

\* Mistake: an event that is being read when recv() times out is skipped.
Resynchronise ==
    /\ Receiving /\ stream # <<>>
    /\ LET m == Head(stream)[1] IN
       \/ /\ Head(stream)[2] = "head"
          /\ partial' = m /\ UNCHANGED <<mon, kept, given>>
       \/ /\ Head(stream)[2] = "rest" /\ partial # Nothing /\ partial' = Nothing
          /\ ReceiveInCommand(m) \/ ReceiveInEvents(m)
       \/ /\ Head(stream)[2] = "rest" /\ partial = Nothing
          /\ UNCHANGED <<mon, partial, kept, given>>
    /\ stream' = Tail(stream)
    /\ UNCHANGED <<child, disk, link, half, emitted, astray, starts>>

\* A frame without its first part has no valid length or no trailing comma.
Receive ==
    /\ Receiving /\ stream # <<>>
    /\ LET m == Head(stream)[1] IN
       \/ /\ Head(stream)[2] = "head"
          /\ partial' = m /\ UNCHANGED <<mon, kept, given>>
       \/ /\ Head(stream)[2] = "rest" /\ partial # Nothing /\ partial' = Nothing
          /\ ReceiveInCommand(m) \/ ReceiveInEvents(m)
       \/ /\ Head(stream)[2] = "rest" /\ partial = Nothing
          /\ mon' = "closing" /\ UNCHANGED <<partial, kept, given>>
    /\ stream' = Tail(stream)
    /\ UNCHANGED <<child, disk, link, half, emitted, astray, starts>>

YieldKept ==
    /\ mon = "reading" /\ kept # <<>>
    /\ given' = Append(given, Head(kept)) /\ kept' = Tail(kept)
    /\ UNCHANGED <<mon, child, disk, link, stream, half, partial, emitted, astray, starts>>

\* recv() times out: fatal for a command; events() looks whether Baresip is alive
\* and goes on, with the beginning of a frame lost.
RecvTimesOut ==
    /\ Receiving /\ stream = <<>>
    /\ partial' = Nothing
    /\ mon' = IF mon = "asking" \/ process = "exited" THEN "closing" ELSE mon
    /\ UNCHANGED <<child, disk, link, stream, half, emitted, astray, kept, given, starts>>

\* recv() returns b"" once the process is gone and everything has been read.
ControlClosed ==
    /\ Receiving /\ stream = <<>> /\ process = "exited"
    /\ mon' = "closing" /\ partial' = Nothing
    /\ UNCHANGED <<child, disk, link, stream, half, emitted, astray, kept, given, starts>>

\* The caller leaves the with block, or Ctrl-C ends whatever start() or events() does.
StopMonitor ==
    /\ mon \in {"spawning", "dialling", "asking", "reading"}
    /\ mon' = "closing"
    /\ UNCHANGED <<child, disk, link, wire, starts>>

-----------------------------------------------------------------------------
(* close() *)

\* What was under way on the control socket is gone with it.
Unheard ==
    /\ stream' = <<>> /\ half' = Nothing /\ partial' = Nothing
    /\ UNCHANGED <<emitted, astray, kept, given>>

Erased ==
    /\ mon' = "over" /\ handle' = FALSE /\ files' = {} /\ password' = FALSE /\ Unheard

\* Mistake: a process that did not answer is left alone.
CloseWithoutSignal ==
    /\ mon = "closing" /\ link' = FALSE /\ Erased
    /\ UNCHANGED <<process, told, starts>>

CloseMonitor ==
    /\ mon = "closing" /\ link' = FALSE
    /\ IF handle /\ process = "running"
       THEN /\ told' = "term" /\ mon' = "terminating"
            /\ UNCHANGED <<handle, disk, wire>>
       ELSE Erased /\ UNCHANGED told
    /\ UNCHANGED <<process, starts>>

ProcessReaped ==
    /\ mon \in {"terminating", "killing"} /\ process = "exited"
    /\ Erased /\ UNCHANGED <<process, told, link, starts>>

\* Mistake: a process that ignores SIGTERM is waited for.
WaitOn ==
    /\ mon = "terminating" /\ process = "running"
    /\ UNCHANGED <<mon, told, process, handle, disk, link, wire, starts>>

WaitTimesOut ==
    /\ process = "running"
    /\ \/ mon = "terminating" /\ told' = "kill" /\ mon' = "killing"
       \/ mon = "killing" /\ mon' = "over" /\ UNCHANGED told   \* TimeoutExpired
    /\ UNCHANGED <<process, handle, disk, link, wire, starts>>

\* Ctrl-C during close(): what is left to do is not done.  Before terminate(), the process
\* goes on unasked; after the process has ended, the directory may be all that is left.
CloseInterrupted ==
    /\ mon \in {"closing", "terminating", "killing"} /\ mon' = "over"
    /\ link' \in {link, FALSE}
    /\ told' = IF mon = "closing" /\ process = "running" /\ told = "none" THEN "cut" ELSE told
    /\ \/ UNCHANGED <<handle, wire>>
       \/ process # "running" /\ handle' = FALSE /\ ~link' /\ Unheard
    /\ UNCHANGED <<process, disk, starts>>

\* The monitor is dropped: the finalizer of TemporaryDirectory removes the directory.
Dropped ==
    /\ mon = "over" /\ mon' = "dropped" /\ files' = {}
    /\ UNCHANGED <<child, password, link, wire, starts>>

-----------------------------------------------------------------------------
(* Baresip *)

BaresipExits ==
    /\ process = "running" /\ process' = "exited"
    /\ UNCHANGED <<mon, told, handle, disk, link, wire, starts>>

\* The rest of a message is sent before another message begins.
BaresipSends ==
    /\ process = "running" /\ link /\ Len(stream) < 3
    /\ IF half # Nothing
       THEN /\ stream' = Append(stream, <<half, "rest">>) /\ half' = Nothing
            /\ UNCHANGED <<emitted, astray>>
       ELSE \E m \in Answers \cup {emitted + 1} :
              /\ m \in Answers => mon = "asking"
              /\ m > 0 => emitted < MaxEvents
              /\ m = Foreign => ~astray
              /\ emitted' = IF m > 0 THEN m ELSE emitted
              /\ astray' = (astray \/ m = Foreign)
              /\ stream' = Append(stream, <<m, "head">>) /\ half' = m
    /\ UNCHANGED <<mon, child, disk, link, partial, kept, given, starts>>

-----------------------------------------------------------------------------
StartStep == WriteConfig \/ Spawn \/ Dial
ReadStep == Receive \/ YieldKept \/ RecvTimesOut \/ ControlClosed
CloseStep == CloseMonitor \/ ProcessReaped \/ WaitTimesOut

MonitorNext ==
    \/ StartMonitor \/ StartStep \/ ReadStep \/ StopMonitor
    \/ CloseStep \/ CloseInterrupted \/ Dropped
    \/ BaresipExits \/ BaresipSends

MonitorSpec == MonitorInit /\ [][MonitorNext]_monVars

(***************************************************************************)
(* The thread that runs the monitor goes on: every wait has a timeout, and *)
(* the command drops the monitor when it ends.  Nothing is asked of the    *)
(* Baresip process.                                                        *)
(***************************************************************************)
MonitorFairness == WF_monVars(StartStep) /\ WF_monVars(ReadStep)
                   /\ WF_monVars(CloseStep) /\ WF_monVars(Dropped)

-----------------------------------------------------------------------------
\* Every variable of the monitor has the shape its declaration says.
MonitorTypeOK ==
    /\ mon \in Working \cup {"idle", "reading", "over", "dropped"}
    /\ process \in {"none", "running", "exited"} /\ told \in {"none", "cut", "term", "kill"}
    /\ handle \in BOOLEAN /\ password \in BOOLEAN /\ link \in BOOLEAN
    /\ files \subseteq {"directory", "config", "accounts"}
    /\ emitted \in Nat /\ starts \in Nat
    /\ kept \in Seq(Nat) /\ given \in Seq(Nat)

\* However start() fails and however often close() is interrupted, a Baresip that still
\* runs when the caller is outside is known to the monitor, so that a second close() goes on
\* with it, and has been sent a signal, unless Ctrl-C came in close() before terminate()
\* (baresip_monitor.py:347-356): that one nobody stops if the monitor is dropped.
NoOrphan ==
    mon \in {"over", "dropped"} /\ process = "running" =>
        handle /\ told \in {"term", "kill", "cut"}

\* What events() yields, and will yield of what _send_command() kept for it, is
\* what Baresip emitted: nothing missing in between, nothing twice, in order, also
\* around the answer to uareg and across a frame that came in two pieces.
EventsInOrder == \A i \in 1..Len(given \o kept) : (given \o kept)[i] = i

\* The comment in _write_config: the file with the SIP password is "short-lived".
\* Whether Baresip starts, hangs, exits or registers, the file is removed.
PasswordLeavesDisk == "accounts" \in files ~> "accounts" \notin files

\* start() and close() end, and events() ends when Baresip has exited, as it says:
\* "until the process exits or the caller stops".
MonitorSettles ==
    mon \in Working \/ (mon = "reading" /\ process = "exited")
        ~> mon \in {"over", "dropped"} \/ (mon = "reading" /\ process = "running")
=============================================================================
