# Verification of pygira

TLA+ models of pygira, a Python client for Gira G1, X1 and TKS-IP devices, with
TLC configurations that check them and TLAPS proofs of the main results. Line
numbers are those of `src/pygira/...` in the repository.

## 1. The system

| Component | State it keeps | Operations | What makes it hard | What makes it correct |
|---|---|---|---|---|
| GDS session (`gds.py`, `GdsClient`) | socket, reader task, list of pending requests, send lock, event queue | connect, close, send request, send only, receive, next_event, listen | asyncio tasks interleave at every await; timeouts, cancellation, lost connections, late and partial responses | every call ends; a response goes to one call it fits; the session leaves nothing open; listeners are told |
| GDS matching (`gds.py`, `_requests_match`) | none | compare a request with an echo | firmware echoes other and fewer fields than were sent | an echo that says anything else does not match |
| TKS-IP web session (`tks_web.py`, `TksWebClient`) | session id, cookie, cached page, a cache file shared by processes | connect, send, poll, login, persist, invalidate | the gateway admits one session; ids expire; two processes share the file; an event is repeated in a new session | no command works in another's form; a stale cache heals |
| TKS-IP web operations (`tks_web.py`) | the page being edited | device info, SIP clients, backup, restore, firmware | several steps, busy cycles | success is reported only for what was saved |
| TKS-IP activation (`config_service.py`) | none | a hook on port 80, then poll until the application runs | deadline against slow start, lost answers, answers that return late | ends in time; gives up only on an application that was not ready one wait before the deadline |
| Baresip monitor (`baresip_monitor.py`) | child process, temporary directory, control socket, kept events | start, command, events, close | any step of start or close may raise or be interrupted; framing across timeouts | no process is forgotten, no password left behind; events keep their order |
| HTTP API (`api.py`, `auth.py`), firmware upgrade | cookie session | send a command, authenticate and repeat, wait for the update | a refused command is sent again, a lost answer is not; the device reboots; `progress` is stale | each command once, in order; "completed" means this update |
| Configuration store (`commands/config.py`, `models.py`) | `devices.toml` | add-device, init | crash in the middle of a write, two writers | no torn file; an update is lost only to an overlap |
| Target resolution (`context.py`, `prompting.py`) | the context of the invocation | options, configuration, prompts | precedence; two devices of one name or address; a target resolved twice | a password goes to the device it belongs to |
| Detection (`core/detect.py`) | none | four probes | partial and contradicting answers | a device is not taken for another |
| Bootstrap and network change (`commands/bootstrap.py`, `operations.py`) | none | three steps, a report | the address changes under way; requests without an answer | the report is true |
| Log following (`commands/maintenance.py`) | how many lines of each file were seen | download, print what is new | rotation, files a download lacks | each line once, in order, none missed |
| TKS-IP diagnostics (`config_service.py`, `commands/maintenance.py`) | none | date, read and judge log lines | lines without a year | failures are counted when they are recent |
| Command line (`cli.py`, `command_support.py`, `commands/`) | the Click context | some 40 commands | the order of question, input, check and call differs in each | nothing is erased without consent; declared families are those that work |
| Configuration service (port 4433), weather, models | none | single queries, validation | | not modelled |

The command line calls the device classes (`devices/`), which call the HTTP
API, the configuration service, a `GdsClient` inside `run_gds`, or a
`TksWebClient`. Components share no memory across processes; the TKS-IP cache
file and the configuration file are what two processes have in common. Inside
one process only `GdsClient` runs tasks concurrently.

The hazards that follow from this, each at its line, are listed in
`PROJECT.json` with the properties about them.

## 2. Modules

| Module | Models |
|---|---|
| `GdsSession` | one `GdsClient`, its callers, closers, listeners, the device and the network |
| `GdsCorrelation` | what a `GdsClient` promises its callers, without saying how |
| `GdsMatching` | `_is_echo_subset` and `_requests_match` on nested JSON values |
| `TksWeb` | commands with a `TksWebClient` each, the cache file they share, the gateway's one session |
| `BaresipMonitor` | a `BaresipMonitor` with its child process, directory and socket |
| `ConfigStore` | `pygira config` commands as processes that share `devices.toml` |
| `ApiScript` | commands of the web service with their fallback, and the wait for an update |
| `TksActivation` | the activation of the gateway's web application |
| `LogTail` | `tail-logs` against a device that writes and rotates |
| `Bootstrap` | `pygira bootstrap`, with `configure_tks` as its three requests |
| `CliCommands` | every command as a sequence of steps, the facades, the declared families |
| `TargetResolution`, `Detection`, `DeviceBlob`, `NetworkSettings`, `TksDiagnostics` | functions without state |
| `Questions` | one question to such a function, and what the answers have to do with it |
| `MCGdsSession`, `MCTksWeb`, `MCCommands`, `MCFunctions` | instances for TLC; `MCCommands` composes modules |
| `ListLemmas` | facts about `RemoveAt`, `RemoveFirst`, `Append`, `Tail` |
| `GdsSessionProofs`, `GdsCorrelationProofs`, `GdsOrderProofs` | theorems about the GDS session: by itself, as an implementation of what it promises, with a device that keeps order |
| `TksWebProofs` | theorems about the gateway's web session |
| `CommandProofs` | theorems about the parts that are commands, and about their composition |
| `QuestionProofs`, `DataProofs` | theorems about the functions without state; those by induction, over the lines of a text or the depth of a JSON value, are in the second |

Operators under a comment "Mistake:" are wrong versions of the definition that
follows them, such as routing to the newest request instead of the oldest. No
specification uses them: for each property one of them is listed under
`mutants` in `PROJECT.json`, and TLC finds the property violated with it.

### GdsSession

asyncio runs one task at a time, so an action is what a task does between two
awaits. An await at which nothing else can run (a lock that is free, a queue
without bound, a task that is done) is not a step of its own.

| State | Code |
|---|---|
| `call[r]` | where a call of `_send_request` stands: queueing for `_send_lock` ("locking"), inside `ws.send()` before and after the frame is on the wire ("sending", "sent"), in `wait_for` ("waiting"), resumed by a deadline or a cancellation but not yet run ("expired"), over ("answered", "failed", "posted") |
| `future[r]`, `pending` | the future and the list `self._pending`; a future that holds a response is the request it answers |
| `lockq` | `_send_lock`: its holder, or the waiter it was handed to, then its waiters |
| `ws`, `gen`, `sock` | `self._ws` by the number of the `connect()` that opened it, and the state of each socket |
| `reader` | `self._reader_task`: created ("start"), in `recv()`, resumed with `self._ws` gone ("orphaned"), ended by an exception it handled ("ended"), dead of its assertion ("crashed") |
| `pc[t]` | where a task stands in `connect()` and `close()` |
| `events`, `getting` | the event queues, one for each `connect()`, and the one a listener awaits |
| `due`, `inbound` | requests the device has not answered, frames not read yet |

| Actions | Code |
|---|---|
| `SendRequest`, `Restart`, `Acquire`, `WriteFrame`, `SendReturns`, `SendFails` | `_send_request` 246-258, `_send_message` 237-244, `restart` and `factory_reset` 407-413 |
| `Expire`, `WaitReturns`, `CancelSend` | `wait_for` and its finally clause 260-268; a cancellation before it |
| `Connect`, `SocketOpened`, `Registered`, `ConnectFails`, `CancelTask` | `connect` 147-171, `_register` 173-186 |
| `Leave`, `ReaderAwaited`, `SocketClosed` with `Close`, `CloseSocket`, `FailPending` | `close` 188-206, from `__aexit__` or another task |
| `ReaderStarts`, `ReaderReceives` (`RouteResponse` or `KeepEvent`), `ReaderStops` | `_reader_loop` 220-235, `_route_response` 208-218 |
| `AwaitEvent`, `NextEvent` | `listen` 429-438, `next_event` 415-427 |
| `DeviceRegisters`, `DeviceAnswers`, `DevicePushes`, `ConnectionLost` | the environment: the device and the `websockets` library, by what this code sees of them |

What `_send_request` sends is abstracted to the echoes the device may give
(`EchoOf`) and those `_requests_match` accepts (`Matches`). `MCGdsSession`
computes `Matches` with `GdsMatching` from real payloads, the two GetValue
requests of `get_tks_status`. One task connects; that two tasks may call
`connect()` at once is a listed hazard outside the model. `DevicePushes` needs
a registered connection (README.md: the X1 "sends live value change events
after registration").

### GdsMatching

A JSON value is a scalar, which stands for all that the code compares with `==`
(lists too), or an object: a function from field names to values or `Absent`.
`Json[depth]` is the set of values in which objects are nested `depth` deep at
most. `_is_echo_subset` calls itself on what is nested; `EchoSubset[depth]` is its
answer for all values of that depth, given in terms of `EchoSubset[depth - 1]`, so
the recursion is a function of the depth, about which can be proved. The reference
definition, `MatchesByPaths`, does not go down the two values side by side. It takes
each apart into its `Nodes`, the paths in it and what stands there: what the echo
says at a path below a field of the request, the request says too; an `id` in the
echo stands for the `urn` of a request that has no id. `AgreesWithPaths` says that
the two are the same.

### TksWeb

A command of the TKS-IP device class is a process: `_web()` makes a client,
logs in, and the command navigates, edits or uploads. An action is one HTTP
exchange, one use of the cache file or one step of the gateway, so commands of
different processes interleave at every request. Three shapes stand for the
commands: a reader opens a page and reads it (`info`, `network`, ...), an editor
is `create_sip_client`, an updater is `firmware_update`. `backup_restore` has
the shape of an updater. `delete_sip_client` has that of an editor, with the
selection of an entry in place of the fields.

| State | Code |
|---|---|
| `client[p].pc` | the request or wait at which the command stands |
| `client[p].sid`, `.restored` | `self._sid` (0 for `None`) and `self._restored_session` |
| `client[p].again` | the `_reconnected` argument of `_send` and `poll`, true while a request is repeated |
| `client[p].page` | the page from which the command's widget ids were read, "none" after the session was invalidated |
| `client[p].tries` | the iteration of the loop in `_web()` |
| `client[p].busy` | `was_busy` in `_wait_for_sip_save` |
| `cache` | the session in the cache file of `_persist_session`, 0 for no file |
| `gw` | the gateway: its live session, the page shown, what has been entered by whom, the fragments queued for the next polls, a save under way |
| `saved`, `applied` | what the gateway did, for the properties |

| Actions | Code |
|---|---|
| `Start` with `Construct` | `TksWebClient.__init__` 797-826, from `_web` of `devices/tks_ip.py` 67-81 |
| `OpenSession` | `_connect` 850-884 |
| `Refused` with `Recovers`, `Invalidate`, `Raise` | the answers of an ended session in `_send` 886-918, `reload` 920-938, `poll` 963-996; `_invalidate_session` 828-836; the repetition of a login in `_web` 67-85 |
| `Reload`, `EnterUser`, `EnterPassword`, `Persist` | `login` 1014-1049, `_persist_session` 838-848 |
| `ClickOverview`, `OpenPage` | `_navigate_page` 1051-1077 |
| `Fill`, `ClickSave`, `PollSave` | `create_sip_client` 1175-1267, `_wait_for_sip_save` 1145-1173 |
| `Upload`, `ClickApply` | `firmware_update` 1330-1338 |
| `PollPage`, `PollNothing`, `Deadline` | `_wait_for_page` 940-961 over `poll` 963-996 |
| `TransportFails`, `Interrupt` | `_http.py` 144-169; the command is interrupted |
| `Expire`, `FinishSaving`, `BrowserOpens` | the environment |

The gateway is external. What the model assumes of it is what the client code
relies on: it admits one session (the page of a gateway in use has no session
id, 856-880); a session that ended answers 404, `invalidSiteID` or
`sessionClosed`; widget ids are random in each session (README.md:330), so an
event acts only on the page its id was read from; the fragments of a page
arrive in later polls and a new page supersedes those queued before; the phone
assistant, once loaded, reports that it is idle. Two clients on one session
take each other's fragments. The pages of the model all have a menu or an
overview button.

### BaresipMonitor

One thread runs `start()`, `events()` and `close()`; the Baresip process is
concurrent with it. Ctrl-C may come at each step, also of `close()`, and more than
once; each wait may time out. A `close()` that was interrupted has left behind what
it had not come to: the socket, the process, or the directory only, for the process
may have ended by then. A caller with a socket left does not read on, but closes.

| State | Code |
|---|---|
| `mon` | where the thread stands; "over" is outside with the object alive, "dropped" without it |
| `process`, `told`, `handle` | the child, the last signal sent to it ("cut" if Ctrl-C came in `close()` before the first one), `self._process` |
| `files`, `password` | the directory of `TemporaryDirectory` with the two files of `_write_config`; `self._password` |
| `link`, `stream`, `half`, `partial` | the control socket: parts of netstrings not received yet, the message of which only the first part was sent, the one of which only the first part was received |
| `kept`, `given` | `self._pending_events`; what `events()` has yielded |

| Actions | Code |
|---|---|
| `StartMonitor`, `WriteConfig`, `Spawn`, `Dial` | `start` 288-319, `_write_config` 186-213, `_connect` 224-250 |
| `Receive`, `YieldKept`, `RecvTimesOut`, `ControlClosed` | `_read_netstring` 110-142, `_send_command` 267-286, `events` 321-345 |
| `StopMonitor`, `CloseMonitor`, `ProcessReaped`, `WaitTimesOut`, `CloseInterrupted`, `Dropped` | `close` 347-366 and what interrupts it; the finalizer of the directory |
| `BaresipExits`, `BaresipSends` | external: events, answers, answers to other tokens, in one piece or two |

A message in two parts is as fine as the properties need: `recv()` loses what
it holds when the next one times out, wherever the cut is.

### ConfigStore

| State | Code |
|---|---|
| `store` | the file: absent, in the legacy format with apartments, in the current one, invalid, or torn, and its devices |
| `cmd[e]`, `copy[e]`, `temp[e]` | a command, the configuration in its memory, its temporary file |
| `missed[e]`, `recorded` | history, for `LostOnlyToOverlap` |

`LoadConfig` is `add_device` 232-260 with `load_config` and the normalisation of
apartments (`models.py` 123-171), `InitConfig` is `init`; `MakeTemporary`,
`Sync`, `Replace`, `WriteFails`, `Killed` are the steps of `_write_config`
97-114 and the ways it ends.

### ApiScript

A script is the sequence of commands one CLI command sends: `start`, `enable`
for `ssh enable`, `upload`, `initlocalupload` for a firmware file. `Executed`,
`RefusedBasic`, `SaltGiven`, `Authenticated` and `ExchangeFails` are the exchange
of `_post_with_session_fallback` and `authenticated_request`; `SeenState`,
`PollFails` and `WaitEnds` are `wait_for_completion`. The device is external:
which credentials it accepts, when it reboots, what `progress` tells. An answer
may be lost after a command took effect.

### TksActivation

| State | Code |
|---|---|
| `act` | where `activate_tks_webinterface` stands: in the hook ("idle", "hooked"), in a poll ("polling", "answered"), between two ("sleeping"), or its end |
| `clock` | `time.monotonic() - started` |
| `lastState`, `lastError`, `reply` | `last_state`, whether `last_error` is set; what became of the last poll |
| `app`, `readyAt` | external: the application, and since when it runs |

| Actions | Code |
|---|---|
| `SendHook`, `HookReturns`, `HookLost` | `_start_tks_webinterface` 479-492 |
| `AnswerPoll`, `PollReturns` | `_poll_tks_state` 519-538; the loop 505-515 |
| `SleepOn` | the pause, cut at the deadline (516) |
| `AppStarts`, `AppStops` | external: the application starts, fails, and stops by itself |

A request is two steps: the gateway answers it, and later it returns. Meanwhile the
application may become ready, and the deadline may pass; then no other poll follows.
Each of the two takes at most the timeout of the request: `HookSlow` is that of the
hook, min(timeout, 15), and `Slow` that of a poll, min(poll_interval, 5). An answer
that is no HTTP raises what is no `HTTPError` and ends the activation ("escaped").

### LogTail

`Poll` is one download with everything `_print_new_lines` does with it; files a
download lacks are chosen freely (`unreadable`). `seen` is the dictionary of the
code. What was printed and what was on the device at each reading are history
variables, told without that dictionary. `WriteLine`, `Rotate` and `CreateFile`
are the device's.

### Bootstrap

The three steps in their order, each skipped, unsupported, failed or carried
out, and the report. The TKS step is `configure_tks` (`gds.py` 461-482):
`SetCredentials`, then `Trigger` with 0 and 1, whose answers are not examined.
A request may take effect without an answer. After a change of address (`away`)
no request arrives. Only a `PygiraError` makes a step fail (137, 169, 214).
`AnswerEscapes` is the rest: an answer over HTTP that is no HTTP, no JSON
(`_http.py` 55) or not of the expected shape (`"data": null`, 135) ends the command
without a report, in the first step or in the weather lookup of the last. The TKS
step talks to `GdsClient` only, which wraps what it meets in `TransportError` or
`ProtocolError` (`gds.py` 165, 232, 242).

### CliCommands

A command is a sequence of steps (`Ask`, `Input`, `Detect` or `TksLogin`, `Need`,
`Call`, `Wait`, `Save`) read off its function in `commands/`. `Listed` is the set
of all programs, each a path and its steps (`Runs`); `Facade` is the set of
operations each device class has (`devices/`); `PathSupport` is the table of
`command_support.py` 94, and `Declared` looks a path up in it: the nearest entry
that covers it counts. One action for each kind of step carries it out or ends
the command.

### Functions without state

| Module | Functions | Compared with |
|---|---|---|
| `TargetResolution` | `resolve_login`, `resolve_tks_login`, `resolve_tks_ip`, `find_tks_aes_key`, the selections and prompts below them, and `tail-logs`' two resolutions, as sets of outcomes | statements about whose password goes where |
| `Detection` | `detect_device_type` and its four probes | what the answers mention |
| `DeviceBlob` | `_parse_device_sections`, a stack machine | nesting by the nearest shallower line |
| `NetworkSettings` | `merge_network_config`, `set_ip_config` | the fields that were asked for |
| `GdsMatching` | `_is_echo_subset`, `_requests_match` | the paths of both values |
| `TksDiagnostics` | `_syslog_time`, the signals, the window of recent failures, the summary | the same with true times |

`Questions` puts them into one specification whose behaviours are questions, built
up in a few steps: a configuration and then a command line, a text line by line.
Its constants are the devices, command lines, addresses, requests and echoes there
may be; `MCFunctions` gives small ones.
`MCCommands` puts together the parts that share no memory: pygira runs one
command per process, `active` says which, and the variables of the others do
not move. No part interacts with another there; the composition lets one run check them
all, and that it is each part (`EveryPartIsItself`) is proved.

## 3. Runs

Every run has `CHECK_DEADLOCK FALSE`, because commands end, a session ends, and
a question is answered: nothing need come after.

| Run | Instance | Checks |
|---|---|---|
| `GdsCallers` | two identical requests and a restart; both may time out, one request and the restart may be cancelled; a second task that calls `close()`; a lost connection; one connect | `TypeOK`, `NobodyForgotten`, `OneSender`, `AlwaysClosed`, `ImplementsCorrelation` |
| `GdsReconnect` | two requests, two connects, lost connections, timeouts | `AlwaysClosed`, `NoPendingWithoutReader`, `ResponsesReachCallers` |
| `GdsOwnResponse` | three requests, two of them identical, answers in order with any echo; pushes, a lost connection, an owner that may be cancelled | `OwnResponse` |
| `GdsEnds` | a request, a restart that may be cancelled, a listener, two connects, a push or a malformed message, a lost connection | `CallsEnd`, `ListenersReleased` (liveness) |
| `WebEditor` | an editor beside an updater; all faults | `TypeOK`, `NoPoisonedForm`, `SavedAsReported` |
| `WebReaders` | two readers, run any number of times; all faults but the browser | `CacheIsLoggedIn`, `CommandsEnd` (liveness) |
| `Commands` | each part of `MCCommands`, from all its initial states | monitor: `NoOrphan`, `EventsInOrder`, `PasswordLeavesDisk`; store: `WritesAreAtomic`, `LostOnlyToOverlap`; scripts: `EffectsFollowScript`; activation: `DeadlineIsKept`; logs: `ShownOnceInOrder`, `NothingMissed`; bootstrap: `ReportIsTrue`, `ConnectsWithNewCredentials`; command line: `SupportedAsDeclared`, `UntouchedUnlessAgreed`; web commands one after the other: `StaleCacheHeals`; all: `CommandsTypeOK`, `EveryCommandEnds` |
| `Functions` | each function over bounded inputs | `AgreesWithPaths`, `PasswordsStayHome`, `NoGatewayIsGuessed`, `LogsOfTheChosenDevice`, `DetectionOfOneMind`, `BlobSections`, `OnlyAskedSettingsChange`, `GatewaySummary` |
| `GdsCancelledSender` | expects a violation of `ResponsesReachCallers` | finding 1 |
| `GdsCancelledConnect` | expects a violation of `AlwaysClosed` | finding 2 |
| `GdsTwoListeners` | expects a violation of `ListenersReleased` | finding 3 |
| `WebUpdate` | expects a violation of `UpdateIsTriggered` | finding 4 |

**Bounds of the GDS and web runs.** The faults of this code need two calls that
compete for one response or for the lock, and a third caller to have a queue
with a middle; two connects let state of one session reach the next; a second
disturbance adds only another occurrence of the first. `MaxConnects` bounds
`connect()`, `MaxNoise` the pushes and malformed messages, and each request is
made once. The web commands share one session and one file, so two of them
already meet every state of the other; readers start again without limit, which
leaves behind every state of the file and of the gateway that a command can
find. `MaxSids` bounds the session ids that are remembered at once by the file,
the gateway and the clients, and is large enough that a fresh one always exists:
with it the session ids are reused and the state space is finite. `Attempts` is
the constant 2 of `_web()`.

**Bounds of Commands.** `MaxEvents` 2 and at most three parts in the socket: two
events are out of order, or one is missing between two. `MaxStarts` 2: a second
`start()` meets what the first one left. Four configuration commands (two
`add-device`, an `init --force`, an `init`) on a file in any of its states: two
overlap and a third comes before or after. Six scripts are those of the CLI.
`Timeout` 5, `Interval` 2, `Slow` 1, `HookSlow` 3: the last pause is cut, polls are
answered and return on, before and after the deadline, and the hook alone may last
longer than it. Two log files and three lines: a file is rotated
after two lines and gets a third, or each file has some; `-n` is 0 or 1. Every
family and every command of the command line.

**Bounds of Functions.** Seven devices of which any may be configured: names and
addresses used twice, a device without the password its family needs, two
locations of one name. Texts of four lines with up to two tabs: a line returns
over one or two levels, or skips one. Logs of three lines, in a year of six
steps with a day of two and a window of one, read at any time of the second
year, up to the day ahead of that time: New Year lies anywhere in them, also between
the clock and a line that was written after it was read. Requests and echoes with an object in an
object, over two datapoints: any field may be missing, differ, be of the other kind
or be one the request does not have, at both depths. All combinations of what four probes meet.

**Fairness.** `LoopFairness` is weak fairness of what the event loop runs when it
is ready: the steps of a call, of `close()`, of the reader and of a listener.
`ws.send()` and `ws.close()` end because the library's keepalive and close
timeout break a stalled connection. `Deadlines` says that `wait_for` fires.
Nobody is forced to connect, to leave, to cancel or to lose a connection.
`FairSpec` of `TksWeb` says that a command goes on by itself, because each
request has the client's timeout, that the deadline of a wait passes, that a
gateway which saves comes to an end, and that it closes a session nobody uses
("wait up to one minute", 875). No command is forced to start.
`MonitorFairness`: the thread goes on, as `recv()`, the connection and the two
waits of `close()` have timeouts; nothing is asked of Baresip, which may hang,
ignore SIGTERM or exit. `ApiFairness` and `ActFairness`: each request has a
timeout, time passes in a pause. `BootFairness`: bootstrap does its next step.
`Fairness` of `MCCommands` is these conditions, put together: only one part is
active, so the disjunction of two parts' actions is fair exactly if the active
part's is. `tail-logs` follows for ever and has no liveness.

**Findings.** The four violations are disagreements of the code with what it says:

1. `_send_request` removes its entry only under `except Exception` (255). A
   cancelled caller leaves it in the list, where it takes the response of the
   next identical request.
2. `connect()` cleans up only under `except Exception` (165). Cancelled while it
   registers, it leaves the socket open, and `__aexit__` does not run.
3. `close()` puts one `None` (200); of two listeners one waits for ever.
4. `_send` repeats an event in a fresh session when the gateway closed the old
   one (`tks_web.py` 917). The last click of `firmware_update` is then repeated
   at the login page under an id of the old session, does nothing, and the
   update is reported as started (1331: "trigger applying it").

## 4. Proofs

TLAPS proves the following for every value of the constants, from the
assumptions the modules name. Except where a composition is named, a theorem is
about the specification of the part itself (`StoreSpec`, `TailSpec`, ...).
Four theorems about the GDS session and two about the web session have a hypothesis
on the constants. All but `StaleCacheIsNoError`, which is about the case without faults,
would be false without it: TLC finds a counterexample when a part of it is dropped (for
`EchoOf` within `Matches` none is needed: a response that does not fit its own request can
only go to another). Each hypothesis is named, is satisfied by a run that checks the part,
and is explained below.

**A GDS session**, for every set of callers, closers, listeners and echoes, every
echoing habit of the device and every bound:

- `TypeCorrect`: `Spec => []TypeOK`, one lemma for each group of actions.
- `NobodyIsForgotten`: `Spec => []NobodyForgotten`. It is inductive given
  `TypeOK`: every removal of an entry ends its call or resolves its future.
- `NothingPendsWithoutReader`: `Spec => []NoPendingWithoutReader`.
- `OnlyOneSender`: `Spec => []OneSender`. Not inductive: if the lock's queue
  held somebody twice or forgot a waiter, a sender could be overtaken. `LockInv`
  adds that the queue has no duplicates and holds exactly those between
  `async with` and its end.
- `EverythingClosed`: `OwnersOnly` implies `Spec => []AlwaysClosed`. `OpenInv`
  says that an open socket is the one `self._ws` names and that the owner is on
  its way to close it. `OwnersOnly` leaves out the two ways to lose a socket:
  a `connect()` that is cancelled (finding 2), and a second task whose slow
  `close()` clears the `self._ws` of a later `connect()` (`gds.py` 199, a listed
  hazard). A second task that closes is allowed as long as there is one
  `connect()`, as in `GdsCallers`; several connects without it are in
  `GdsReconnect`.
- `ReleaseIsQueued`: `OneListener` implies that the end of a session that is closed is
  in the queue its listener waits for. Whoever clears `self._ws`, or fails to set it,
  puts "closed" into the queue of the newest `connect()`, and only a listener takes it
  out, who then ends (`ReleaseInv`); so this also holds for the queues that a
  reconnection replaced, and with other tasks that close. With two listeners it is
  false (finding 3), as it is for a `connect()` cancelled while it dials, which leaves
  its new queue without an end.
- `CallsGoOn`: each step of a call leads on, six of them end it, and a call that has
  not ended has one to take, unless it waits for its response or for the lock, and then
  the call that holds the lock has one (`NoCallIsStuck`, from `LockInv`).
- `EntriesAreTheCallers`: the pending list holds each call at most once, only calls
  that began, and, while no caller is cancelled, none that has ended.
  `NoResponseIsWasted` follows: `CallersStay` implies
  `Spec => ResponsesReachCallers`, an action property. Without `CallersStay` it is
  false (finding 1).
- `Implements`: `Spec => ImplementsCorrelation`, the refinement. `ResponseInv`
  follows a response from the device's list to the socket to a future: it is at
  one place at a time, was asked for, and its echo fits the future's owner.
  Three lemmas treat the steps that move a response, `QuietStep` all others;
  `MapStep` then maps each step to Ask, Answer, Fail or a stutter.
- `EveryoneGetsTheirOwn`: `Orderly` implies `Spec => []OwnResponse`. `Orderly` says
  that the device answers in order, that each echo fits its own request, that no
  caller gives up while its request is out and that there is one `connect()`. It
  is what `_route_response` needs to take the oldest entry that fits: the
  protocol has no request numbers, so after a timeout the late response goes to the
  next identical request, and nothing in the client can tell. With a second
  `connect()` a call that still queues for the lock, and was given the response of
  a failed one, sends in the new session and reports the old response. `SessionInv`
  is the inductive invariant. `OrderInv` compares `self._pending` with what the
  device has to answer and has answered: calls whose request is out come before
  those that still queue (`InTurn`), the response to each is under way and only
  those to older calls are before it (`InFront`), and while the socket is open
  nothing else is under way (`Accounted`). Callers join the list in the order of
  the lock's queue (`LockOrder`), and send on the one socket (`SendOnInv`); a future
  holds its own response or a failure, except of calls that have not sent
  (`HolderInv`); and nothing is under way before the session is registered
  (`LifeInv`, `QuietInv`).

**The gateway's web session**, with any sets of readers, editors and updaters, any
subset of the faults and any bound:

- `TypeCorrect`: `Spec => []TypeOK`.
- `NoFormIsPoisoned`: `Spec => []NoPoisonedForm`, and `OnlyLoggedInIsCached`:
  `Spec => []CacheIsLoggedIn`. Neither is inductive: a session in the cache is
  harmless only because nobody who stores one is filling in a form, and nobody
  who is filling in a form shares his session. `IInv` says so: an editor's
  session has no other client and is in no cache (`EditorIsAlone`), a session
  with entries is in no cache (`FormIsPrivate`), before the login is over it has
  one client (`LoginIsPrivate`), the login page has queued no fragment that
  could end a wait early (`LoginIsQuiet`), behind it only editors enter anything
  (`OnlyEditorsFill`), and a command's idea of the page fits its step
  (`PagesFit`). `CalmStep` treats the steps that leave sessions and entries
  alone, a lemma each those that enter, open or store something.
- `WhatIsReportedIsSaved`: `Spec => []SavedAsReported`. An editor reports success
  after a fragment that says "idle" and follows one that says "busy". `AllCareful`
  ties what the editor has seen and what is still queued for him to what the
  gateway did: what the form holds is exactly what his step says he entered
  (`Filled`), "busy" is queued only after his click, so the "idle" with which the
  page appeared ends no wait, and the one that does (`Finished`) was queued when the
  gateway had saved his form. Given `IInv`, nobody else disturbs his session.
- `ReportedUpdatesAreTriggered`: `Undisturbed` implies `Spec => []UpdateIsTriggered`.
  `Undisturbed` says that one command works at a time and that the gateway closes no
  session somebody uses; answers may be lost, waits too short, commands interrupted
  and a browser in the way. This is the other side of finding 4, whose run drops the
  second condition; with the first one dropped, an update and a reader that share a
  cached session refute it without any fault. `AllSole` is the invariant: behind its first step a
  command is admitted, and where it uses a widget id, the session shows the page the
  id was read from (`CommandsAlone`).
- `CommandsGoForward`, with no hypothesis: a step that changes where a command stands
  ends it, lowers its `Rank`, or goes on with a wait. `Rank` counts the logins, the
  steps and the repetitions that are left, 115 at most. So neither a session that is
  closed again and again (`poll` reconnects, 984) nor lost answers make a command
  begin anew more often than the code allows: once per login (`_web`, 67-85), and once
  per request.
- `StaleCacheIsNoError`: `Faultless` (one command at a time, no faults) implies that a
  reader in the state where `StaleCacheHeals` begins is `OnItsWay`, and that every step
  keeps it there or reports success. `OnItsWay` says that it has a session or can
  open one, with the repetition still to come if the one it has is stale, and that the
  page it waits for is among the fragments queued.

**The SIP monitor**, for any number of starts and events:

- `NobodyIsOrphaned`: `MonitorSpec => []NoOrphan`. `ChildInv` adds that a process
  that runs is known to the object, and that a wait for it follows a signal. The
  process need not have been sent one if Ctrl-C came in `close()` before
  `terminate()`: `told` is "cut" then.
- `PasswordIsShortLived`: `MonitorSpec => []PasswordIsGuarded`. The file with the
  password exists only where a step of `start()` or `close()`, or the end of the
  monitor, still comes to remove it, and never without the password in memory, so it
  is not written again once that was erased.
- `EventsComeInOrder`: `MonitorSpec => []EventsInOrder`. What was told, the
  message being read and the parts under way are one list in which the events
  count up without a gap (`Counted`) and heads and rests alternate (`Paired`); a
  head that was read is followed by its rest (`GoesOn`). A timeout in the middle
  breaks that (`Lost`), and then the next part ends the reading.

**devices.toml**, for any commands and devices:

- `FileIsNeverTorn`: `StoreSpec => []WritesAreAtomic`, inductive with the types
  (`StoreTypeCorrect`).
- `NothingElseIsLost`: `StoreSpec => []LostOnlyToOverlap`. A rename loses nothing
  unaccounted for only if what the file holds by then is in the command's copy
  or came into the file after it was read (`Followed`).

**Scripts, activation, bootstrap**:

- `EffectsAreTheScript`: `ApiSpec => []EffectsFollowScript`, for any scripts;
  `ApiInv` knows how far the device is in each phase, and that a wait begins only
  when a job of this script has replaced what `progress` told before.
- `DeadlineHolds`: `ActSpec => []DeadlineIsKept`, for any timeout, interval and
  duration of a request; `ActInv` adds that a poll begins no later than the
  deadline, or than the hook ended, and that an application which the last answer
  found starting was not ready before that answer, which is given no earlier than
  one wait before the poll returns.
- `BootReportIsTrue`: `BootSpec => []ReportIsTrue`, and `NewCredentialsFirst`:
  `BootSpec => []ConnectsWithNewCredentials`, for any families; `BootInv` says of
  each step that is over (`Passed`) what the report will, and that the trigger is
  pulsed only when the credentials are on the device.

**tail-logs**, for any files, contents, rotations and `-n`:

- `PrintedOnceInOrder`: `TailSpec => []ShownOnceInOrder`. A line beyond the number
  seen of its file is younger than all printed of it (`NewIsYounger`).
- `NoLineIsMissed`: `TailSpec => []NothingMissed`. The number remembered is the
  length the file had when it was last read, and a file that was not rotated
  since is at least as long (`Counted`).

**The command line**, for every command of the program and every device family:

- `NothingIsErasedUnasked`: `CliSpec => []UntouchedUnlessAgreed`. It rests on a
  fact about each program (`EveryProgramIsSound`, one step for each group of
  commands): a call that erases comes after its question, the family is found
  before anything depends on it and only once, a file is saved only after what it
  holds was fetched. `CliInv` carries it along a run: the operations called are
  those of the steps that were reached, and the steps behind are done with.
- `DeclaredIsSupported`: `CliSpec => []SupportedAsDeclared`. Here the fact about
  the programs is `EveryProgramFits`: for a declared family no step is missing from
  the facade, and for any other a step turns the command back before the device is
  changed. `firmware upgrade --online` on a TKS-IP is the exception the property
  names (`Excepted`). `FamilyInv` says that the steps taken did not block and where
  a command that was turned back stands.
- `EveryCommandLeadsOn`: in `CommandsSpec`, a measure of what is left falls whenever a
  script, the activation, bootstrap or the monitor moves on: `ApiLeft`, at most five
  exchanges for a command of a script; `ActLeft`, which counts the time to the deadline,
  since a sleep is never empty; `BootOrder`; `MonOrder`, up to the next call of `start()`.
  Bootstrap ends without a report only for options that are no addresses, or for a
  garbled answer in its first or last step.
- `EveryPartIsItself`: `CommandsSpec` implements the specification of each part, and
  `CommandTypes`: `CommandsSpec => []CommandsTypeOK`. So all
  that is proved of a part holds of the composition that the run checks. (The
  parts' fairness is not claimed; `BootSteppingSpec` is `BootSpec` without it.)

**Functions without state**, as invariants of `QuestionSpec`, for any devices,
command lines and addresses. `QuestionAssumption` says what they may be: there are
finitely many devices and locations, a device has a family and an address and its
location is one the file has (`models.py` 52-57, 124), and what is typed at a prompt
for an address is not empty (`prompting.py` 28).

- `PasswordsStay`: `PasswordsStayHome`; `NoGuessing`: `NoGatewayIsGuessed`;
  `LogsStayWithDevice`: `LogsOfTheChosenDevice`. One lemma for each way a
  resolution chooses a device (a name, a location, an address, a prompt) says what
  the device it returns has to do with what was asked; each theorem then goes
  through the cases of its command. A device that is taken because it is the only
  one of some set is so by cardinality, not by a choice.
- `DetectionAgrees`: `DetectionOfOneMind`, for all combinations of answers;
  `OthersStay`: `OnlyAskedSettingsChange`, for any snapshot and change.
- `MatchingIsByPaths`: `RequestsMatch` is `MatchesByPaths`, for any fields, scalars and
  depth of nesting; `MatchingAgrees` is the same as an invariant (`AgreesWithPaths`).
  What is nested in each other is built layer by layer, the values, the comparison and
  the paths alike (`Layered`), so one existence proof serves the three
  (`LayersExist`). By induction on the depth, an echo is part of a request exactly if
  its nodes are nodes of the request (`EchoIsPartOf`); it needs that a value tells by
  its nodes whether it is a scalar (`RootsDiffer`) and that the nodes of a value do
  not depend on the depth at which it is looked at (`NodesStay`).
- Two consequences for a session. `OwnEchoMatches`: whatever part of its request a
  device repeats, the request accepts it. So `EchoOf` lies within `Matches`, as `Orderly`
  wants it, for every device that repeats what it was sent. `EchoTellsApart`: two requests
  that accept one response agree on every scalar it repeats and both have. A response
  is ambiguous only for what the device left out.
- `SectionsAreNested`: `_parse_device_sections` finds the nesting that the
  indentation of any text spells; `PagesAreParsed` is the same of the texts of
  `QuestionSpec` (`BlobSections`). The theorem is by induction over the number of
  lines. `Stacked` says what the stack holds then: each entry is a line, older and
  shallower ones below, and a line whose entry was popped is covered by a later one
  that is not deeper, so it is nobody's parent any more.
- `YearIsGuessed`: `_syslog_time` finds the year of every line that is less than a
  year minus a day old, or up to a day ahead of the clock, for any length of the two.
  New Year may lie anywhere but between the clock and a line ahead of it (`DatedBack`):
  such a line is dated a year back.
- `AttentionIsDue`: any log whose last keepalive failed calls for attention, and one
  that can be dated (`Datable`) does so exactly when it is due; `GatewayIsSummedUp` is the same for the logs of
  `QuestionSpec` (`GatewaySummary`). By induction over the lines, the fold has
  `Recorded` the latest line of each kind and every failure with its time.

These inductions are over the length of a text or the depth of a value. The library's induction theorems
take an operator, which the provers here cannot instantiate; `SetInduction` states
the principle for a set instead and is proved from the well-foundedness of the
natural numbers.

**Only model-checked.** Liveness, since TLAPS does not handle fairness. What each of
these properties needs of the code beside fairness is proved: that there is a step to
take, or what is waited for is on its way, and that steps lead to the end.

| Checked by TLC | Proved |
|---|---|
| `CallsEnd` | `CallsGoOn`, `NobodyIsForgotten` |
| `ListenersReleased` | `ReleaseIsQueued` |
| `CommandsEnd` | `CommandsGoForward` |
| `StaleCacheHeals` | `StaleCacheIsNoError` |
| `PasswordLeavesDisk` | `PasswordIsShortLived`, `EveryCommandLeadsOn` |
| `EveryCommandEnds` | `EveryCommandLeadsOn` |

Every invariant and action property of a passing run is proved.

## 5. Not modelled

- The configuration service on port 4433 and the weather lookup: single requests
  without state or order. HTML and XML parsing by lxml, TLS, tables and colours,
  payload models: no ordering or state to check.
- Of the TKS-IP web operations `backup_save`, which downloads a file after the
  first poll that succeeds, and what the pages say. `delete_sip_client` and
  `backup_restore` have the shape of modelled commands.
- `get_tks_status` of `gds.py` and the GDS commands that are one request each.
- Environment variables, which count as options; the deprecated command aliases.
- The first `GetProcessView` that `listen()` sends: the listeners of `GdsSession` wait
  for events only. The AES key that `logs pull` asks for on a TKS-IP. The failure of
  `activate_tks_webinterface` within `_web()`, which ends the command before a session
  is opened.

Behaviour that was met while modelling and that no property is about, because
nothing in the repository says otherwise:

- `network set --static-ip` on a device with DHCP, without `--no-dhcp`, merges the
  address but does not send it (`operations.py` 38, `api.py` `set_ip_config`).
- Lines that a rotated file gets before its old length is reached again are not
  printed (`commands/maintenance.py` 834); `NothingMissed` names them.
- The port of the control socket is released before Baresip binds it
  (`baresip_monitor.py` 87), and `_send_command` has no deadline over several
  messages (276).
- In bootstrap, TKS flags given in part count as not given
  (`commands/bootstrap.py` 152). Settings that are no addresses end it with a
  ValidationError instead of a report (137), and so does an answer over HTTP that is
  not JSON, has `"data": null`, or makes `http.client` raise (`BootEnds` names them).
- Ctrl-C in `BaresipMonitor.close()` before `terminate()` (`baresip_monitor.py`
  347-356) leaves Baresip running, and nobody stops it unless `close()` is called
  again (`NoOrphan` names the case).
- A poll of the activation that is answered before the deadline and returns after it is
  the last one: an application that became ready meanwhile is reported as not started
  (`config_service.py` 505-516).
- The clock of a gateway is read before its log is downloaded (`config_service.py`
  349, 363). If it is New Year between the two, the lines of the new year are dated a
  year back, and a failure among them may drop out of the window.
- With a wrong AES key a gateway's log decrypts to text without signals, and the
  summary is "operational" (`config_service.py` 443). 29 February cannot be parsed
  with a year that has none: such a line has no time (214).
- A device whose texts mention both families is a G1 (`core/detect.py` 42); a JSON
  service that tells only a firmware version ends the detection as unknown (88).
- A device of any family may be configured with an admin password only
  (`models.py` 62), which only an X1 logs in with; a legacy gateway without a
  password is dropped at the next save (154).
- A device outside of locations wins over devices of its name in locations
  (`context.py` 79); of two labels equal up to case a prompt takes the last
  (`prompting.py` 44).
- Two tasks in `connect()` at once lose a socket (`gds.py` 149); the event queue
  has no bound (229).
- A call that queues for the send lock is in the list of pending calls already
  (`gds.py` 251): it can be given the response of an older, identical call, or be
  failed by `close()`, and sends its request all the same when it gets the lock,
  even in the next session (`OwnResponse` is false with two connects).
- A cached session at a page with neither menu nor overview button fails every
  login (`tks_web.py` 1028); `backup_save` may take an older image (1314).
- `firmware upgrade --online` is declared for TKS-IP and refused there;
  `SupportedAsDeclared` names it. `firmware upgrade --file` asks no question.

What remains to be done: `OwnResponse` with timeouts, which needs a device that answers each
request before the next call's deadline; `backup_save`; two tasks that connect at
once, should the code promise anything about them.
