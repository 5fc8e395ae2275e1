----------------------------- MODULE GdsSession -----------------------------
(***************************************************************************)
(* One GdsClient (src/pygira/gds.py): a WebSocket session shared by        *)
(* concurrent callers.  Each element of Requests is one call of            *)
(* _send_request (of _send_message alone when it is in OneWay: restart and *)
(* factory_reset).  Owner runs "async with client" blocks, a Closer calls  *)
(* close() once from another task, a Listener iterates over listen().      *)
(*                                                                         *)
(* asyncio runs one task at a time, so an action is what a task does       *)
(* between two awaits.  The websockets library and the device are the      *)
(* environment: they are modelled by what this code sees of them.          *)
(*                                                                         *)
(* An operator under "Mistake:" is a wrong version of the definition that  *)
(* follows it; no specification uses it.  Each shows which property would  *)
(* notice the mistake.                                                     *)
(***************************************************************************)
EXTENDS Integers, SequencesExt

CONSTANTS
    Requests,     \* the calls that will be made, each at most once
    OneWay,       \* those that go through _send_message alone
    Owner,        \* the task that enters and leaves the context manager
    Closers,      \* other tasks that hold the client and call close()
    Listeners,    \* tasks iterating over listen()
    Echoes,       \* what a response may echo of its request
    EchoOf,       \* EchoOf[r]: the echoes the device may send when it answers r
    Matches,      \* Matches[r]: the echoes _requests_match accepts for r
    InOrder,      \* does the device answer in the order it was asked?
    Disturbances, \* which of "push", "malformed" and "lost" may happen
    Impatient,    \* the requests whose timeout may fire
    Cancellable,  \* the requests and tasks that may be cancelled
    MaxConnects,  \* bound on the calls of connect()
    MaxNoise      \* bound on pushes and malformed messages, over the whole run

Tasks == {Owner} \cup Closers
Gen == 0..MaxConnects
Outcome == {"open", "failed", "cancelled"}   \* of a future that holds no response

ASSUME RequestsAssumption == /\ OneWay \subseteq Requests
                             /\ Requests \cap Outcome = {}
ASSUME EchoAssumption == /\ EchoOf \in [Requests -> SUBSET Echoes]
                         /\ Matches \in [Requests -> SUBSET Echoes]
ASSUME BoundAssumption == MaxConnects \in Nat /\ MaxNoise \in Nat

Message == [type : {"response"}, of : Requests, echo : Echoes]
             \cup [type : {"push", "malformed", "registered"}]

VARIABLES
    call,     \* where each call stands
    future,   \* its future: an Outcome, or the request whose response it holds
    pending,  \* self._pending
    lockq,    \* _send_lock: its holder or next holder, then its waiters
    sendOn,   \* the connection whose send() the call has entered
    ws,       \* self._ws: 0 for None, else the number of its connect()
    gen,      \* number of connect() calls so far: it names the event queue too
    sock,     \* the sockets opened by each connect()
    reader,   \* self._reader_task
    pc,       \* where each task stands in connect() and close()
    events,   \* self._events, and the queues that connect() replaced
    listener, \* where each listener stands
    getting,  \* the queue whose get() a listener awaits
    due,      \* requests the device has received and not answered
    inbound,  \* frames received on the newest socket and not read yet
    noise     \* pushes and malformed messages so far

callVars == <<call, future, pending, lockq, sendOn>>
connVars == <<ws, gen, reader, pc>>
eventVars == <<events, listener, getting>>
wireVars == <<sock, due, inbound, noise>>
vars == <<callVars, connVars, eventVars, wireVars>>

Init ==
    /\ call = [r \in Requests |-> "idle"]
    /\ future = [r \in Requests |-> "open"]
    /\ pending = <<>> /\ lockq = <<>>
    /\ sendOn = [r \in Requests |-> 0]
    /\ ws = 0 /\ gen = 0 /\ reader = "none"
    /\ sock = [g \in Gen |-> "unused"]
    /\ pc = [t \in Tasks |-> IF t = Owner THEN "outside" ELSE "inside"]
    /\ events = [g \in Gen |-> <<>>]
    /\ listener = [l \in Listeners |-> "idle"]
    /\ getting = [l \in Listeners |-> 0]
    /\ due = <<>> /\ inbound = <<>> /\ noise = 0

IsOpen(g) == sock[g] \in {"open", "live"}

\* Mistake: only self._ws is asked, which close() clears last.
SocketSet == ws # 0

Connected == ws # 0 /\ reader # "none"
Put(item) == events' = [events EXCEPT ![gen] = Append(@, item)]
MoveTo(t, where) == pc' = [pc EXCEPT ![t] = where]
Step(r, where) == call' = [call EXCEPT ![r] = where]

-----------------------------------------------------------------------------
(* _send_request and _send_message *)

EnterLock(r) ==
    /\ lockq' = Append(lockq, r)
    /\ IF lockq = <<>>
       THEN Step(r, "sending") /\ sendOn' = [sendOn EXCEPT ![r] = ws]
       ELSE Step(r, "locking") /\ UNCHANGED sendOn

SendRequest(r) ==
    /\ call[r] = "idle" /\ r \notin OneWay
    /\ \/ /\ ~Connected
          /\ Step(r, "failed") /\ UNCHANGED <<pending, lockq, sendOn>>
       \/ /\ Connected
          /\ pending' = Append(pending, r) /\ EnterLock(r)
    /\ UNCHANGED <<future, connVars, eventVars, wireVars>>

Restart(r) ==
    /\ call[r] = "idle" /\ r \in OneWay
    /\ \/ ws = 0 /\ Step(r, "failed") /\ UNCHANGED <<lockq, sendOn>>
       \/ ws # 0 /\ EnterLock(r)
    /\ UNCHANGED <<future, pending, connVars, eventVars, wireVars>>

\* Mistake: the newest entry is dropped, whoever added it.
DropNewest(r) ==
    /\ Step(r, "failed")
    /\ lockq' = RemoveFirst(lockq, r)
    /\ pending' = IF pending = <<>> THEN <<>> ELSE Front(pending)

\* "except Exception: self._pending.remove(pending); raise"
SendRaises(r) ==
    /\ Step(r, "failed")
    /\ lockq' = RemoveFirst(lockq, r)
    /\ pending' = RemoveFirst(pending, r)

\* The lock is handed over; self._ws is read only now, and may be None by now.
Acquire(r) ==
    /\ call[r] = "locking" /\ Head(lockq) = r
    /\ \/ ws = 0 /\ SendRaises(r) /\ UNCHANGED sendOn
       \/ /\ ws # 0
          /\ Step(r, "sending") /\ sendOn' = [sendOn EXCEPT ![r] = ws]
          /\ UNCHANGED <<lockq, pending>>
    /\ UNCHANGED <<future, connVars, eventVars, wireVars>>

WriteFrame(r) ==
    /\ call[r] = "sending" /\ IsOpen(sendOn[r])
    /\ Step(r, "sent")
    /\ due' = IF r \in OneWay \/ sendOn[r] # gen THEN due ELSE Append(due, r)
    /\ UNCHANGED <<future, pending, lockq, sendOn, connVars, eventVars, sock, inbound, noise>>

SendReturns(r) ==
    /\ call[r] = "sent"
    /\ Step(r, IF r \in OneWay THEN "posted" ELSE "waiting")
    /\ lockq' = RemoveFirst(lockq, r)
    /\ UNCHANGED <<future, pending, sendOn, connVars, eventVars, wireVars>>

SendFails(r) ==
    /\ call[r] \in {"sending", "sent"} /\ ~IsOpen(sendOn[r])
    /\ SendRaises(r)
    /\ UNCHANGED <<future, sendOn, connVars, eventVars, wireVars>>

\* Mistake: a cancelled waiter releases the lock it does not hold.
ReleaseHead(r) ==
    /\ r \in Cancellable /\ call[r] \in {"locking", "sending", "sent"}
    /\ Step(r, "failed") /\ lockq' = Tail(lockq)
    /\ UNCHANGED <<future, pending, sendOn, connVars, eventVars, wireVars>>

\* Mistake: a cancelled sender does not release the lock.
KeepLock(r) ==
    /\ r \in Cancellable /\ call[r] \in {"locking", "sending", "sent"}
    /\ Step(r, "failed")
    /\ UNCHANGED <<future, pending, lockq, sendOn, connVars, eventVars, wireVars>>

\* A CancelledError is not an Exception: the entry stays in self._pending.
CancelSend(r) ==
    /\ r \in Cancellable /\ call[r] \in {"locking", "sending", "sent"}
    /\ Step(r, "failed")
    /\ lockq' = RemoveFirst(lockq, r)
    /\ UNCHANGED <<future, pending, sendOn, connVars, eventVars, wireVars>>

\* wait_for: the deadline or a cancellation cancels the future; the caller
\* resumes, and runs its finally clause, in a later turn of the event loop.
Expire(r) ==
    /\ call[r] = "waiting" /\ r \in Impatient \cup Cancellable
    /\ Step(r, "expired")
    /\ future' = [future EXCEPT ![r] = IF @ = "open" THEN "cancelled" ELSE @]
    /\ UNCHANGED <<pending, lockq, sendOn, connVars, eventVars, wireVars>>

\* Mistake: no finally clause.
LeaveEntry(r) ==
    /\ \/ call[r] = "expired" /\ Step(r, "failed")
       \/ /\ call[r] = "waiting" /\ future[r] # "open"
          /\ Step(r, IF future[r] \in Requests THEN "answered" ELSE "failed")
    /\ UNCHANGED <<future, pending, lockq, sendOn, connVars, eventVars, wireVars>>

WaitReturns(r) ==
    /\ \/ call[r] = "expired" /\ Step(r, "failed")
       \/ /\ call[r] = "waiting" /\ future[r] # "open"
          /\ Step(r, IF future[r] \in Requests THEN "answered" ELSE "failed")
    /\ pending' = RemoveFirst(pending, r)
    /\ UNCHANGED <<future, lockq, sendOn, connVars, eventVars, wireVars>>

-----------------------------------------------------------------------------
(* connect() and close() *)

FailPending ==
    /\ future' = [r \in Requests |->
                    IF r \in Range(pending) /\ future[r] = "open" THEN "failed" ELSE future[r]]
    /\ pending' = <<>>
    /\ UNCHANGED <<call, lockq, sendOn>>

\* The rest of close(), once the reader is gone.  send() and recv() fail from
\* the moment ws.close() is called; self._ws is cleared when it returns.
CloseSocket(t) ==
    /\ \/ /\ ws # 0
          /\ sock' = [sock EXCEPT ![ws] = "shut"] /\ MoveTo(t, "shutting")
          /\ UNCHANGED events
       \/ ws = 0 /\ Put("closed") /\ MoveTo(t, "outside") /\ UNCHANGED sock
    /\ UNCHANGED <<ws, gen, listener, getting, due, inbound, noise>>

\* Mistake: without a reader there is nothing to close.
CloseIfReading(t) ==
    /\ FailPending
    /\ reader' = "none"
    /\ \/ reader = "none" /\ MoveTo(t, "outside") /\ UNCHANGED <<ws, gen, eventVars, wireVars>>
       \/ reader = "ended" /\ CloseSocket(t)
       \/ /\ reader \in {"start", "recv", "orphaned", "crashed"}
          /\ MoveTo(t, IF reader = "crashed" THEN "outside" ELSE "closing")
          /\ UNCHANGED <<ws, gen, eventVars, wireVars>>

\* close() up to its first await.  A reader that died of its assertion raises
\* out of "await reader"; one that ended is awaited without a pause.
Close(t) ==
    /\ FailPending
    /\ reader' = "none"
    /\ \/ reader \in {"none", "ended"} /\ CloseSocket(t)
       \/ /\ reader \in {"start", "recv", "orphaned", "crashed"}
          /\ MoveTo(t, IF reader = "crashed" THEN "outside" ELSE "closing")
          /\ UNCHANGED <<ws, gen, eventVars, wireVars>>

Leave(t) == pc[t] = "inside" /\ Close(t)

ReaderAwaited(t) ==
    /\ pc[t] = "closing"
    /\ CloseSocket(t)
    /\ UNCHANGED <<callVars, reader>>

\* Mistake: close() leaves the listeners alone.
CloseQuietly(t) ==
    /\ pc[t] = "shutting"
    /\ ws' = 0 /\ MoveTo(t, "outside")
    /\ UNCHANGED <<callVars, gen, reader, eventVars, wireVars>>

SocketClosed(t) ==
    /\ pc[t] = "shutting"
    /\ ws' = 0 /\ Put("closed") /\ MoveTo(t, "outside")
    /\ UNCHANGED <<callVars, gen, reader, listener, getting, wireVars>>

Connect ==
    /\ pc[Owner] = "outside" /\ ws = 0 /\ gen < MaxConnects
    /\ gen' = gen + 1 /\ MoveTo(Owner, "dialling")
    /\ UNCHANGED <<callVars, ws, reader, eventVars, wireVars>>

SocketOpened ==
    /\ pc[Owner] = "dialling"
    /\ ws' = gen /\ sock' = [sock EXCEPT ![gen] = "open"]
    /\ due' = <<>> /\ inbound' = <<>>
    /\ MoveTo(Owner, "registering")
    /\ UNCHANGED <<callVars, gen, reader, eventVars, noise>>

\* _register() returns with the first message, and connect() starts the reader.
Registered ==
    /\ pc[Owner] = "registering" /\ inbound # <<>>
    /\ inbound' = Tail(inbound)
    /\ reader' = "start" /\ MoveTo(Owner, "inside")
    /\ UNCHANGED <<callVars, ws, gen, eventVars, sock, due, noise>>

\* Mistake: a failed connect() only reports its failure.
ReportOnly ==
    /\ pc[Owner] \in {"dialling", "registering"} /\ MoveTo(Owner, "outside")
    /\ UNCHANGED <<callVars, ws, gen, reader, eventVars, wireVars>>

\* "except Exception: await self.close()"
ConnectFails == pc[Owner] \in {"dialling", "registering"} /\ Close(Owner)

\* A cancelled connect() skips its except clause, and __aexit__ never runs.
\* (A cancellation that arrives at "await reader" is suppressed by close().)
CancelTask(t) ==
    /\ t \in Cancellable /\ pc[t] \in {"dialling", "registering", "shutting"}
    /\ MoveTo(t, "outside")
    /\ UNCHANGED <<callVars, ws, gen, reader, eventVars, wireVars>>

-----------------------------------------------------------------------------
(* _reader_loop *)

ReaderStarts ==
    /\ reader = "start"
    /\ reader' = IF ws = 0 THEN "crashed" ELSE "recv"
    /\ UNCHANGED <<callVars, ws, gen, pc, eventVars, wireVars>>

ReaderFails ==
    /\ FailPending /\ Put("failure") /\ reader' = "ended"
    /\ UNCHANGED <<ws, gen, pc, listener, getting, sock, due, noise>>

Hit(m, r) == m.type = "response" /\ m.echo \in Matches[r]

\* Mistake: the newest request that fits gets the response.
RouteToNewest(m) ==
    \E i \in DOMAIN pending :
        /\ Hit(m, pending[i])
        /\ \A j \in (i + 1)..Len(pending) : ~Hit(m, pending[j])
        /\ pending' = RemoveAt(pending, i)
        /\ future' = [future EXCEPT ![pending[i]] = IF @ = "open" THEN m.of ELSE @]
        /\ UNCHANGED <<call, lockq, sendOn, events>>

\* Mistake: every request that fits gets it.
RouteToAll(m) ==
    /\ \E i \in DOMAIN pending : Hit(m, pending[i])
    /\ pending' = SelectSeq(pending, LAMBDA r : ~Hit(m, r))
    /\ future' = [r \in Requests |->
          IF r \in Range(pending) /\ Hit(m, r) /\ future[r] = "open" THEN m.of ELSE future[r]]
    /\ UNCHANGED <<call, lockq, sendOn, events>>

\* Mistake: the future gets what was echoed, not the message.
RouteEcho(m) ==
    \E i \in DOMAIN pending :
        /\ Hit(m, pending[i])
        /\ \A j \in 1..(i - 1) : ~Hit(m, pending[j])
        /\ pending' = RemoveAt(pending, i)
        /\ future' = [future EXCEPT ![pending[i]] = IF @ = "open" THEN m.echo ELSE @]
        /\ UNCHANGED <<call, lockq, sendOn, events>>

RouteResponse(m) ==
    \E i \in DOMAIN pending :
        /\ Hit(m, pending[i])
        /\ \A j \in 1..(i - 1) : ~Hit(m, pending[j])
        /\ pending' = RemoveAt(pending, i)
        /\ future' = [future EXCEPT ![pending[i]] = IF @ = "open" THEN m.of ELSE @]
        /\ UNCHANGED <<call, lockq, sendOn, events>>

KeepEvent(m) ==
    /\ \A i \in DOMAIN pending : ~Hit(m, pending[i])
    /\ Put("message") /\ UNCHANGED callVars

\* The loop reads self._ws again for the next recv(); None raises there.
ReaderReceives ==
    /\ reader = "recv" /\ inbound # <<>> /\ Head(inbound).type # "malformed"
    /\ inbound' = Tail(inbound)
    /\ RouteResponse(Head(inbound)) \/ KeepEvent(Head(inbound))
    /\ reader' = IF ws = 0 THEN "orphaned" ELSE "recv"
    /\ UNCHANGED <<ws, gen, pc, listener, getting, sock, due, noise>>

ReaderStops ==
    /\ \/ /\ reader = "recv" /\ inbound # <<>> /\ Head(inbound).type = "malformed"
          /\ inbound' = Tail(inbound)
       \/ /\ reader = "recv" /\ inbound = <<>> /\ ~IsOpen(gen)
          /\ UNCHANGED inbound
       \/ reader = "orphaned" /\ UNCHANGED inbound
    /\ ReaderFails

-----------------------------------------------------------------------------
(* listen() and next_event() *)

AwaitEvent(l) ==
    /\ \/ listener[l] = "idle" /\ Connected
       \/ listener[l] = "between"
    /\ listener' = [listener EXCEPT ![l] = "getting"]
    /\ getting' = [getting EXCEPT ![l] = gen]
    /\ UNCHANGED <<callVars, connVars, events, wireVars>>

NextEvent(l) ==
    /\ listener[l] = "getting" /\ events[getting[l]] # <<>>
    /\ listener' = [listener EXCEPT ![l] =
                      IF Head(events[getting[l]]) = "message" THEN "between" ELSE "ended"]
    /\ events' = [events EXCEPT ![getting[l]] = Tail(@)]
    /\ UNCHANGED <<callVars, connVars, getting, wireVars>>

-----------------------------------------------------------------------------
(* The device and the network *)

DeviceRegisters ==
    /\ pc[Owner] = "registering" /\ sock[gen] = "open"
    /\ sock' = [sock EXCEPT ![gen] = "live"]
    /\ inbound' = Append(inbound, [type |-> "registered"])
    /\ UNCHANGED <<callVars, connVars, eventVars, due, noise>>

DeviceAnswers ==
    /\ sock[gen] = "live"
    /\ \E i \in DOMAIN due, e \in Echoes :
         /\ InOrder => i = 1
         /\ e \in EchoOf[due[i]]
         /\ due' = RemoveAt(due, i)
         /\ inbound' = Append(inbound, [type |-> "response", of |-> due[i], echo |-> e])
    /\ UNCHANGED <<callVars, connVars, eventVars, sock, noise>>

DevicePushes ==
    /\ sock[gen] = "live" /\ noise < MaxNoise
    /\ noise' = noise + 1
    /\ \E kind \in Disturbances \cap {"push", "malformed"} :
         inbound' = Append(inbound, [type |-> kind])
    /\ UNCHANGED <<callVars, connVars, eventVars, sock, due>>

ConnectionLost ==
    /\ "lost" \in Disturbances /\ IsOpen(gen)
    /\ sock' = [sock EXCEPT ![gen] = "shut"]
    /\ UNCHANGED <<callVars, connVars, eventVars, due, inbound, noise>>

-----------------------------------------------------------------------------
CallStep(r) == Acquire(r) \/ WriteFrame(r) \/ SendReturns(r) \/ SendFails(r) \/ WaitReturns(r)
TaskStep(t) == ReaderAwaited(t) \/ SocketClosed(t)
ReaderStep == ReaderStarts \/ ReaderReceives \/ ReaderStops

Next ==
    \/ \E r \in Requests :
         SendRequest(r) \/ Restart(r) \/ CallStep(r) \/ CancelSend(r) \/ Expire(r)
    \/ \E t \in Tasks : Leave(t) \/ TaskStep(t) \/ CancelTask(t)
    \/ Connect \/ SocketOpened \/ Registered \/ ConnectFails
    \/ ReaderStep
    \/ \E l \in Listeners : AwaitEvent(l) \/ NextEvent(l)
    \/ DeviceRegisters \/ DeviceAnswers \/ DevicePushes \/ ConnectionLost

Spec == Init /\ [][Next]_vars

(***************************************************************************)
(* The event loop runs every ready task; ws.send() returns or raises (the  *)
(* keepalive of websockets closes a stalled connection); wait_for's        *)
(* deadline always fires.  Entering, leaving, cancelling and the network's *)
(* faults are never forced.                                                *)
(***************************************************************************)
LoopFairness ==
    /\ \A r \in Requests : WF_vars(CallStep(r))
    /\ \A t \in Tasks : WF_vars(TaskStep(t))
    /\ \A l \in Listeners : WF_vars(NextEvent(l))
    /\ WF_vars(ReaderStep)

Deadlines == \A r \in Requests : WF_vars(Expire(r))

SpecWithDeadlines == Spec /\ LoopFairness /\ Deadlines

-----------------------------------------------------------------------------
CallState == {"idle", "locking", "sending", "sent", "waiting", "expired",
              "answered", "failed", "posted"}

\* Every variable has the shape its declaration says.
TypeOK ==
    /\ call \in [Requests -> CallState]
    /\ future \in [Requests -> Requests \cup Outcome]
    /\ pending \in Seq(Requests) /\ lockq \in Seq(Requests) /\ due \in Seq(Requests)
    /\ sendOn \in [Requests -> Gen]
    /\ ws \in Gen /\ gen \in Gen
    /\ sock \in [Gen -> {"unused", "open", "live", "shut"}]
    /\ reader \in {"none", "start", "recv", "orphaned", "ended", "crashed"}
    /\ pc \in [Tasks -> {"outside", "dialling", "registering", "inside", "closing", "shutting"}]
    /\ events \in [Gen -> Seq({"message", "failure", "closed"})]
    /\ listener \in [Listeners -> {"idle", "getting", "between", "ended"}]
    /\ getting \in [Listeners -> Gen]
    /\ inbound \in Seq(Message)
    /\ noise \in 0..MaxNoise

Ended(r) == call[r] \in {"answered", "failed", "posted"}

\* A caller of _send_request that still hopes for a response can get one: its
\* entry is in self._pending, or its future is resolved already.  Close, reader
\* failure, lock handover and reconnection may come in any order.
NobodyForgotten ==
    \A r \in Requests \ OneWay :
        call[r] \in {"locking", "sending", "sent", "waiting"} /\ future[r] = "open"
            => r \in Range(pending)

\* _send_lock: at most one caller is inside ws.send(), and it is the one at the
\* head of the lock's queue, whoever was cancelled while it queued.
OneSender ==
    \A r \in Requests : call[r] \in {"sending", "sent"} => lockq # <<>> /\ Head(lockq) = r

\* Between close() and the next successful connect() no entry waits for a reader
\* that does not exist: a call is refused or its future has been failed.
NoPendingWithoutReader == reader = "none" => pending = <<>>

\* When the device answers in order and echoes something of every request, and
\* nobody gives up, each caller gets the response to its own request, however
\* many identical requests run at once and however little is echoed.
OwnResponse == \A r \in Requests : call[r] = "answered" => future[r] = r

\* _route_response never spends the response to a call that still waits for it
\* on the entry of a call that has already ended.
ResponsesReachCallers ==
    [][\A r \in Range(pending) :
          ReaderReceives /\ r \notin Range(pending') /\ Ended(r) => Ended(Head(inbound).of)]_vars

\* README: "Use it as an async context manager so its reader and socket are
\* always closed."  Once every task is outside, nothing is left running.
AlwaysClosed ==
    (\A t \in Tasks : pc[t] = "outside") =>
        /\ \A g \in Gen : ~IsOpen(g)
        /\ reader \notin {"start", "recv"}

\* Every call ends.
CallsEnd == \A r \in Requests : call[r] # "idle" ~> Ended(r)

\* listen(): "Runs until the connection closes or the caller cancels."  Once the
\* session is closed no listener keeps waiting for an event.
ListenersReleased ==
    \A l \in Listeners :
        listener[l] = "getting" /\ ws = 0 /\ (\A t \in Tasks : pc[t] = "outside")
            ~> listener[l] # "getting"

(***************************************************************************)
(* The session implements GdsCorrelation for the calls of _send_request.   *)
(***************************************************************************)
Phase(c) == IF c \in {"idle", "answered", "failed"} THEN c ELSE "open"
Phases == [r \in Requests \ OneWay |-> Phase(call[r])]
Replies == [r \in Requests \ OneWay |-> IF call[r] = "answered" THEN {future[r]} ELSE {}]

Correlation == INSTANCE GdsCorrelation WITH
    Callers <- Requests \ OneWay,
    Fits <- {rs \in Requests \X Requests : EchoOf[rs[2]] \cap Matches[rs[1]] # {}},
    phase <- Phases,
    reply <- Replies

ImplementsCorrelation == Correlation!Spec
=============================================================================
