-------------------------- MODULE GdsSessionProofs --------------------------
(***************************************************************************)
(* Proofs about GdsSession, for every set of callers, closers, listeners   *)
(* and echoes, every echoing habit of the device and every bound.          *)
(***************************************************************************)
EXTENDS GdsSession, ListLemmas

-----------------------------------------------------------------------------
(* Type correctness *)

USE BoundAssumption DEF Tasks, Gen

LEMMA MoveToType ==
    ASSUME TypeOK, NEW t \in Tasks,
           NEW where \in {"outside", "dialling", "registering", "inside", "closing", "shutting"},
           MoveTo(t, where)
    PROVE  pc' \in [Tasks -> {"outside", "dialling", "registering", "inside", "closing", "shutting"}]
BY DEF TypeOK, MoveTo

LEMMA PutType ==
    ASSUME TypeOK, NEW item \in {"message", "failure", "closed"}, Put(item)
    PROVE  events' \in [Gen -> Seq({"message", "failure", "closed"})]
<1>1. events[gen] \in Seq({"message", "failure", "closed"})
  BY DEF TypeOK
<1>2. Append(events[gen], item) \in Seq({"message", "failure", "closed"})
  BY <1>1, AppendProperties
<1> QED BY <1>2 DEF TypeOK, Put

LEMMA CloseSocketType ==
    ASSUME TypeOK, NEW t \in Tasks, CloseSocket(t)
    PROVE  /\ sock' \in [Gen -> {"unused", "open", "live", "shut"}]
           /\ pc' \in [Tasks -> {"outside", "dialling", "registering", "inside", "closing", "shutting"}]
           /\ events' \in [Gen -> Seq({"message", "failure", "closed"})]
<1>1. CASE ws # 0
  BY <1>1, MoveToType DEF TypeOK, CloseSocket
<1>2. CASE ws = 0
  <2>1. Put("closed") /\ MoveTo(t, "outside") /\ UNCHANGED sock
    BY <1>2 DEF CloseSocket
  <2> QED BY <2>1, MoveToType, PutType DEF TypeOK
<1> QED BY <1>1, <1>2

LEMMA FailPendingType ==
    ASSUME TypeOK, FailPending
    PROVE  /\ future' \in [Requests -> Requests \cup Outcome]
           /\ pending' \in Seq(Requests) /\ UNCHANGED <<call, lockq, sendOn>>
BY DEF TypeOK, FailPending, Outcome

\* close() ends in a state of the right shape from every state of it.
LEMMA CloseType ==
    ASSUME TypeOK, NEW t \in Tasks, Close(t)
    PROVE  TypeOK'
<1>1. FailPending /\ reader' = "none" /\ UNCHANGED <<ws, gen, listener, getting, due, inbound, noise>>
  BY DEF Close, CloseSocket, eventVars, wireVars
<1>2. CASE CloseSocket(t)
  BY <1>1, <1>2, CloseSocketType, FailPendingType DEF TypeOK
<1>3. CASE MoveTo(t, IF reader = "crashed" THEN "outside" ELSE "closing")
           /\ UNCHANGED <<ws, gen, eventVars, wireVars>>
  BY <1>1, <1>3, MoveToType, FailPendingType DEF TypeOK, eventVars, wireVars
<1> QED BY <1>2, <1>3 DEF Close

LEMMA TypeInit == Init => TypeOK
BY DEF Init, TypeOK, CallState, Outcome

LEMMA EnterLockType ==
    ASSUME TypeOK, NEW r \in Requests, EnterLock(r)
    PROVE  /\ call' \in [Requests -> CallState]
           /\ lockq' \in Seq(Requests)
           /\ sendOn' \in [Requests -> Gen]
<1>1. lockq' \in Seq(Requests)
  BY AppendProperties DEF TypeOK, EnterLock
<1> QED BY <1>1 DEF TypeOK, EnterLock, Step, CallState

LEMMA SendRaisesType ==
    ASSUME TypeOK, NEW r \in Requests, SendRaises(r)
    PROVE  /\ call' \in [Requests -> CallState]
           /\ lockq' \in Seq(Requests) /\ pending' \in Seq(Requests)
<1>1. lockq' \in Seq(Requests) /\ pending' \in Seq(Requests)
  BY RemoveFirstProperties DEF TypeOK, SendRaises
<1> QED BY <1>1 DEF TypeOK, SendRaises, Step, CallState

\* The steps of a caller.
LEMMA CallStepType ==
    ASSUME TypeOK, NEW r \in Requests,
           SendRequest(r) \/ Restart(r) \/ CallStep(r) \/ CancelSend(r) \/ Expire(r)
    PROVE  TypeOK'
<1> USE DEF callVars, connVars, eventVars, wireVars
<1>1. CASE SendRequest(r)
  <2>1. CASE Connected
    <3>1. pending' = Append(pending, r) /\ EnterLock(r)
      BY <1>1, <2>1 DEF SendRequest
    <3>2. pending' \in Seq(Requests)
      BY <3>1, AppendProperties DEF TypeOK
    <3> QED BY <3>1, <3>2, <1>1, EnterLockType DEF TypeOK, SendRequest
  <2>2. CASE ~Connected
    BY <1>1, <2>2 DEF TypeOK, SendRequest, Step, CallState
  <2> QED BY <2>1, <2>2
<1>2. CASE Restart(r)
  <2>1. CASE ws = 0
    BY <1>2, <2>1 DEF TypeOK, Restart, Step, CallState
  <2>2. CASE ws # 0
    BY <1>2, <2>2, EnterLockType DEF TypeOK, Restart
  <2> QED BY <2>1, <2>2
<1>3. CASE Acquire(r)
  <2>1. CASE ws = 0
    BY <1>3, <2>1, SendRaisesType DEF TypeOK, Acquire
  <2>2. CASE ws # 0
    BY <1>3, <2>2 DEF TypeOK, Acquire, Step, CallState
  <2> QED BY <2>1, <2>2
<1>4. CASE WriteFrame(r)
  <2>1. due' \in Seq(Requests)
    BY <1>4, AppendProperties DEF TypeOK, WriteFrame
  <2> QED BY <1>4, <2>1 DEF TypeOK, WriteFrame, Step, CallState
<1>5. CASE SendReturns(r)
  <2>1. lockq' \in Seq(Requests)
    BY <1>5, RemoveFirstProperties DEF TypeOK, SendReturns
  <2> QED BY <1>5, <2>1 DEF TypeOK, SendReturns, Step, CallState
<1>6. CASE SendFails(r)
  BY <1>6, SendRaisesType DEF TypeOK, SendFails
<1>7. CASE WaitReturns(r)
  <2>1. pending' \in Seq(Requests)
    BY <1>7, RemoveFirstProperties DEF TypeOK, WaitReturns
  <2>2. call' \in [Requests -> CallState]
    BY <1>7 DEF TypeOK, WaitReturns, Step, CallState
  <2> QED BY <1>7, <2>1, <2>2 DEF TypeOK, WaitReturns
<1>8. CASE CancelSend(r)
  <2>1. lockq' \in Seq(Requests)
    BY <1>8, RemoveFirstProperties DEF TypeOK, CancelSend
  <2> QED BY <1>8, <2>1 DEF TypeOK, CancelSend, Step, CallState
<1>9. CASE Expire(r)
  BY <1>9 DEF TypeOK, Expire, Step, CallState, Outcome
<1> QED BY <1>1, <1>2, <1>3, <1>4, <1>5, <1>6, <1>7, <1>8, <1>9 DEF CallStep

\* The steps of connect() and close().
LEMMA ConnectionStepType ==
    ASSUME TypeOK,
           \/ \E t \in Tasks : Leave(t) \/ TaskStep(t) \/ CancelTask(t)
           \/ Connect \/ SocketOpened \/ Registered \/ ConnectFails
    PROVE  TypeOK'
<1> USE DEF callVars, connVars, eventVars, wireVars
<1>1. ASSUME NEW t \in Tasks, Leave(t)
      PROVE  TypeOK'
  BY <1>1, CloseType DEF Leave
<1>2. ASSUME NEW t \in Tasks, ReaderAwaited(t)
      PROVE  TypeOK'
  <2>1. CloseSocket(t)
    BY <1>2 DEF ReaderAwaited
  <2> QED BY <1>2, <2>1, CloseSocketType DEF TypeOK, ReaderAwaited, CloseSocket
<1>3. ASSUME NEW t \in Tasks, SocketClosed(t)
      PROVE  TypeOK'
  <2>1. /\ pc' \in [Tasks -> {"outside", "dialling", "registering", "inside", "closing", "shutting"}]
        /\ events' \in [Gen -> Seq({"message", "failure", "closed"})]
    BY <1>3, MoveToType, PutType DEF SocketClosed
  <2> QED BY <1>3, <2>1 DEF TypeOK, SocketClosed
<1>4. ASSUME NEW t \in Tasks, CancelTask(t)
      PROVE  TypeOK'
  <2>1. pc' \in [Tasks -> {"outside", "dialling", "registering", "inside", "closing", "shutting"}]
    BY <1>4, MoveToType DEF CancelTask
  <2> QED BY <1>4, <2>1 DEF TypeOK, CancelTask
<1>5. CASE Connect
  <2>1. pc' \in [Tasks -> {"outside", "dialling", "registering", "inside", "closing", "shutting"}]
    BY <1>5, MoveToType DEF Connect
  <2> QED BY <1>5, <2>1 DEF TypeOK, Connect
<1>6. CASE SocketOpened
  <2>1. pc' \in [Tasks -> {"outside", "dialling", "registering", "inside", "closing", "shutting"}]
    BY <1>6, MoveToType DEF SocketOpened
  <2> QED BY <1>6, <2>1 DEF TypeOK, SocketOpened
<1>7. CASE Registered
  <2>1. inbound' \in Seq(Message)
    BY <1>7, TailRange DEF TypeOK, Registered
  <2>2. pc' \in [Tasks -> {"outside", "dialling", "registering", "inside", "closing", "shutting"}]
    BY <1>7, MoveToType DEF Registered
  <2> QED BY <1>7, <2>1, <2>2 DEF TypeOK, Registered
<1>8. CASE ConnectFails
  BY <1>8, CloseType DEF ConnectFails
<1> QED BY <1>1, <1>2, <1>3, <1>4, <1>5, <1>6, <1>7, <1>8 DEF TaskStep

\* The steps of the reader.
LEMMA ReaderStepType ==
    ASSUME TypeOK, ReaderStep
    PROVE  TypeOK'
<1> USE DEF callVars, connVars, eventVars, wireVars
<1>1. CASE ReaderStarts
  BY <1>1 DEF TypeOK, ReaderStarts
<1>2. CASE ReaderReceives
  <2> DEFINE m == Head(inbound)
  <2>1. m \in Message /\ inbound' \in Seq(Message)
    BY <1>2, TailRange DEF TypeOK, ReaderReceives
  <2>2. CASE RouteResponse(m)
    <3>1. PICK i \in DOMAIN pending :
              /\ Hit(m, pending[i])
              /\ pending' = RemoveAt(pending, i)
              /\ future' = [future EXCEPT ![pending[i]] = IF @ = "open" THEN m.of ELSE @]
              /\ UNCHANGED <<call, lockq, sendOn, events>>
      BY <2>2 DEF RouteResponse
    <3>2. i \in 1..Len(pending) /\ pending[i] \in Requests
      BY LenProperties, ElementOfSeq DEF TypeOK
    <3>3. m.of \in Requests
      BY <2>1, <3>1 DEF Hit, Message
    <3>4. pending' \in Seq(Requests)
      BY <3>1, <3>2, RemoveAtProperties DEF TypeOK
    <3>5. future' \in [Requests -> Requests \cup Outcome]
      BY <3>1, <3>2, <3>3 DEF TypeOK
    <3> QED BY <1>2, <2>1, <3>1, <3>4, <3>5 DEF TypeOK, ReaderReceives
  <2>3. CASE KeepEvent(m)
    BY <1>2, <2>1, <2>3, PutType DEF TypeOK, ReaderReceives, KeepEvent
  <2> QED BY <1>2, <2>2, <2>3 DEF ReaderReceives
<1>3. CASE ReaderStops
  <2>1. inbound' \in Seq(Message)
    <3>1. inbound' = inbound \/ (inbound # <<>> /\ inbound' = Tail(inbound))
      BY <1>3 DEF ReaderStops
    <3>2. inbound \in Seq(Message)
      BY DEF TypeOK
    <3>3. inbound # <<>> => Tail(inbound) \in Seq(Message)
      BY <3>2, HeadTailProperties
    <3> QED BY <3>1, <3>2, <3>3
  <2>2. ReaderFails
    BY <1>3 DEF ReaderStops
  <2> QED BY <2>1, <2>2, FailPendingType, PutType DEF TypeOK, ReaderFails
<1> QED BY <1>1, <1>2, <1>3 DEF ReaderStep

\* The steps of a listener.
LEMMA ListenerStepType ==
    ASSUME TypeOK, NEW l \in Listeners, AwaitEvent(l) \/ NextEvent(l)
    PROVE  TypeOK'
<1> USE DEF callVars, connVars, eventVars, wireVars
<1>1. CASE AwaitEvent(l)
  BY <1>1 DEF TypeOK, AwaitEvent
<1>2. CASE NextEvent(l)
  <2>1. events[getting[l]] \in Seq({"message", "failure", "closed"})
    BY DEF TypeOK
  <2>2. Tail(events[getting[l]]) \in Seq({"message", "failure", "closed"})
    BY <1>2, <2>1, TailRange DEF NextEvent
  <2> QED BY <1>2, <2>2 DEF TypeOK, NextEvent
<1> QED BY <1>1, <1>2

\* The steps of the device and of the network.
LEMMA WireStepType ==
    ASSUME TypeOK, DeviceRegisters \/ DeviceAnswers \/ DevicePushes \/ ConnectionLost
    PROVE  TypeOK'
<1> USE DEF callVars, connVars, eventVars, wireVars
<1>1. CASE DeviceRegisters
  <2>1. [type |-> "registered"] \in Message
    BY DEF Message
  <2>2. inbound' \in Seq(Message)
    BY <1>1, <2>1, AppendProperties DEF TypeOK, DeviceRegisters
  <2> QED BY <1>1, <2>2 DEF TypeOK, DeviceRegisters
<1>2. CASE DeviceAnswers
  <2>1. PICK i \in DOMAIN due, e \in Echoes :
            /\ due' = RemoveAt(due, i)
            /\ inbound' = Append(inbound, [type |-> "response", of |-> due[i], echo |-> e])
    BY <1>2 DEF DeviceAnswers
  <2>2. i \in 1..Len(due) /\ due[i] \in Requests
    BY LenProperties, ElementOfSeq DEF TypeOK
  <2>3. due' \in Seq(Requests)
    BY <2>1, <2>2, RemoveAtProperties DEF TypeOK
  <2>4. [type |-> "response", of |-> due[i], echo |-> e] \in Message
    BY <2>2 DEF Message
  <2>5. inbound' \in Seq(Message)
    BY <2>1, <2>4, AppendProperties DEF TypeOK
  <2> QED BY <1>2, <2>3, <2>5 DEF TypeOK, DeviceAnswers
<1>3. CASE DevicePushes
  <2>1. PICK kind \in {"push", "malformed"} : inbound' = Append(inbound, [type |-> kind])
    BY <1>3 DEF DevicePushes
  <2>2. [type |-> kind] \in Message
    BY DEF Message
  <2>3. inbound' \in Seq(Message)
    BY <2>1, <2>2, AppendProperties DEF TypeOK
  <2> QED BY <1>3, <2>3 DEF TypeOK, DevicePushes
<1>4. CASE ConnectionLost
  BY <1>4 DEF TypeOK, ConnectionLost
<1> QED BY <1>1, <1>2, <1>3, <1>4

\* Every reachable state has the declared shape.
THEOREM TypeCorrect == Spec => []TypeOK
<1>1. TypeOK /\ [Next]_vars => TypeOK'
  <2> SUFFICES ASSUME TypeOK, [Next]_vars
               PROVE  TypeOK'
    OBVIOUS
  <2>1. CASE Next
    BY <2>1, CallStepType, ConnectionStepType, ReaderStepType, ListenerStepType, WireStepType
    DEF Next
  <2>2. CASE UNCHANGED vars
    BY <2>2 DEF TypeOK, vars, callVars, connVars, eventVars, wireVars
  <2> QED BY <2>1, <2>2
<1> QED BY <1>1, TypeInit, PTL DEF Spec

-----------------------------------------------------------------------------
(* NobodyForgotten and NoPendingWithoutReader are inductive as they stand. *)

Hopeful(r) == call[r] \in {"locking", "sending", "sent", "waiting"} /\ future[r] = "open"

\* Taking a caller that is no longer hopeful off the list forgets nobody.
LEMMA RemovalForgetsNobody ==
    ASSUME TypeOK, NobodyForgotten, NEW r \in Requests,
           pending' = RemoveFirst(pending, r), ~Hopeful(r)',
           \A q \in Requests : Hopeful(q)' => Hopeful(q)
    PROVE  NobodyForgotten'
<1> SUFFICES ASSUME NEW q \in Requests \ OneWay, Hopeful(q)'
             PROVE  q \in Range(pending')
  BY DEF NobodyForgotten, Hopeful
<1>1. q # r /\ q \in Range(pending)
  BY DEF NobodyForgotten, Hopeful
<1> QED BY <1>1, RemoveFirstProperties DEF TypeOK

\* Failing every entry, as close() and a dying reader do, forgets nobody.
LEMMA FailPendingForgetsNobody ==
    ASSUME TypeOK, NobodyForgotten, FailPending
    PROVE  NobodyForgotten'
<1> SUFFICES ASSUME NEW r \in Requests \ OneWay, Hopeful(r)'
             PROVE  FALSE
  BY DEF NobodyForgotten, Hopeful
<1>1. call[r] = call'[r]
  BY DEF FailPending
<1>2. r \notin Range(pending) /\ future[r] = "open"
  BY DEF FailPending, Hopeful
<1> QED BY <1>1, <1>2 DEF NobodyForgotten, Hopeful

LEMMA ForgottenStep == TypeOK /\ NobodyForgotten /\ [Next]_vars => NobodyForgotten'
<1> SUFFICES ASSUME TypeOK, NobodyForgotten, [Next]_vars
             PROVE  NobodyForgotten'
  OBVIOUS
<1> USE DEF callVars, connVars, eventVars, wireVars
<1>1. ASSUME NEW r \in Requests, SendRequest(r)
      PROVE  NobodyForgotten'
  <2>1. CASE Connected
    <3>1. pending' = Append(pending, r) /\ call' = [call EXCEPT ![r] = call'[r]] /\ UNCHANGED future
      BY <1>1, <2>1 DEF SendRequest, EnterLock, Step, TypeOK
    <3>2. Range(pending') = Range(pending) \cup {r}
      BY <3>1, AppendRange DEF TypeOK
    <3> QED BY <3>1, <3>2 DEF NobodyForgotten, TypeOK
  <2>2. CASE ~Connected
    BY <1>1, <2>2 DEF SendRequest, Step, NobodyForgotten, TypeOK
  <2> QED BY <2>1, <2>2
<1>2. ASSUME NEW r \in Requests, Restart(r)
      PROVE  NobodyForgotten'
  BY <1>2 DEF Restart, EnterLock, Step, NobodyForgotten, TypeOK
<1>3. ASSUME NEW r \in Requests, Acquire(r)
      PROVE  NobodyForgotten'
  <2>1. CASE SendRaises(r)
    BY <1>3, <2>1, RemovalForgetsNobody DEF Acquire, SendRaises, Step, Hopeful, TypeOK
  <2>2. CASE Step(r, "sending") /\ UNCHANGED pending
    BY <1>3, <2>2 DEF Acquire, Step, NobodyForgotten, TypeOK
  <2> QED BY <1>3, <2>1, <2>2 DEF Acquire
<1>4. ASSUME NEW r \in Requests, WriteFrame(r)
      PROVE  NobodyForgotten'
  BY <1>4 DEF WriteFrame, Step, NobodyForgotten, TypeOK
<1>5. ASSUME NEW r \in Requests, SendReturns(r)
      PROVE  NobodyForgotten'
  BY <1>5 DEF SendReturns, Step, NobodyForgotten, TypeOK
<1>6. ASSUME NEW r \in Requests, SendFails(r)
      PROVE  NobodyForgotten'
  BY <1>6, RemovalForgetsNobody DEF SendFails, SendRaises, Step, Hopeful, TypeOK
<1>7. ASSUME NEW r \in Requests, WaitReturns(r)
      PROVE  NobodyForgotten'
  BY <1>7, RemovalForgetsNobody DEF WaitReturns, Step, Hopeful, TypeOK
<1>8. ASSUME NEW r \in Requests, CancelSend(r) \/ Expire(r)
      PROVE  NobodyForgotten'
  BY <1>8 DEF CancelSend, Expire, Step, NobodyForgotten, TypeOK
<1>9. ASSUME NEW t \in Tasks, Close(t)
      PROVE  NobodyForgotten'
  BY <1>9, FailPendingForgetsNobody DEF Close
<1>10. CASE ReaderReceives
  <2> DEFINE m == Head(inbound)
  <2>1. CASE KeepEvent(m)
    BY <2>1 DEF KeepEvent, NobodyForgotten
  <2>2. CASE RouteResponse(m)
    <3>1. PICK i \in DOMAIN pending :
              /\ Hit(m, pending[i])
              /\ pending' = RemoveAt(pending, i)
              /\ future' = [future EXCEPT ![pending[i]] = IF @ = "open" THEN m.of ELSE @]
              /\ UNCHANGED call
      BY <2>2 DEF RouteResponse
    <3>2. i \in 1..Len(pending) /\ pending[i] \in Requests
      BY LenProperties, ElementOfSeq DEF TypeOK
    <3>3. m.of \in Requests
      <4>1. m \in Message
        BY <1>10, TailRange DEF TypeOK, ReaderReceives
      <4> QED BY <4>1, <3>1 DEF Hit, Message
    <3>4. future'[pending[i]] # "open"
      BY <3>1, <3>2, <3>3, RequestsAssumption DEF TypeOK, Outcome
    <3>5. \A q \in Requests : q # pending[i] => future'[q] = future[q]
      BY <3>1, <3>2 DEF TypeOK
    <3>6. \A q \in Range(pending) : q # pending[i] => q \in Range(pending')
      BY <3>1, <3>2, RemoveAtRange DEF TypeOK
    <3> QED BY <3>1, <3>4, <3>5, <3>6 DEF NobodyForgotten
  <2> QED BY <1>10, <2>1, <2>2 DEF ReaderReceives
<1>11. CASE ReaderStops
  BY <1>11, FailPendingForgetsNobody DEF ReaderStops, ReaderFails
<1>12. ASSUME UNCHANGED callVars
       PROVE  NobodyForgotten'
  BY <1>12 DEF NobodyForgotten
<1>13. ASSUME NEW t \in Tasks, TaskStep(t) \/ CancelTask(t)
       PROVE  NobodyForgotten'
  BY <1>12, <1>13 DEF TaskStep, ReaderAwaited, SocketClosed, CancelTask
<1>14. CASE Connect \/ SocketOpened \/ Registered \/ ReaderStarts
  BY <1>12, <1>14 DEF Connect, SocketOpened, Registered, ReaderStarts
<1>15. ASSUME NEW l \in Listeners, AwaitEvent(l) \/ NextEvent(l)
       PROVE  NobodyForgotten'
  BY <1>12, <1>15 DEF AwaitEvent, NextEvent
<1>16. CASE DeviceRegisters \/ DeviceAnswers \/ DevicePushes \/ ConnectionLost
  BY <1>12, <1>16 DEF DeviceRegisters, DeviceAnswers, DevicePushes, ConnectionLost
<1>17. CASE UNCHANGED vars
  BY <1>12, <1>17 DEF vars
<1> QED
  BY <1>1, <1>2, <1>3, <1>4, <1>5, <1>6, <1>7, <1>8, <1>9, <1>10, <1>11, <1>13, <1>14,
     <1>15, <1>16, <1>17 DEF Next, CallStep, Leave, ConnectFails, ReaderStep

\* A caller that still hopes for a response can get one, whatever the order of
\* sends, closes, failures and reconnections (_send_request, _fail_pending).
THEOREM NobodyIsForgotten == Spec => []NobodyForgotten
<1>1. Init => NobodyForgotten
  BY DEF Init, NobodyForgotten
<1> QED BY <1>1, ForgottenStep, TypeCorrect, PTL DEF Spec

LEMMA WithoutReaderStep ==
    TypeOK /\ NoPendingWithoutReader /\ [Next]_vars => NoPendingWithoutReader'
<1> SUFFICES ASSUME TypeOK, NoPendingWithoutReader, [Next]_vars, reader' = "none"
             PROVE  pending' = <<>>
  BY DEF NoPendingWithoutReader
<1> USE DEF callVars, connVars, eventVars, wireVars
<1>1. ASSUME NEW r \in Requests,
             SendRequest(r) \/ Restart(r) \/ CallStep(r) \/ CancelSend(r) \/ Expire(r)
      PROVE  pending' = <<>>
  <2>1. reader = "none"
    BY <1>1 DEF SendRequest, Restart, CallStep, Acquire, WriteFrame, SendReturns, SendFails,
                WaitReturns, CancelSend, Expire
  <2>2. pending = <<>>
    BY <2>1 DEF NoPendingWithoutReader
  <2>3. UNCHANGED pending \/ pending' = RemoveFirst(pending, r)
    BY <1>1, <2>1 DEF SendRequest, Connected, Restart, CallStep, Acquire, WriteFrame,
                      SendReturns, SendFails, SendRaises, WaitReturns, CancelSend, Expire
  <2>4. <<>> \in Seq(Requests)
    BY EmptySeq
  <2> QED BY <2>2, <2>3, <2>4, RemoveFirstHead
<1>2. ASSUME FailPending
      PROVE  pending' = <<>>
  BY <1>2 DEF FailPending
<1>3. ASSUME NEW t \in Tasks, Leave(t) \/ TaskStep(t) \/ CancelTask(t)
      PROVE  pending' = <<>>
  BY <1>2, <1>3 DEF Leave, Close, TaskStep, ReaderAwaited, SocketClosed, CancelTask,
                    NoPendingWithoutReader
<1>4. CASE Connect \/ SocketOpened \/ Registered \/ ConnectFails
  BY <1>2, <1>4 DEF Connect, SocketOpened, Registered, ConnectFails, Close, NoPendingWithoutReader
<1>5. CASE ReaderStep
  BY <1>5 DEF ReaderStep, ReaderStarts, ReaderReceives, ReaderStops, ReaderFails
<1>6. ASSUME UNCHANGED <<reader, pending>>
      PROVE  pending' = <<>>
  BY <1>6 DEF NoPendingWithoutReader
<1>7. ASSUME NEW l \in Listeners, AwaitEvent(l) \/ NextEvent(l)
      PROVE  pending' = <<>>
  BY <1>6, <1>7 DEF AwaitEvent, NextEvent
<1>8. CASE DeviceRegisters \/ DeviceAnswers \/ DevicePushes \/ ConnectionLost
  BY <1>6, <1>8 DEF DeviceRegisters, DeviceAnswers, DevicePushes, ConnectionLost
<1>9. CASE UNCHANGED vars
  BY <1>6, <1>9 DEF vars
<1> QED BY <1>1, <1>3, <1>4, <1>5, <1>7, <1>8, <1>9 DEF Next

\* After close() has begun no call is left waiting on the list, and none is added
\* before a new reader exists.
THEOREM NothingPendsWithoutReader == Spec => []NoPendingWithoutReader
<1>1. Init => NoPendingWithoutReader
  BY DEF Init, NoPendingWithoutReader
<1> QED BY <1>1, WithoutReaderStep, TypeCorrect, PTL DEF Spec

-----------------------------------------------------------------------------
(***************************************************************************)
(* OneSender is not inductive: a caller in the middle of ws.send() could   *)
(* be overtaken if the queue of the lock forgot it or held somebody twice. *)
(***************************************************************************)
AtLock(r) == call[r] \in {"locking", "sending", "sent"}

LockInv ==
    /\ OneSender
    /\ IsInjective(lockq)
    /\ \A r \in Requests : AtLock(r) <=> r \in Range(lockq)

\* A caller joins the end of the queue.
LEMMA JoinKeepsLock ==
    ASSUME TypeOK, LockInv, NEW r \in Requests, ~AtLock(r), EnterLock(r)
    PROVE  LockInv'
<1>1. r \notin Range(lockq)
  BY DEF LockInv
<1>2. /\ lockq' = Append(lockq, r) /\ IsInjective(lockq')
      /\ Range(lockq') = Range(lockq) \cup {r}
  BY <1>1, AppendRange DEF TypeOK, LockInv, EnterLock
<1>3. \A q \in Requests : AtLock(q)' <=> q \in Range(lockq')
  BY <1>2 DEF TypeOK, LockInv, EnterLock, Step, AtLock
<1>4. OneSender'
  <2>1. CASE lockq = <<>>
    <3>1. \A q \in Requests : ~AtLock(q)
      BY <2>1 DEF LockInv, Range
    <3>2. lockq' # <<>> /\ Head(lockq') = r
      BY <2>1, <1>2
    <3> QED BY <2>1, <3>1, <3>2 DEF TypeOK, OneSender, EnterLock, Step, AtLock
  <2>2. CASE lockq # <<>>
    <3>1. lockq' # <<>> /\ Head(lockq') = Head(lockq)
      <4>1. lockq \in Seq(Requests)
        BY DEF TypeOK
      <4>2. Append(lockq, r) # <<>>
        BY <4>1, AppendProperties
      <4>3. Head(Append(lockq, r)) = Head(lockq)
        BY <4>1, <2>2, HeadTailAppend
      <4> QED BY <1>2, <4>2, <4>3
    <3> QED BY <2>2, <3>1 DEF TypeOK, LockInv, OneSender, EnterLock, Step
  <2> QED BY <2>1, <2>2
<1> QED BY <1>2, <1>3, <1>4 DEF LockInv

\* A caller leaves the queue, from its head or from the middle.
LEMMA LeaveKeepsLock ==
    ASSUME TypeOK, LockInv, NEW r \in Requests, NEW where \in CallState,
           where \notin {"locking", "sending", "sent"},
           Step(r, where), lockq' = RemoveFirst(lockq, r)
    PROVE  LockInv'
<1>1. /\ IsInjective(lockq') /\ r \notin Range(lockq')
      /\ Range(lockq') \subseteq Range(lockq)
      /\ \A q \in Range(lockq) : q # r => q \in Range(lockq')
  BY RemoveFirstProperties DEF TypeOK, LockInv
<1>2. \A q \in Requests : q # r => call'[q] = call[q]
  BY DEF TypeOK, Step
<1>3. call'[r] = where
  BY DEF TypeOK, Step
<1>4. \A q \in Requests : AtLock(q)' <=> q \in Range(lockq')
  BY <1>1, <1>2, <1>3 DEF LockInv, AtLock
<1>5. ASSUME NEW q \in Requests, call'[q] \in {"sending", "sent"}
      PROVE  lockq' # <<>> /\ Head(lockq') = q
  <2>1. q # r /\ call[q] \in {"sending", "sent"}
    BY <1>2, <1>3, <1>5
  <2>2. lockq # <<>> /\ Head(lockq) = q
    BY <2>1 DEF LockInv, OneSender
  <2> QED BY <2>1, <2>2, RemoveFirstHead DEF TypeOK
<1> QED BY <1>1, <1>4, <1>5 DEF LockInv, OneSender

LEMMA LockStep == TypeOK /\ LockInv /\ [Next]_vars => LockInv'
<1> SUFFICES ASSUME TypeOK, LockInv, [Next]_vars
             PROVE  LockInv'
  OBVIOUS
<1> USE DEF callVars, connVars, eventVars, wireVars
<1>1. ASSUME UNCHANGED lockq, NEW r \in Requests, NEW where \in CallState, Step(r, where),
             AtLock(r) <=> where \in {"locking", "sending", "sent"},
             where \in {"sending", "sent"} => lockq # <<>> /\ Head(lockq) = r
      PROVE  LockInv'
  BY <1>1 DEF TypeOK, LockInv, OneSender, AtLock, Step
<1>2. ASSUME NEW r \in Requests, SendRequest(r) \/ Restart(r)
      PROVE  LockInv'
  <2>1. CASE EnterLock(r)
    BY <1>2, <2>1, JoinKeepsLock DEF SendRequest, Restart, AtLock
  <2>2. CASE Step(r, "failed") /\ UNCHANGED lockq
    BY <1>1, <1>2, <2>2 DEF SendRequest, Restart, AtLock, CallState
  <2> QED BY <1>2, <2>1, <2>2 DEF SendRequest, Restart
<1>3. ASSUME NEW r \in Requests, Acquire(r)
      PROVE  LockInv'
  <2>1. CASE SendRaises(r)
    BY <2>1, LeaveKeepsLock DEF SendRaises, CallState
  <2>2. CASE Step(r, "sending") /\ UNCHANGED lockq
    <3>1. r \in Range(lockq)
      BY <1>3 DEF Acquire, LockInv, AtLock
    <3>2. lockq # <<>>
      BY <3>1 DEF Range
    <3> QED BY <1>1, <1>3, <2>2, <3>2 DEF Acquire, AtLock, CallState
  <2> QED BY <1>3, <2>1, <2>2 DEF Acquire
<1>4. ASSUME NEW r \in Requests, WriteFrame(r)
      PROVE  LockInv'
  <2>1. lockq # <<>> /\ Head(lockq) = r
    BY <1>4 DEF WriteFrame, LockInv, OneSender
  <2> QED BY <1>1, <1>4, <2>1 DEF WriteFrame, AtLock, CallState
<1>5. ASSUME NEW r \in Requests, SendReturns(r) \/ SendFails(r) \/ CancelSend(r)
      PROVE  LockInv'
  BY <1>5, LeaveKeepsLock DEF SendReturns, SendFails, SendRaises, CancelSend, CallState
<1>6. ASSUME NEW r \in Requests, WaitReturns(r) \/ Expire(r)
      PROVE  LockInv'
  BY <1>1, <1>6 DEF WaitReturns, Expire, AtLock, CallState
<1>7. ASSUME UNCHANGED <<call, lockq>>
      PROVE  LockInv'
  BY <1>7 DEF LockInv, OneSender, AtLock
<1>8. ASSUME NEW t \in Tasks, Leave(t) \/ TaskStep(t) \/ CancelTask(t)
      PROVE  LockInv'
  BY <1>7, <1>8 DEF Leave, Close, FailPending, TaskStep, ReaderAwaited, SocketClosed, CancelTask
<1>9. CASE Connect \/ SocketOpened \/ Registered \/ ConnectFails
  BY <1>7, <1>9 DEF Connect, SocketOpened, Registered, ConnectFails, Close, FailPending
<1>10. CASE ReaderStep
  BY <1>7, <1>10 DEF ReaderStep, ReaderStarts, ReaderReceives, RouteResponse, KeepEvent,
                     ReaderStops, ReaderFails, FailPending
<1>11. ASSUME NEW l \in Listeners, AwaitEvent(l) \/ NextEvent(l)
       PROVE  LockInv'
  BY <1>7, <1>11 DEF AwaitEvent, NextEvent
<1>12. CASE DeviceRegisters \/ DeviceAnswers \/ DevicePushes \/ ConnectionLost
  BY <1>7, <1>12 DEF DeviceRegisters, DeviceAnswers, DevicePushes, ConnectionLost
<1>13. CASE UNCHANGED vars
  BY <1>7, <1>13 DEF vars
<1> QED
  BY <1>2, <1>3, <1>4, <1>5, <1>6, <1>8, <1>9, <1>10, <1>11, <1>12, <1>13 DEF Next, CallStep

\* The waiters of _send_lock are exactly the callers that are at it, each once,
\* and who is in ws.send() is the first of them (asyncio.Lock is fair).
THEOREM TheLockQueue == Spec => []LockInv
<1>1. Init => LockInv
  <2>1. ASSUME Init
        PROVE  LockInv
    <3>1. Range(lockq) = {} /\ IsInjective(lockq)
      BY <2>1 DEF Init, Range, IsInjective
    <3> QED BY <2>1, <3>1 DEF Init, LockInv, OneSender, AtLock
  <2> QED BY <2>1
<1> QED BY <1>1, LockStep, TypeCorrect, PTL DEF Spec

\* _send_lock keeps the frames apart: one caller at most is inside ws.send().
THEOREM OnlyOneSender == Spec => []OneSender
<1>1. LockInv => OneSender
  BY DEF LockInv
<1> QED BY <1>1, TheLockQueue, PTL

-----------------------------------------------------------------------------
(***************************************************************************)
(* AlwaysClosed.  An open socket is the one self._ws names, and the owner  *)
(* is on its way to close it.  Two ways of losing it are left out by       *)
(* OwnersOnly: a cancelled connect() (GdsCancelledConnect shows it), and a *)
(* second task whose slow close() clears the self._ws of a later connect().*)
(***************************************************************************)
OwnersOnly == Owner \notin Cancellable /\ (Closers = {} \/ MaxConnects <= 1)

NothingOpen == \A g \in Gen : ~IsOpen(g)

OpenInv ==
    /\ \A g \in Gen : IsOpen(g) =>
          g = ws /\ g # 0 /\ pc[Owner] \in {"registering", "inside", "closing"}
    /\ reader # "none" => pc[Owner] = "inside"
    /\ reader = "crashed" => ws = 0
    /\ pc[Owner] = "dialling" => ws = 0 /\ gen # 0
    /\ ws <= gen
    /\ \A t \in Tasks : pc[t] = "shutting" => gen # 0 /\ pc[Owner] # "dialling" /\ NothingOpen

\* close() once the reader is out of the way, in either of its two ways.
LEMMA CloseSocketKeepsOpen ==
    ASSUME TypeOK, OpenInv, NEW t \in Tasks, CloseSocket(t),
           reader' = reader \/ reader' = "none", pc[Owner] = "inside" => t # Owner \/ reader' = "none"
    PROVE  OpenInv'
<1>1. \A u \in Tasks : u # t => pc'[u] = pc[u]
  BY DEF TypeOK, CloseSocket, MoveTo
<1>2. CASE ws # 0
  <2>1. sock' = [sock EXCEPT ![ws] = "shut"] /\ pc'[t] = "shutting" /\ ws' = ws /\ gen' = gen
    BY <1>2 DEF TypeOK, CloseSocket, MoveTo
  <2>2. NothingOpen'
    BY <2>1 DEF TypeOK, OpenInv, NothingOpen, IsOpen
  <2>3. gen # 0 /\ pc[Owner] # "dialling"
    BY <1>2 DEF TypeOK, OpenInv
  <2> QED BY <1>1, <2>1, <2>2, <2>3 DEF TypeOK, OpenInv, NothingOpen
<1>3. CASE ws = 0
  <2>1. pc'[t] = "outside" /\ UNCHANGED <<ws, gen, sock>>
    BY <1>3 DEF TypeOK, CloseSocket, MoveTo
  <2>2. NothingOpen
    BY <1>3 DEF OpenInv, NothingOpen
  <2> QED BY <1>1, <2>1, <2>2 DEF TypeOK, OpenInv, NothingOpen, IsOpen
<1> QED BY <1>2, <1>3

LEMMA CloseKeepsOpen ==
    ASSUME TypeOK, OpenInv, NEW t \in Tasks, Close(t)
    PROVE  OpenInv'
<1>1. reader' = "none"
  BY DEF Close
<1>2. CASE CloseSocket(t)
  BY <1>1, <1>2, CloseSocketKeepsOpen
<1>3. CASE /\ reader \in {"start", "recv", "orphaned", "crashed"}
           /\ MoveTo(t, IF reader = "crashed" THEN "outside" ELSE "closing")
           /\ UNCHANGED <<ws, gen, eventVars, wireVars>>
  <2>1. UNCHANGED <<ws, gen, sock>> /\ \A u \in Tasks : u # t => pc'[u] = pc[u]
    BY <1>3 DEF TypeOK, MoveTo, wireVars
  <2>2. pc'[t] = IF reader = "crashed" THEN "outside" ELSE "closing"
    BY <1>3 DEF TypeOK, MoveTo
  <2>3. reader = "crashed" => NothingOpen
    BY DEF OpenInv, NothingOpen
  <2> QED BY <1>1, <1>3, <2>1, <2>2, <2>3 DEF TypeOK, OpenInv, NothingOpen, IsOpen
<1> QED BY <1>2, <1>3 DEF Close

\* A reader that goes on or dies does so while the owner is inside.
LEMMA ReaderKeepsOpen ==
    ASSUME TypeOK, OpenInv, UNCHANGED <<ws, gen, pc, sock>>,
           reader # "none", reader' = "crashed" => ws = 0
    PROVE  OpenInv'
BY DEF OpenInv, NothingOpen, IsOpen

LEMMA OpenStep == OwnersOnly /\ TypeOK /\ OpenInv /\ [Next]_vars => OpenInv'
<1> SUFFICES ASSUME OwnersOnly, TypeOK, OpenInv, [Next]_vars
             PROVE  OpenInv'
  OBVIOUS
<1> USE DEF callVars, connVars, eventVars, wireVars
<1>1. ASSUME UNCHANGED <<ws, gen, reader, pc, sock>>
      PROVE  OpenInv'
  BY <1>1 DEF OpenInv, NothingOpen, IsOpen
<1>2. ASSUME NEW r \in Requests,
             SendRequest(r) \/ Restart(r) \/ CallStep(r) \/ CancelSend(r) \/ Expire(r)
      PROVE  OpenInv'
  BY <1>1, <1>2 DEF SendRequest, Restart, CallStep, Acquire, WriteFrame, SendReturns, SendFails,
                    WaitReturns, CancelSend, Expire
<1>3. ASSUME NEW t \in Tasks, Leave(t)
      PROVE  OpenInv'
  BY <1>3, CloseKeepsOpen DEF Leave
<1>4. ASSUME NEW t \in Tasks, ReaderAwaited(t)
      PROVE  OpenInv'
  BY <1>4, CloseSocketKeepsOpen DEF ReaderAwaited
<1>5. ASSUME NEW t \in Tasks, SocketClosed(t)
      PROVE  OpenInv'
  <2>1. NothingOpen /\ pc[Owner] # "dialling" /\ gen # 0
    BY <1>5 DEF SocketClosed, OpenInv
  <2>2. ws' = 0 /\ UNCHANGED <<gen, reader, sock>> /\ pc'[t] = "outside"
        /\ \A u \in Tasks : u # t => pc'[u] = pc[u]
    BY <1>5 DEF TypeOK, SocketClosed, MoveTo
  <2>3. t = Owner => reader = "none"
    BY <1>5 DEF SocketClosed, OpenInv
  <2> QED BY <2>1, <2>2, <2>3 DEF TypeOK, OpenInv, NothingOpen, IsOpen
<1>6. ASSUME NEW t \in Tasks, CancelTask(t)
      PROVE  OpenInv'
  <2>1. t # Owner /\ UNCHANGED <<ws, gen, reader, sock>> /\ pc'[t] = "outside"
        /\ \A u \in Tasks : u # t => pc'[u] = pc[u]
    BY <1>6 DEF TypeOK, CancelTask, MoveTo, OwnersOnly
  <2> QED BY <2>1 DEF OpenInv, NothingOpen, IsOpen
<1>7. CASE Connect
  <2>1. /\ gen' = gen + 1 /\ UNCHANGED <<ws, reader, sock>> /\ ws = 0
        /\ pc[Owner] = "outside" /\ pc'[Owner] = "dialling"
        /\ \A u \in Tasks : u # Owner => pc'[u] = pc[u]
    BY <1>7 DEF TypeOK, Connect, MoveTo
  <2>2. \A t \in Tasks : pc[t] # "shutting"
    <3>1. CASE Closers = {}
      BY <3>1, <2>1
    <3>2. CASE MaxConnects <= 1
      BY <3>2, <1>7 DEF Connect, OpenInv, TypeOK
    <3> QED BY <3>1, <3>2 DEF OwnersOnly
  <2> QED BY <2>1, <2>2 DEF TypeOK, OpenInv, NothingOpen, IsOpen
<1>8. CASE SocketOpened
  <2>1. /\ ws' = gen /\ sock' = [sock EXCEPT ![gen] = "open"] /\ UNCHANGED <<gen, reader>>
        /\ pc[Owner] = "dialling" /\ pc'[Owner] = "registering"
        /\ \A u \in Tasks : u # Owner => pc'[u] = pc[u]
    BY <1>8 DEF TypeOK, SocketOpened, MoveTo
  <2>2. NothingOpen /\ gen # 0 /\ reader = "none" /\ \A t \in Tasks : pc[t] # "shutting"
    BY <2>1 DEF OpenInv, NothingOpen
  <2> QED BY <2>1, <2>2 DEF TypeOK, OpenInv, NothingOpen, IsOpen
<1>9. CASE Registered
  <2>1. /\ UNCHANGED <<ws, gen, sock>> /\ reader' = "start"
        /\ pc[Owner] = "registering" /\ pc'[Owner] = "inside"
        /\ \A u \in Tasks : u # Owner => pc'[u] = pc[u]
    BY <1>9 DEF TypeOK, Registered, MoveTo
  <2> QED BY <2>1 DEF OpenInv, NothingOpen, IsOpen
<1>10. CASE ConnectFails
  BY <1>10, CloseKeepsOpen DEF ConnectFails
<1>11. CASE ReaderStep
  BY <1>11, ReaderKeepsOpen
  DEF ReaderStep, ReaderStarts, ReaderReceives, ReaderStops, ReaderFails
<1>12. ASSUME NEW l \in Listeners, AwaitEvent(l) \/ NextEvent(l)
       PROVE  OpenInv'
  BY <1>1, <1>12 DEF AwaitEvent, NextEvent
<1>13. CASE DeviceRegisters
  BY <1>13 DEF DeviceRegisters, TypeOK, OpenInv, NothingOpen, IsOpen
<1>14. CASE DeviceAnswers \/ DevicePushes
  BY <1>1, <1>14 DEF DeviceAnswers, DevicePushes
<1>15. CASE ConnectionLost
  BY <1>15 DEF ConnectionLost, TypeOK, OpenInv, NothingOpen, IsOpen
<1>16. CASE UNCHANGED vars
  BY <1>1, <1>16 DEF vars
<1> QED
  BY <1>2, <1>3, <1>4, <1>5, <1>6, <1>7, <1>8, <1>9, <1>10, <1>11, <1>12, <1>13, <1>14, <1>15,
     <1>16 DEF Next, TaskStep

\* "Its reader and socket are always closed": whoever calls, whatever fails and
\* however often the block is entered, once every task is outside no socket is
\* open and no reader reads (connect, close, __aexit__).
THEOREM EverythingClosed ==
    ASSUME OwnersOnly
    PROVE  Spec => []AlwaysClosed
<1>1. Init => OpenInv
  BY DEF Init, OpenInv, NothingOpen, IsOpen
<1>2. OpenInv => AlwaysClosed
  BY DEF OpenInv, AlwaysClosed
<1>3. TypeOK /\ OpenInv /\ [Next]_vars => OpenInv'
  BY OpenStep
<1> QED BY <1>1, <1>2, <1>3, TypeCorrect, PTL DEF Spec

-----------------------------------------------------------------------------
(***************************************************************************)
(* self._pending: one entry for each call at most, put there by the call   *)
(* itself; while no caller is cancelled, none outlives its call.           *)
(***************************************************************************)
CallersStay == Cancellable \cap (Requests \ OneWay) = {}

EntriesInv ==
    /\ IsInjective(pending)
    /\ \A r \in Range(pending) :
          r \in Requests \ OneWay /\ call[r] # "idle" /\ (CallersStay => ~Ended(r))

\* A step of one call that leaves the list alone or takes its own entry off it.
LEMMA CallKeepsEntries ==
    ASSUME TypeOK, EntriesInv, NEW r \in Requests, NEW where \in CallState,
           where # "idle", Step(r, where),
           \/ /\ pending' = pending
              /\ CallersStay /\ where \in {"answered", "failed", "posted"} => r \notin Range(pending)
           \/ pending' = RemoveFirst(pending, r)
    PROVE  EntriesInv'
<1>1. \A q \in Requests : q # r => call'[q] = call[q]
  BY DEF TypeOK, Step
<1>2. call'[r] = where
  BY DEF TypeOK, Step
<1>3. CASE pending' = pending
  <2> SUFFICES ASSUME NEW q \in Range(pending)
               PROVE  q \in Requests \ OneWay /\ call'[q] # "idle" /\ (CallersStay => ~Ended(q)')
    BY <1>3 DEF EntriesInv
  <2>1. q \in Requests \ OneWay /\ call[q] # "idle" /\ (CallersStay => ~Ended(q))
    BY DEF EntriesInv
  <2>2. CASE q = r
    <3>1. CallersStay => where \notin {"answered", "failed", "posted"}
      BY <1>3, <2>2, RemoveFirstProperties DEF TypeOK, EntriesInv
    <3> QED BY <2>1, <2>2, <3>1, <1>2 DEF Ended
  <2>3. CASE q # r
    BY <1>1, <2>1, <2>3 DEF Ended
  <2> QED BY <2>2, <2>3
<1>4. CASE pending' = RemoveFirst(pending, r)
  <2>1. IsInjective(pending') /\ r \notin Range(pending') /\ Range(pending') \subseteq Range(pending)
    BY <1>4, RemoveFirstProperties DEF TypeOK, EntriesInv
  <2> QED BY <1>1, <2>1 DEF EntriesInv, Ended
<1> QED BY <1>3, <1>4

LEMMA FewerKeepEntries ==
    ASSUME EntriesInv, UNCHANGED call, IsInjective(pending'), Range(pending') \subseteq Range(pending)
    PROVE  EntriesInv'
BY DEF EntriesInv, Ended

LEMMA EntriesStep == TypeOK /\ EntriesInv /\ [Next]_vars => EntriesInv'
<1> SUFFICES ASSUME TypeOK, EntriesInv, [Next]_vars
             PROVE  EntriesInv'
  OBVIOUS
<1> USE DEF callVars, connVars, eventVars, wireVars
<1>1. ASSUME UNCHANGED <<call, pending>>
      PROVE  EntriesInv'
  BY <1>1 DEF EntriesInv, Ended
<1>2. ASSUME FailPending
      PROVE  EntriesInv'
  <2>1. Range(<<>>) = {} /\ IsInjective(<<>>)
    BY DEF Range, IsInjective
  <2> QED BY <1>2, <2>1, FewerKeepEntries DEF FailPending
<1>3. ASSUME NEW r \in Requests, SendRequest(r)
      PROVE  EntriesInv'
  <2>1. r \notin Range(pending) /\ r \notin OneWay /\ call[r] = "idle"
    BY <1>3 DEF SendRequest, EntriesInv
  <2>2. CASE Connected
    <3>1. pending' = Append(pending, r) /\ (Step(r, "sending") \/ Step(r, "locking"))
      BY <1>3, <2>2 DEF SendRequest, EnterLock
    <3>2. IsInjective(pending') /\ Range(pending') = Range(pending) \cup {r}
      BY <2>1, <3>1, AppendRange DEF TypeOK, EntriesInv
    <3>3. call'[r] \in {"sending", "locking"} /\ \A q \in Requests : q # r => call'[q] = call[q]
      BY <3>1 DEF TypeOK, Step
    <3> QED BY <2>1, <3>2, <3>3 DEF EntriesInv, Ended
  <2>3. CASE ~Connected
    BY <1>3, <2>1, <2>3, CallKeepsEntries DEF SendRequest, CallState
  <2> QED BY <2>2, <2>3
<1>4. ASSUME NEW r \in Requests, Restart(r)
      PROVE  EntriesInv'
  <2>1. r \notin Range(pending)
    BY <1>4 DEF Restart, EntriesInv
  <2>2. pending' = pending /\ (Step(r, "failed") \/ Step(r, "sending") \/ Step(r, "locking"))
    BY <1>4 DEF Restart, EnterLock
  <2> QED BY <2>1, <2>2, CallKeepsEntries DEF CallState
<1>5. ASSUME NEW r \in Requests, Acquire(r) \/ WriteFrame(r) \/ SendFails(r) \/ WaitReturns(r)
      PROVE  EntriesInv'
  <2>1. CASE pending' = RemoveFirst(pending, r) /\ (Step(r, "failed") \/ Step(r, "answered"))
    BY <2>1, CallKeepsEntries DEF CallState
  <2>2. CASE pending' = pending /\ (Step(r, "sending") \/ Step(r, "sent"))
    BY <2>2, CallKeepsEntries DEF CallState
  <2> QED BY <1>5, <2>1, <2>2 DEF Acquire, WriteFrame, SendFails, SendRaises, WaitReturns
<1>6. ASSUME NEW r \in Requests, SendReturns(r)
      PROVE  EntriesInv'
  <2>1. r \in OneWay => r \notin Range(pending)
    BY DEF EntriesInv
  <2>2. pending' = pending /\ Step(r, IF r \in OneWay THEN "posted" ELSE "waiting")
    BY <1>6 DEF SendReturns
  <2> QED BY <2>1, <2>2, CallKeepsEntries DEF CallState
<1>7. ASSUME NEW r \in Requests, CancelSend(r) \/ Expire(r)
      PROVE  EntriesInv'
  <2>1. CASE CancelSend(r)
    <3>1. CallersStay => r \notin Range(pending)
      BY <2>1 DEF CancelSend, CallersStay, EntriesInv
    <3> QED BY <2>1, <3>1, CallKeepsEntries DEF CancelSend, CallState
  <2>2. CASE Expire(r)
    BY <2>2, CallKeepsEntries DEF Expire, CallState
  <2> QED BY <1>7, <2>1, <2>2
<1>8. ASSUME NEW t \in Tasks, Leave(t) \/ TaskStep(t) \/ CancelTask(t)
      PROVE  EntriesInv'
  BY <1>1, <1>2, <1>8 DEF Leave, Close, TaskStep, ReaderAwaited, SocketClosed, CancelTask
<1>9. CASE Connect \/ SocketOpened \/ Registered \/ ConnectFails
  BY <1>1, <1>2, <1>9 DEF Connect, SocketOpened, Registered, ConnectFails, Close
<1>10. CASE ReaderStarts \/ ReaderStops
  BY <1>1, <1>2, <1>10 DEF ReaderStarts, ReaderStops, ReaderFails
<1>11. CASE ReaderReceives
  <2> DEFINE m == Head(inbound)
  <2>1. CASE RouteResponse(m)
    <3>1. PICK i \in DOMAIN pending : pending' = RemoveAt(pending, i) /\ UNCHANGED call
      BY <2>1 DEF RouteResponse
    <3>2. i \in 1..Len(pending)
      BY LenProperties DEF TypeOK
    <3>3. IsInjective(pending') /\ Range(pending') \subseteq Range(pending)
      BY <3>1, <3>2, RemoveAtRange DEF TypeOK, EntriesInv
    <3> QED BY <3>1, <3>3, FewerKeepEntries
  <2>2. CASE KeepEvent(m)
    BY <1>1, <2>2 DEF KeepEvent
  <2> QED BY <1>11, <2>1, <2>2 DEF ReaderReceives
<1>12. ASSUME NEW l \in Listeners, AwaitEvent(l) \/ NextEvent(l)
       PROVE  EntriesInv'
  BY <1>1, <1>12 DEF AwaitEvent, NextEvent
<1>13. CASE DeviceRegisters \/ DeviceAnswers \/ DevicePushes \/ ConnectionLost
  BY <1>1, <1>13 DEF DeviceRegisters, DeviceAnswers, DevicePushes, ConnectionLost
<1>14. CASE UNCHANGED vars
  BY <1>1, <1>14 DEF vars
<1> QED
  BY <1>3, <1>4, <1>5, <1>6, <1>7, <1>8, <1>9, <1>10, <1>11, <1>12, <1>13, <1>14
  DEF Next, CallStep, ReaderStep

THEOREM EntriesAreTheCallers == Spec => []EntriesInv
<1>1. Init => EntriesInv
  BY DEF Init, EntriesInv, Range, IsInjective
<1> QED BY <1>1, EntriesStep, TypeCorrect, PTL DEF Spec

\* Unless a caller is cancelled before its request is out (GdsCancelledSender
\* shows what happens then), no response is spent on a call that has ended while
\* the call it belongs to still waits (_route_response).
THEOREM NoResponseIsWasted ==
    ASSUME CallersStay
    PROVE  Spec => ResponsesReachCallers
<1> DEFINE Spared == \A r \in Range(pending) :
              ReaderReceives /\ r \notin Range(pending') /\ Ended(r) => Ended(Head(inbound).of)
<1>1. EntriesInv => Spared
  BY DEF EntriesInv
<1>2. EntriesInv /\ [Next]_vars => [Spared]_vars
  BY <1>1
<1> QED BY <1>2, EntriesAreTheCallers, PTL DEF Spec, ResponsesReachCallers

-----------------------------------------------------------------------------
(***************************************************************************)
(* listen(): one task that waits for an event finds the end of its session *)
(* in the queue that it waits for.  Several would have to share one end.   *)
(***************************************************************************)
OneListener == Owner \notin Cancellable /\ \A l, m \in Listeners : l = m

HasEnd(g) == \E k \in DOMAIN events[g] : events[g][k] # "message"

\* Whoever closes a session, or fails to open one, says so in its queue.
ReleaseInv ==
    /\ reader # "none" => pc[Owner] = "inside"
    /\ gen = 0 => ws = 0 /\ pc[Owner] # "dialling"
    /\ \A l \in Listeners :
          /\ listener[l] \in {"getting", "between"} => gen # 0
          /\ listener[l] = "getting" => getting[l] \in 1 .. gen
          /\ listener[l] # "ended" =>
                \A g \in 1 .. gen : g < gen \/ (ws = 0 /\ pc[Owner] # "dialling") => HasEnd(g)

LEMMA PutKeepsEnds ==
    ASSUME TypeOK, NEW item \in {"message", "failure", "closed"}, Put(item), UNCHANGED gen
    PROVE  /\ \A g \in Gen : HasEnd(g) => HasEnd(g)'
           /\ item # "message" => HasEnd(gen)'
<1>1. gen \in Gen /\ events \in [Gen -> Seq({"message", "failure", "closed"})]
  BY DEF TypeOK
<1>2. \A g \in Gen \ {gen} : events'[g] = events[g]
  BY <1>1 DEF Put
<1>3. events'[gen] = Append(events[gen], item)
  BY <1>1 DEF Put
<1> DEFINE old == events[gen]
           new == Append(old, item)
<1>4. old \in Seq({"message", "failure", "closed"})
  BY <1>1
<1>5. \A k \in DOMAIN old : k \in DOMAIN new /\ new[k] = old[k]
  BY <1>4
<1>6. Len(old) + 1 \in DOMAIN new /\ new[Len(old) + 1] = item
  BY <1>4
<1> HIDE DEF new
<1>7. HasEnd(gen) => \E k \in DOMAIN new : new[k] # "message"
  BY <1>5 DEF HasEnd
<1>8. events'[gen] = new
  BY <1>3 DEF new
<1>9. HasEnd(gen) \/ item # "message" => \E k \in DOMAIN events'[gen] : events'[gen][k] # "message"
  BY <1>6, <1>7, <1>8
<1>10. \A g \in Gen : HasEnd(g) => \E k \in DOMAIN events'[g] : events'[g][k] # "message"
  BY <1>2, <1>9 DEF HasEnd
<1>11. item # "message" => \E k \in DOMAIN events'[gen] : events'[gen][k] # "message"
  BY <1>9
<1> QED BY <1>1, <1>10, <1>11 DEF HasEnd

\* What the tasks do: nothing takes an end off a queue, and a session is over with one.
LEMMA EndsStay ==
    ASSUME TypeOK, ReleaseInv, UNCHANGED <<gen, listener, getting>>,
           reader' # "none" => pc'[Owner] = "inside",
           gen = 0 => ws' = 0 /\ pc'[Owner] # "dialling",
           \A g \in Gen : HasEnd(g) => HasEnd(g)',
           (ws' = 0 /\ pc'[Owner] # "dialling") => (ws = 0 /\ pc[Owner] # "dialling") \/ HasEnd(gen)'
    PROVE  ReleaseInv'
<1>1. gen \in Gen
  BY DEF TypeOK
<1>2. ASSUME NEW l \in Listeners, listener[l] # "ended", NEW g \in 1 .. gen,
             g < gen \/ (ws' = 0 /\ pc'[Owner] # "dialling")
      PROVE  HasEnd(g)'
  <2>1. g \in Gen
    BY <1>1
  <2>2. CASE g < gen \/ (ws = 0 /\ pc[Owner] # "dialling")
    BY <1>2, <2>1, <2>2 DEF ReleaseInv
  <2>3. CASE g = gen /\ HasEnd(gen)'
    BY <2>3
  <2> QED BY <1>1, <1>2, <2>2, <2>3
<1> QED BY <1>2 DEF ReleaseInv

LEMMA QueuesStay ==
    ASSUME TypeOK, ReleaseInv, UNCHANGED <<gen, events, listener, getting>>,
           reader' # "none" => pc'[Owner] = "inside",
           gen = 0 => ws' = 0 /\ pc'[Owner] # "dialling",
           (ws' = 0 /\ pc'[Owner] # "dialling") => (ws = 0 /\ pc[Owner] # "dialling")
    PROVE  ReleaseInv'
<1>1. \A g \in Gen : HasEnd(g) => HasEnd(g)'
  BY DEF HasEnd
<1> QED BY <1>1, EndsStay

LEMMA ClosingSaysSo ==
    ASSUME TypeOK, ReleaseInv, NEW t \in Tasks, CloseSocket(t),
           reader' # "none" => pc[Owner] = "inside" /\ t # Owner
    PROVE  ReleaseInv'
<1>1. \A u \in Tasks : u # t => pc'[u] = pc[u]
  BY DEF TypeOK, CloseSocket, MoveTo
<1>2. pc'[t] \in {"shutting", "outside"} /\ UNCHANGED <<ws, gen, listener, getting>>
  BY DEF TypeOK, CloseSocket, MoveTo
<1>3. CASE ws # 0
  BY <1>1, <1>2, <1>3, QueuesStay DEF CloseSocket, ReleaseInv
<1>4. CASE ws = 0
  <2>1. Put("closed")
    BY <1>4 DEF CloseSocket
  <2>2. HasEnd(gen)' /\ \A g \in Gen : HasEnd(g) => HasEnd(g)'
    BY <1>2, <2>1, PutKeepsEnds
  <2> QED BY <1>1, <1>2, <2>2, EndsStay DEF ReleaseInv
<1> QED BY <1>3, <1>4

LEMMA CloseSaysSo ==
    ASSUME TypeOK, ReleaseInv, NEW t \in Tasks, Close(t)
    PROVE  ReleaseInv'
<1>1. reader' = "none"
  BY DEF Close
<1>2. CASE CloseSocket(t)
  BY <1>1, <1>2, ClosingSaysSo
<1>3. CASE /\ reader \in {"start", "recv", "orphaned", "crashed"}
           /\ MoveTo(t, IF reader = "crashed" THEN "outside" ELSE "closing")
           /\ UNCHANGED <<ws, gen, eventVars, wireVars>>
  <2>1. pc[Owner] = "inside"
    BY <1>3 DEF ReleaseInv
  <2>2. pc'[Owner] # "dialling"
    BY <1>3, <2>1 DEF TypeOK, MoveTo
  <2> QED BY <1>1, <1>3, <2>1, <2>2, QueuesStay DEF eventVars, ReleaseInv
<1> QED BY <1>2, <1>3 DEF Close

LEMMA ListenerKeepsRelease ==
    ASSUME OneListener, TypeOK, ReleaseInv, NEW l \in Listeners, AwaitEvent(l) \/ NextEvent(l)
    PROVE  ReleaseInv'
<1> USE DEF callVars, connVars, wireVars
<1>1. UNCHANGED <<ws, gen, reader, pc>> /\ Listeners = {l} /\ gen \in Gen
  BY DEF AwaitEvent, NextEvent, OneListener, TypeOK
<1>2. CASE AwaitEvent(l)
  <2>1. gen # 0
    BY <1>2 DEF AwaitEvent, Connected, ReleaseInv
  <2>2. listener[l] # "ended" /\ listener'[l] = "getting" /\ getting'[l] = gen /\ UNCHANGED events
    BY <1>2 DEF AwaitEvent, TypeOK
  <2>3. \A g \in Gen : HasEnd(g) => HasEnd(g)'
    BY <2>2 DEF HasEnd
  <2>4. gen \in 1 .. gen
    BY <1>1, <2>1
  <2>5. \A g \in 1 .. gen : g < gen \/ (ws = 0 /\ pc[Owner] # "dialling") => HasEnd(g)'
    BY <1>1, <2>2, <2>3 DEF ReleaseInv
  <2> QED BY <1>1, <2>1, <2>2, <2>4, <2>5 DEF ReleaseInv
<1>3. CASE NextEvent(l)
  <2> DEFINE n == getting[l]
  <2>1. listener[l] = "getting" /\ n \in 1 .. gen /\ gen # 0
    BY <1>3 DEF NextEvent, ReleaseInv
  <2>2. n \in Gen /\ events[n] # <<>> /\ events[n] \in Seq({"message", "failure", "closed"})
    BY <1>1, <1>3, <2>1 DEF NextEvent, TypeOK
  <2>3. events'[n] = Tail(events[n]) /\ \A g \in Gen \ {n} : events'[g] = events[g]
    BY <1>3, <2>2 DEF NextEvent, TypeOK
  <2>4. CASE Head(events[n]) = "message"
    <3>1. listener'[l] = "between"
      BY <1>3, <2>4 DEF NextEvent, TypeOK
    <3>2. HasEnd(n) => \E k \in DOMAIN events'[n] : events'[n][k] # "message"
      <4> SUFFICES ASSUME NEW k \in DOMAIN events[n], events[n][k] # "message"
                   PROVE  \E j \in DOMAIN events'[n] : events'[n][j] # "message"
        BY DEF HasEnd
      <4>1. k \in 2 .. Len(events[n])
        BY <2>2, <2>4
      <4>2. k - 1 \in DOMAIN Tail(events[n]) /\ Tail(events[n])[k - 1] = events[n][k]
        BY <2>2, <4>1
      <4> QED BY <2>3, <4>2
    <3>3. \A g \in Gen : HasEnd(g) => \E k \in DOMAIN events'[g] : events'[g][k] # "message"
      BY <2>3, <3>2 DEF HasEnd
    <3>4. \A g \in Gen : HasEnd(g) => HasEnd(g)'
      BY <3>3 DEF HasEnd
    <3>5. \A g \in 1 .. gen : g < gen \/ (ws = 0 /\ pc[Owner] # "dialling") => HasEnd(g)'
      BY <1>1, <2>1, <3>4 DEF ReleaseInv
    <3> QED BY <1>1, <2>1, <3>1, <3>5 DEF ReleaseInv
  <2>5. CASE Head(events[n]) # "message"
    <3>1. listener'[l] = "ended"
      BY <1>3, <2>5 DEF NextEvent, TypeOK
    <3> QED BY <1>1, <3>1 DEF ReleaseInv
  <2> QED BY <2>4, <2>5
<1> QED BY <1>2, <1>3

LEMMA ReleaseStep == OneListener /\ TypeOK /\ ReleaseInv /\ [Next]_vars => ReleaseInv'
<1> SUFFICES ASSUME OneListener, TypeOK, ReleaseInv, [Next]_vars
             PROVE  ReleaseInv'
  OBVIOUS
<1> USE DEF callVars, connVars, eventVars, wireVars
<1>1. ASSUME UNCHANGED <<connVars, eventVars>>
      PROVE  ReleaseInv'
  BY <1>1, QueuesStay DEF ReleaseInv
<1>2. ASSUME NEW r \in Requests,
             SendRequest(r) \/ Restart(r) \/ CallStep(r) \/ CancelSend(r) \/ Expire(r)
      PROVE  ReleaseInv'
  BY <1>1, <1>2 DEF SendRequest, Restart, CallStep, Acquire, WriteFrame, SendReturns, SendFails,
                    WaitReturns, CancelSend, Expire
<1>3. ASSUME NEW t \in Tasks, Leave(t)
      PROVE  ReleaseInv'
  BY <1>3, CloseSaysSo DEF Leave
<1>4. ASSUME NEW t \in Tasks, ReaderAwaited(t)
      PROVE  ReleaseInv'
  <2>1. CloseSocket(t) /\ reader' = reader /\ pc[t] = "closing"
    BY <1>4 DEF ReaderAwaited
  <2> QED BY <2>1, ClosingSaysSo DEF ReleaseInv
<1>5. ASSUME NEW t \in Tasks, SocketClosed(t)
      PROVE  ReleaseInv'
  <2>1. Put("closed") /\ ws' = 0 /\ UNCHANGED <<gen, reader, listener, getting>>
    BY <1>5 DEF SocketClosed
  <2>2. pc[t] = "shutting" /\ pc'[t] = "outside" /\ \A u \in Tasks : u # t => pc'[u] = pc[u]
    BY <1>5 DEF TypeOK, SocketClosed, MoveTo
  <2>3. HasEnd(gen)' /\ \A g \in Gen : HasEnd(g) => HasEnd(g)'
    BY <2>1, PutKeepsEnds
  <2> QED BY <2>1, <2>2, <2>3, EndsStay DEF ReleaseInv
<1>6. ASSUME NEW t \in Tasks, CancelTask(t)
      PROVE  ReleaseInv'
  <2>1. t # Owner /\ pc'[Owner] = pc[Owner] /\ UNCHANGED <<ws, gen, reader, eventVars>>
    BY <1>6 DEF TypeOK, CancelTask, MoveTo, OneListener
  <2> QED BY <2>1, QueuesStay DEF ReleaseInv
<1>7. CASE Connect
  <2>1. /\ gen' = gen + 1 /\ gen \in Nat /\ UNCHANGED <<ws, reader, listener, getting, events>>
        /\ ws = 0 /\ pc[Owner] = "outside" /\ pc'[Owner] = "dialling" /\ reader = "none"
    BY <1>7 DEF TypeOK, Connect, MoveTo, ReleaseInv
  <2>2. \A g \in 1 .. gen : HasEnd(g) => HasEnd(g)'
    BY <2>1 DEF HasEnd
  <2>3. ASSUME NEW l \in Listeners, listener[l] # "ended", NEW g \in 1 .. gen', g < gen'
        PROVE  HasEnd(g)'
    <3>1. g \in 1 .. gen
      BY <2>1, <2>3
    <3> QED BY <2>1, <2>2, <2>3, <3>1 DEF ReleaseInv
  <2>4. \A l \in Listeners : listener[l] = "getting" => getting[l] \in 1 .. gen'
    BY <2>1 DEF ReleaseInv
  <2> QED BY <2>1, <2>3, <2>4 DEF ReleaseInv
<1>8. CASE SocketOpened
  <2>1. /\ ws' = gen /\ UNCHANGED <<gen, reader, eventVars>>
        /\ pc[Owner] = "dialling" /\ pc'[Owner] = "registering"
    BY <1>8 DEF TypeOK, SocketOpened, MoveTo
  <2>2. gen # 0 /\ reader = "none"
    BY <2>1 DEF ReleaseInv
  <2> QED BY <2>1, <2>2, QueuesStay
<1>9. CASE Registered
  <2>1. /\ UNCHANGED <<ws, gen, eventVars>>
        /\ pc[Owner] = "registering" /\ pc'[Owner] = "inside"
    BY <1>9 DEF TypeOK, Registered, MoveTo
  <2> QED BY <2>1, QueuesStay DEF ReleaseInv
<1>10. CASE ConnectFails
  BY <1>10, CloseSaysSo DEF ConnectFails
<1>11. CASE ReaderStep
  <2>1. reader # "none" /\ UNCHANGED <<ws, gen, pc, listener, getting>>
    BY <1>11 DEF ReaderStep, ReaderStarts, ReaderReceives, ReaderStops, ReaderFails
  <2>2. UNCHANGED events \/ \E item \in {"message", "failure", "closed"} : Put(item)
    BY <1>11 DEF ReaderStep, ReaderStarts, ReaderReceives, ReaderStops, ReaderFails, RouteResponse,
                 KeepEvent
  <2>3. CASE UNCHANGED events
    BY <2>1, <2>3, QueuesStay DEF ReleaseInv
  <2>4. ASSUME NEW item \in {"message", "failure", "closed"}, Put(item)
        PROVE  ReleaseInv'
    <3>1. \A g \in Gen : HasEnd(g) => HasEnd(g)'
      BY <2>1, <2>4, PutKeepsEnds
    <3> QED BY <2>1, <3>1, EndsStay DEF ReleaseInv
  <2> QED BY <2>2, <2>3, <2>4
<1>12. ASSUME NEW l \in Listeners, AwaitEvent(l) \/ NextEvent(l)
       PROVE  ReleaseInv'
  BY <1>12, ListenerKeepsRelease
<1>13. CASE DeviceRegisters \/ DeviceAnswers \/ DevicePushes \/ ConnectionLost \/ UNCHANGED vars
  BY <1>1, <1>13 DEF DeviceRegisters, DeviceAnswers, DevicePushes, ConnectionLost, vars
<1> QED
  BY <1>2, <1>3, <1>4, <1>5, <1>6, <1>7, <1>8, <1>9, <1>10, <1>11, <1>12, <1>13 DEF Next, TaskStep

\* listen() "runs until the connection closes": where ListenersReleased begins, with nobody
\* else listening, the end of the session is in the queue that the listener waits for, behind
\* however many messages (close, _reader_loop, next_event).
THEOREM ReleaseIsQueued ==
    ASSUME OneListener
    PROVE  Spec => [](\A l \in Listeners :
                         listener[l] = "getting" /\ ws = 0 /\ (\A t \in Tasks : pc[t] = "outside")
                             => HasEnd(getting[l]))
<1> DEFINE Released == \A l \in Listeners :
                         listener[l] = "getting" /\ ws = 0 /\ (\A t \in Tasks : pc[t] = "outside")
                             => HasEnd(getting[l])
<1>1. Init => ReleaseInv
  BY DEF Init, ReleaseInv
<1>2. ReleaseInv => Released
  BY DEF ReleaseInv
<1>3. TypeOK /\ ReleaseInv /\ [Next]_vars => ReleaseInv'
  BY ReleaseStep
<1> HIDE DEF Released
<1>4. Spec => []Released
  BY <1>1, <1>2, <1>3, TypeCorrect, PTL DEF Spec
<1> QED BY <1>4 DEF Released

-----------------------------------------------------------------------------
(***************************************************************************)
(* A call takes six steps at most, and the lock is never held by a call    *)
(* that has none left.                                                     *)
(***************************************************************************)
Progress == [idle |-> 0, locking |-> 1, sending |-> 2, sent |-> 3, waiting |-> 4, expired |-> 5,
             answered |-> 6, failed |-> 6, posted |-> 6]

\* The next step of r's own task, whatever the socket does.
CanGo(r) ==
    \/ call[r] = "locking" /\ Head(lockq) = r
    \/ call[r] \in {"sending", "sent", "expired"}
    \/ call[r] = "waiting" /\ future[r] # "open"

NoCallIsStuck ==
    \A r \in Requests :
        \/ call[r] = "idle" \/ Ended(r)
        \/ CanGo(r)
        \/ call[r] = "waiting" /\ future[r] = "open"
        \/ call[r] = "locking" /\ Head(lockq) \in Requests /\ CanGo(Head(lockq))

CallsAdvance == \A r \in Requests : call'[r] = call[r] \/ Progress[call'[r]] > Progress[call[r]]

LEMMA OneCallAdvances ==
    ASSUME TypeOK, NEW r \in Requests, NEW where \in CallState, Step(r, where),
           Progress[where] > Progress[call[r]]
    PROVE  CallsAdvance
BY DEF TypeOK, Step, CallsAdvance

LEMMA StepAdvances == TypeOK /\ [Next]_vars => [CallsAdvance]_vars
<1> SUFFICES ASSUME TypeOK, Next PROVE CallsAdvance
  BY DEF CallsAdvance
<1>1. ASSUME UNCHANGED call PROVE CallsAdvance
  BY <1>1 DEF CallsAdvance
<1>2. ASSUME NEW r \in Requests, call[r] \in {"idle", "locking", "sending", "sent"}, Step(r, "failed")
      PROVE  CallsAdvance
  BY <1>2, OneCallAdvances DEF Progress, CallState
<1>3. ASSUME NEW r \in Requests, call[r] = "idle", EnterLock(r)
      PROVE  CallsAdvance
  BY <1>3, OneCallAdvances DEF EnterLock, Progress, CallState
<1>4. ASSUME NEW r \in Requests, SendRequest(r) \/ Restart(r)
      PROVE  CallsAdvance
  BY <1>2, <1>3, <1>4 DEF SendRequest, Restart
<1>5. ASSUME NEW r \in Requests, Acquire(r) \/ SendFails(r) \/ CancelSend(r)
      PROVE  CallsAdvance
  <2>1. CASE Step(r, "failed") /\ call[r] \in {"locking", "sending", "sent"}
    BY <1>2, <2>1
  <2>2. CASE Step(r, "sending") /\ call[r] = "locking"
    BY <2>2, OneCallAdvances DEF Progress, CallState
  <2> QED BY <1>5, <2>1, <2>2 DEF Acquire, SendFails, SendRaises, CancelSend
<1>6. ASSUME NEW r \in Requests, WriteFrame(r)
      PROVE  CallsAdvance
  BY <1>6, OneCallAdvances DEF WriteFrame, Progress, CallState
<1>7. ASSUME NEW r \in Requests, SendReturns(r)
      PROVE  CallsAdvance
  BY <1>7, OneCallAdvances DEF SendReturns, Progress, CallState
<1>8. ASSUME NEW r \in Requests, Expire(r) \/ WaitReturns(r)
      PROVE  CallsAdvance
  BY <1>8, OneCallAdvances DEF Expire, WaitReturns, Progress, CallState
<1>9. ASSUME NEW t \in Tasks, Leave(t) \/ TaskStep(t) \/ CancelTask(t)
      PROVE  CallsAdvance
  BY <1>1, <1>9 DEF Leave, Close, FailPending, TaskStep, ReaderAwaited, SocketClosed, CancelTask,
                    callVars
<1>10. CASE Connect \/ SocketOpened \/ Registered \/ ConnectFails
  BY <1>1, <1>10 DEF Connect, SocketOpened, Registered, ConnectFails, Close, FailPending, callVars
<1>11. CASE ReaderStep
  BY <1>1, <1>11 DEF ReaderStep, ReaderStarts, ReaderReceives, ReaderStops, ReaderFails, FailPending,
                     RouteResponse, KeepEvent, callVars
<1>12. ASSUME NEW l \in Listeners, AwaitEvent(l) \/ NextEvent(l)
       PROVE  CallsAdvance
  BY <1>1, <1>12 DEF AwaitEvent, NextEvent, callVars
<1>13. CASE DeviceRegisters \/ DeviceAnswers \/ DevicePushes \/ ConnectionLost
  BY <1>1, <1>13 DEF DeviceRegisters, DeviceAnswers, DevicePushes, ConnectionLost, callVars
<1> QED
  BY <1>4, <1>5, <1>6, <1>7, <1>8, <1>9, <1>10, <1>11, <1>12, <1>13 DEF Next, CallStep

\* Whoever is cancelled, however often the connection is lost or closed: a call that has not
\* ended and does not wait for its response has a step to take, or the call that holds the
\* lock has; and every step of a call leads on, so six of them end it (_send_request,
\* _send_message).
THEOREM CallsGoOn == Spec => []NoCallIsStuck /\ [][CallsAdvance]_vars
<1>1. TypeOK /\ LockInv => NoCallIsStuck
  <2> SUFFICES ASSUME TypeOK, LockInv, NEW r \in Requests, call[r] \notin {"idle", "waiting"},
                      ~Ended(r), ~CanGo(r)
               PROVE  call[r] = "locking" /\ Head(lockq) \in Requests /\ CanGo(Head(lockq))
    BY DEF NoCallIsStuck, CanGo
  <2>1. call[r] = "locking" /\ AtLock(r)
    BY DEF TypeOK, CallState, CanGo, Ended, AtLock
  <2>2. r \in Range(lockq) /\ lockq \in Seq(Requests)
    BY <2>1 DEF LockInv, TypeOK
  <2>3. lockq # <<>> /\ Head(lockq) \in Requests /\ Head(lockq) \in Range(lockq)
    BY <2>2 DEF Range
  <2>4. AtLock(Head(lockq))
    BY <2>3 DEF LockInv
  <2> QED BY <2>1, <2>3, <2>4 DEF AtLock, CanGo
<1> QED BY <1>1, StepAdvances, TheLockQueue, TypeCorrect, PTL DEF Spec
=============================================================================
