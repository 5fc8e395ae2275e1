------------------------ MODULE GdsCorrelationProofs ------------------------
(***************************************************************************)
(* GdsSession implements GdsCorrelation.  The invariant behind it follows  *)
(* a response from the request on the device's list to the future of one   *)
(* caller: it is at one place at a time, and never comes back.             *)
(***************************************************************************)
EXTENDS GdsSessionProofs

Written(s) == call[s] \in {"sent", "waiting", "expired", "answered", "failed", "posted"}

\* The response to s has not been given to anybody yet.
Fresh(s) == s \in Requests \ OneWay /\ Written(s) /\ \A r \in Requests : future[r] # s

\* A future holds a response to a request that was sent, and no other future does.
FutureInv ==
    /\ \A r \in Requests : future[r] \in Requests =>
          /\ future[r] \notin OneWay /\ Written(future[r])
          /\ EchoOf[future[r]] \cap Matches[r] # {}
    /\ \A r, q \in Requests : future[r] = future[q] /\ future[r] \in Requests => r = q
    /\ \A r \in Requests : call[r] = "answered" => future[r] \in Requests

DueInv == IsInjective(due) /\ \A s \in Range(due) : Fresh(s)

InboundInv ==
    /\ \A i \in DOMAIN inbound : inbound[i].type = "response" =>
          /\ Fresh(inbound[i].of) /\ inbound[i].of \notin Range(due)
          /\ inbound[i].echo \in EchoOf[inbound[i].of]
    /\ \A i, j \in DOMAIN inbound :
          inbound[i].type = "response" /\ inbound[j].type = "response" /\ inbound[i].of = inbound[j].of
          => i = j

ResponseInv == FutureInv /\ DueInv /\ InboundInv

USE RequestsAssumption DEF Outcome, callVars, connVars, eventVars, wireVars

-----------------------------------------------------------------------------
(* Steps of the calls. *)

\* What the steps of a call may do to it.
LEMMA WrittenStaysWritten ==
    ASSUME TypeOK, [Next]_vars
    PROVE  \A s \in Requests : Written(s) => Written(s)'
<1>1. ASSUME NEW r \in Requests, NEW where, Step(r, where),
             Written(r) => where \in {"sent", "waiting", "expired", "answered", "failed", "posted"}
      PROVE  \A s \in Requests : Written(s) => Written(s)'
  BY <1>1 DEF TypeOK, Written, Step
<1>2. ASSUME NEW r \in Requests, SendRequest(r) \/ Restart(r) \/ Acquire(r)
      PROVE  \A s \in Requests : Written(s) => Written(s)'
  BY <1>1, <1>2 DEF SendRequest, Restart, Acquire, EnterLock, SendRaises, Written
<1>3. ASSUME NEW r \in Requests, WriteFrame(r) \/ SendReturns(r) \/ SendFails(r)
      PROVE  \A s \in Requests : Written(s) => Written(s)'
  BY <1>1, <1>3 DEF WriteFrame, SendReturns, SendFails, SendRaises
<1>4. ASSUME NEW r \in Requests, WaitReturns(r) \/ CancelSend(r) \/ Expire(r)
      PROVE  \A s \in Requests : Written(s) => Written(s)'
  BY <1>1, <1>4 DEF WaitReturns, CancelSend, Expire
<1>5. ASSUME UNCHANGED call
      PROVE  \A s \in Requests : Written(s) => Written(s)'
  BY <1>5 DEF Written
<1>6. ASSUME NEW t \in Tasks, Leave(t) \/ TaskStep(t) \/ CancelTask(t)
      PROVE  UNCHANGED call
  BY <1>6 DEF Leave, Close, FailPending, TaskStep, ReaderAwaited, SocketClosed, CancelTask
<1>7. CASE Connect \/ SocketOpened \/ Registered \/ ConnectFails
  BY <1>5, <1>7 DEF Connect, SocketOpened, Registered, ConnectFails, Close, FailPending
<1>8. CASE ReaderStep
  BY <1>5, <1>8 DEF ReaderStep, ReaderStarts, ReaderReceives, RouteResponse, KeepEvent,
                    ReaderStops, ReaderFails, FailPending
<1>9. ASSUME NEW l \in Listeners, AwaitEvent(l) \/ NextEvent(l)
      PROVE  UNCHANGED call
  BY <1>9 DEF AwaitEvent, NextEvent
<1>10. CASE DeviceRegisters \/ DeviceAnswers \/ DevicePushes \/ ConnectionLost
  BY <1>5, <1>10 DEF DeviceRegisters, DeviceAnswers, DevicePushes, ConnectionLost
<1>11. CASE UNCHANGED vars
  BY <1>5, <1>11 DEF vars
<1> QED
  BY <1>2, <1>3, <1>4, <1>5, <1>6, <1>7, <1>8, <1>9, <1>10, <1>11 DEF Next, CallStep

\* No step but RouteResponse puts a response into a future.
NoNewReply == \A q \in Requests : future'[q] \in Requests \/ future[q] \in Requests
                                     => future'[q] = future[q]

LEMMA FreshStaysFresh ==
    ASSUME TypeOK, [Next]_vars, NoNewReply
    PROVE  \A s \in Requests : Fresh(s) => Fresh(s)'
BY WrittenStaysWritten DEF Fresh, NoNewReply

LEMMA FutureStep ==
    ASSUME TypeOK, [Next]_vars, FutureInv, NoNewReply,
           \A r \in Requests : call'[r] = "answered" => future[r] \in Requests
    PROVE  FutureInv'
BY WrittenStaysWritten DEF FutureInv, NoNewReply

LEMMA DueStep ==
    ASSUME TypeOK, [Next]_vars, DueInv, NoNewReply, due' = due \/ due' = <<>>
    PROVE  DueInv' /\ Range(due') \subseteq Range(due)
<1>1. IsInjective(<<>>) /\ Range(<<>>) = {}
  BY DEF IsInjective, Range
<1>2. Range(due) \subseteq Requests
  BY ElementOfSeq, LenProperties DEF TypeOK, Range
<1> QED BY <1>1, <1>2, FreshStaysFresh DEF DueInv

\* What is left of the inbound frames, and frames that are no responses.
LEMMA InboundStep ==
    ASSUME TypeOK, [Next]_vars, InboundInv, NoNewReply, Range(due') \subseteq Range(due),
           \/ inbound' = inbound \/ inbound' = <<>>
           \/ inbound # <<>> /\ inbound' = Tail(inbound)
           \/ \E m \in Message : m.type # "response" /\ inbound' = Append(inbound, m)
    PROVE  InboundInv'
<1>1. \A i \in DOMAIN inbound : inbound[i] \in Message
  BY ElementOfSeq, LenProperties DEF TypeOK
<1>2. \A m \in Message : m.type = "response" => m.of \in Requests
  BY DEF Message
<1>3. ASSUME NEW k \in {0, 1}, inbound' \in Seq(Message),
             \A i \in DOMAIN inbound' : inbound'[i].type = "response" =>
                i + k \in DOMAIN inbound /\ inbound'[i] = inbound[i + k]
      PROVE  InboundInv'
  <2>1. \A i \in DOMAIN inbound' : i \in Nat
    BY <1>3, LenProperties
  <2>2. ASSUME NEW i \in DOMAIN inbound', inbound'[i].type = "response"
        PROVE  LET s == inbound'[i].of
               IN  /\ s \in Requests /\ Fresh(s) /\ s \notin Range(due)
                   /\ inbound'[i].echo \in EchoOf[s]
    BY <1>1, <1>2, <1>3, <2>2 DEF InboundInv
  <2>3. ASSUME NEW i \in DOMAIN inbound', NEW j \in DOMAIN inbound',
               inbound'[i].type = "response", inbound'[j].type = "response",
               inbound'[i].of = inbound'[j].of
        PROVE  i = j
    <3>1. i + k = j + k
      BY <1>3, <2>3 DEF InboundInv
    <3> QED BY <2>1, <3>1
  <2>4. ASSUME NEW s \in Requests, Fresh(s)
        PROVE  Fresh(s)'
    BY <2>4, FreshStaysFresh
  <2>5. (\A i \in DOMAIN inbound : inbound[i].type = "response" =>
           /\ Fresh(inbound[i].of) /\ inbound[i].of \notin Range(due)
           /\ inbound[i].echo \in EchoOf[inbound[i].of])'
    <3> SUFFICES ASSUME NEW i \in DOMAIN inbound', inbound'[i].type = "response"
                 PROVE  (/\ Fresh(inbound[i].of) /\ inbound[i].of \notin Range(due)
                         /\ inbound[i].echo \in EchoOf[inbound[i].of])'
      OBVIOUS
    <3>1. PICK s \in Requests : /\ s = inbound'[i].of /\ Fresh(s) /\ s \notin Range(due)
                               /\ inbound'[i].echo \in EchoOf[s]
      BY <2>2
    <3>2. Fresh(s)'
      BY <2>4, <3>1
    <3> QED BY <3>1, <3>2 DEF Fresh, Written
  <2> QED BY <2>3, <2>5 DEF InboundInv
<1>4. CASE inbound' = inbound
  <2>1. inbound \in Seq(Message) /\ \A i \in DOMAIN inbound : i \in Nat
    BY LenProperties DEF TypeOK
  <2> QED BY <1>3, <1>4, <2>1
<1>5. CASE inbound' = <<>>
  BY <1>3, <1>5, EmptySeq
<1>6. CASE inbound # <<>> /\ inbound' = Tail(inbound)
  <2>1. inbound \in Seq(Message)
    BY DEF TypeOK
  <2>2. /\ Tail(inbound) \in Seq(Message)
        /\ \A i \in DOMAIN Tail(inbound) :
              i + 1 \in DOMAIN inbound /\ Tail(inbound)[i] = inbound[i + 1]
    BY <1>6, <2>1, TailRange
  <2> QED BY <1>3, <1>6, <2>2
<1>7. ASSUME NEW m \in Message, m.type # "response", inbound' = Append(inbound, m)
      PROVE  InboundInv'
  <2>1. inbound \in Seq(Message)
    BY DEF TypeOK
  <2>2. /\ inbound' \in Seq(Message) /\ Len(inbound') = Len(inbound) + 1
        /\ \A i \in 1..Len(inbound) : inbound'[i] = inbound[i]
        /\ inbound'[Len(inbound) + 1] = m
    BY <1>7, <2>1, AppendProperties
  <2>3. /\ DOMAIN inbound = 1..Len(inbound) /\ Len(inbound) \in Nat
        /\ DOMAIN inbound' = 1..(Len(inbound) + 1)
    BY <2>1, <2>2, LenProperties
  <2>4. \A i \in DOMAIN inbound' : inbound'[i].type = "response" =>
           i + 0 \in DOMAIN inbound /\ inbound'[i] = inbound[i + 0]
    <3> SUFFICES ASSUME NEW i \in DOMAIN inbound', inbound'[i].type = "response"
                 PROVE  i + 0 \in DOMAIN inbound /\ inbound'[i] = inbound[i + 0]
      OBVIOUS
    <3>1. i # Len(inbound) + 1
      BY <1>7, <2>2
    <3>2. i \in 1..(Len(inbound) + 1)
      BY <2>3
    <3>3. i \in 1..Len(inbound) /\ i + 0 = i
      BY <2>1, <3>1, <3>2, LenProperties
    <3> QED BY <2>2, <2>3, <3>3
  <2> QED BY <1>3, <2>2, <2>4
<1> QED BY <1>4, <1>5, <1>6, <1>7

\* The steps in which no response moves from one place to the next.
LEMMA QuietStep ==
    ASSUME TypeOK, [Next]_vars, ResponseInv, NoNewReply, due' = due \/ due' = <<>>,
           \A r \in Requests : call'[r] = "answered" => future[r] \in Requests,
           \/ inbound' = inbound \/ inbound' = <<>>
           \/ inbound # <<>> /\ inbound' = Tail(inbound)
           \/ \E m \in Message : m.type # "response" /\ inbound' = Append(inbound, m)
    PROVE  ResponseInv'
<1>1. FutureInv'
  BY FutureStep DEF ResponseInv
<1>2. DueInv' /\ Range(due') \subseteq Range(due)
  BY DueStep DEF ResponseInv
<1>3. InboundInv'
  BY <1>2, InboundStep DEF ResponseInv
<1> QED BY <1>1, <1>2, <1>3 DEF ResponseInv

-----------------------------------------------------------------------------
(* The three steps that move a response: to the device's list, from there to *)
(* the socket, from there to a future.                                       *)

LEMMA WriteFrameKeepsResponses ==
    ASSUME TypeOK, ResponseInv, [Next]_vars, NEW r \in Requests, WriteFrame(r)
    PROVE  ResponseInv'
<1>1. UNCHANGED <<future, inbound>> /\ Step(r, "sent") /\ call[r] = "sending"
  BY DEF WriteFrame
<1>2. NoNewReply /\ \A q \in Requests : call'[q] = "answered" => future[q] \in Requests
  BY <1>1 DEF NoNewReply, Step, TypeOK, ResponseInv, FutureInv
<1>3. CASE due' = due
  BY <1>1, <1>2, <1>3, QuietStep
<1>4. CASE r \notin OneWay /\ due' = Append(due, r)
  <2>1. ~Written(r)
    BY <1>1 DEF Written
  <2>2. r \notin Range(due) /\ \A q \in Requests : future[q] # r
    BY <2>1 DEF ResponseInv, FutureInv, DueInv, Fresh
  <2>3. IsInjective(due') /\ Range(due') = Range(due) \cup {r}
    BY <1>4, <2>2, AppendRange DEF TypeOK, ResponseInv, DueInv
  <2>4. Fresh(r)'
    BY <1>1, <1>4, <2>2 DEF Fresh, Written, Step, TypeOK
  <2>5. \A q \in Range(due) : q \in Requests
    BY DEF ResponseInv, DueInv, Fresh
  <2>6. DueInv'
    BY <1>2, <2>3, <2>4, <2>5, FreshStaysFresh DEF ResponseInv, DueInv
  <2>7. FutureInv'
    BY <1>2, FutureStep DEF ResponseInv
  <2>8. \A i \in DOMAIN inbound : inbound[i].type = "response" =>
           /\ inbound[i].of \in Requests /\ inbound[i].of # r
           /\ inbound[i].of \notin Range(due')
    BY <2>1, <2>3 DEF ResponseInv, InboundInv, Fresh
  <2>9. \A i \in DOMAIN inbound : inbound[i].type = "response" => Fresh(inbound[i].of)'
    BY <1>1, <1>2, <2>8, WrittenStaysWritten DEF ResponseInv, InboundInv, Fresh, Written
  <2>10. InboundInv'
    BY <1>1, <2>8, <2>9 DEF ResponseInv, InboundInv
  <2> QED BY <2>6, <2>7, <2>10 DEF ResponseInv
<1> QED BY <1>3, <1>4 DEF WriteFrame

LEMMA DeviceAnswersKeepsResponses ==
    ASSUME TypeOK, ResponseInv, [Next]_vars, DeviceAnswers
    PROVE  ResponseInv'
<1> USE DEF callVars
<1>1. PICK i \in DOMAIN due, e \in Echoes :
          /\ e \in EchoOf[due[i]] /\ due' = RemoveAt(due, i)
          /\ inbound' = Append(inbound, [type |-> "response", of |-> due[i], echo |-> e])
  BY DEF DeviceAnswers
<1> DEFINE s == due[i]
           m == [type |-> "response", of |-> s, echo |-> e]
<1>2. UNCHANGED <<call, future>>
  BY DEF DeviceAnswers
<1>3. i \in 1..Len(due) /\ s \in Range(due) /\ Fresh(s) /\ s \in Requests
  BY LenProperties DEF TypeOK, Range, ResponseInv, DueInv, Fresh
<1>4. /\ IsInjective(due') /\ Range(due') \subseteq Range(due) /\ s \notin Range(due')
  BY <1>1, <1>3, RemoveAtRange DEF TypeOK, ResponseInv, DueInv
<1>5. FutureInv' /\ DueInv'
  BY <1>2, <1>4 DEF ResponseInv, FutureInv, DueInv, Fresh, Written
<1>6. m \in Message /\ inbound \in Seq(Message)
  BY <1>3 DEF Message, TypeOK
<1>7. /\ Len(inbound') = Len(inbound) + 1 /\ inbound'[Len(inbound) + 1] = m
      /\ \A j \in 1..Len(inbound) : inbound'[j] = inbound[j]
      /\ DOMAIN inbound = 1..Len(inbound) /\ DOMAIN inbound' = 1..(Len(inbound) + 1)
      /\ Len(inbound) \in Nat
  BY <1>1, <1>6, AppendProperties, LenProperties
<1>8. \A j \in DOMAIN inbound' : j = Len(inbound) + 1 \/ j \in DOMAIN inbound
  BY <1>7
<1>9. \A j \in DOMAIN inbound : inbound[j].type = "response" =>
         inbound[j].of # s /\ inbound[j].of \notin Range(due')
  BY <1>3, <1>4 DEF ResponseInv, InboundInv
<1>10. \A j \in DOMAIN inbound' : inbound'[j].type = "response" =>
         /\ Fresh(inbound'[j].of) /\ inbound'[j].of \notin Range(due')
         /\ inbound'[j].echo \in EchoOf[inbound'[j].of]
  BY <1>1, <1>3, <1>4, <1>7, <1>8, <1>9 DEF ResponseInv, InboundInv
<1>11. ASSUME NEW j \in DOMAIN inbound', NEW k \in DOMAIN inbound',
              inbound'[j].type = "response", inbound'[k].type = "response",
              inbound'[j].of = inbound'[k].of
       PROVE  j = k
  BY <1>7, <1>8, <1>9, <1>11 DEF ResponseInv, InboundInv
<1>12. InboundInv'
  BY <1>2, <1>10, <1>11 DEF InboundInv, Fresh, Written
<1> QED BY <1>5, <1>12 DEF ResponseInv

LEMMA ReaderReceivesKeepsResponses ==
    ASSUME TypeOK, ResponseInv, [Next]_vars, ReaderReceives
    PROVE  ResponseInv'
<1> USE DEF callVars
<1> DEFINE m == Head(inbound)
<1>1. /\ inbound # <<>> /\ inbound' = Tail(inbound) /\ due' = due /\ call' = call
  BY DEF ReaderReceives, RouteResponse, KeepEvent
<1>2. CASE KeepEvent(m)
  <2>1. NoNewReply /\ \A q \in Requests : call'[q] = "answered" => future[q] \in Requests
    BY <1>1, <1>2 DEF KeepEvent, NoNewReply, ResponseInv, FutureInv
  <2> QED BY <1>1, <2>1, QuietStep
<1>3. CASE RouteResponse(m)
  <2>1. PICK i \in DOMAIN pending :
            /\ Hit(m, pending[i])
            /\ future' = [future EXCEPT ![pending[i]] = IF @ = "open" THEN m.of ELSE @]
    BY <1>3 DEF RouteResponse
  <2> DEFINE p == pending[i]
             s == m.of
  <2>2. p \in Requests
    BY ElementOfSeq, LenProperties DEF TypeOK
  <2>3. inbound \in Seq(Message)
    BY DEF TypeOK
  <2>4. /\ m = inbound[1] /\ 1 \in DOMAIN inbound
        /\ \A k \in DOMAIN inbound' : k + 1 \in DOMAIN inbound /\ inbound'[k] = inbound[k + 1]
                                     /\ k + 1 # 1
    BY <1>1, <2>3, TailRange
  <2>5. m.type = "response" /\ m.echo \in Matches[p]
    BY <2>1 DEF Hit
  <2>6. /\ s \in Requests /\ s \notin OneWay /\ Written(s) /\ s \notin Range(due)
        /\ m.echo \in EchoOf[s] /\ \A q \in Requests : future[q] # s
    BY <2>4, <2>5 DEF ResponseInv, InboundInv, Fresh
  <2>7. \A q \in Requests : q # p => future'[q] = future[q]
    BY <2>1, <2>2 DEF TypeOK
  <2>8. future'[p] = IF future[p] = "open" THEN s ELSE future[p]
    BY <2>1, <2>2 DEF TypeOK
  <2>9. \A q \in Requests : future[q] \in Requests => future'[q] = future[q]
    BY <2>7, <2>8
  <2>10. FutureInv'
    <3>1. ASSUME NEW q \in Requests, future'[q] \in Requests
          PROVE  /\ future'[q] \notin OneWay /\ Written(future'[q])
                 /\ EchoOf[future'[q]] \cap Matches[q] # {}
      BY <2>5, <2>6, <2>7, <2>8, <3>1 DEF ResponseInv, FutureInv
    <3>2. ASSUME NEW q \in Requests, NEW r \in Requests,
                 future'[q] = future'[r], future'[q] \in Requests
          PROVE  q = r
      BY <2>6, <2>7, <2>8, <3>2 DEF ResponseInv, FutureInv
    <3>3. \A q \in Requests : call'[q] = "answered" => future'[q] \in Requests
      BY <1>1, <2>9 DEF ResponseInv, FutureInv
    <3> QED BY <1>1, <3>1, <3>2, <3>3 DEF FutureInv, Written
  <2>11. ASSUME NEW q \in Requests, Fresh(q), q # s
         PROVE  Fresh(q)'
    BY <1>1, <2>7, <2>8, <2>11 DEF Fresh, Written
  <2>12. DueInv'
    BY <1>1, <2>6, <2>11 DEF ResponseInv, DueInv, Fresh
  <2>13. ASSUME NEW k \in DOMAIN inbound', inbound'[k].type = "response"
         PROVE  LET q == inbound'[k].of
                IN  /\ q \in Requests /\ Fresh(q) /\ q # s /\ q \notin Range(due')
                    /\ inbound'[k].echo \in EchoOf[q]
    <3>1. inbound[k + 1].type = "response" /\ k + 1 \in DOMAIN inbound /\ k + 1 # 1
      BY <2>4, <2>13
    <3>2. inbound[k + 1].of # s
      BY <2>4, <2>5, <3>1 DEF ResponseInv, InboundInv
    <3> QED BY <1>1, <2>4, <3>1, <3>2 DEF ResponseInv, InboundInv, Fresh
  <2>14. (\A k \in DOMAIN inbound : inbound[k].type = "response" =>
            /\ Fresh(inbound[k].of) /\ inbound[k].of \notin Range(due)
            /\ inbound[k].echo \in EchoOf[inbound[k].of])'
    <3> SUFFICES ASSUME NEW k \in DOMAIN inbound', inbound'[k].type = "response"
                 PROVE  (/\ Fresh(inbound[k].of) /\ inbound[k].of \notin Range(due)
                         /\ inbound[k].echo \in EchoOf[inbound[k].of])'
      OBVIOUS
    <3>1. PICK q \in Requests : /\ q = inbound'[k].of /\ Fresh(q) /\ q # s
                               /\ q \notin Range(due') /\ inbound'[k].echo \in EchoOf[q]
      BY <2>13
    <3>2. Fresh(q)'
      BY <2>11, <3>1
    <3> QED BY <3>1, <3>2 DEF Fresh, Written
  <2>15. ASSUME NEW j \in DOMAIN inbound', NEW k \in DOMAIN inbound',
                inbound'[j].type = "response", inbound'[k].type = "response",
                inbound'[j].of = inbound'[k].of
         PROVE  j = k
    <3>1. j + 1 = k + 1
      BY <2>4, <2>15 DEF ResponseInv, InboundInv
    <3>2. j \in Nat /\ k \in Nat
      <4>1. Tail(inbound) \in Seq(Message)
        BY <1>1, <2>3, HeadTailProperties
      <4> QED BY <1>1, <4>1, LenProperties
    <3> QED BY <3>1, <3>2
  <2>16. InboundInv'
    BY <2>14, <2>15 DEF InboundInv
  <2> QED BY <2>10, <2>12, <2>16 DEF ResponseInv
<1> QED BY <1>2, <1>3 DEF ReaderReceives

\* Every other step is quiet.
LEMMA ResponseStep == TypeOK /\ ResponseInv /\ [Next]_vars => ResponseInv'
<1> SUFFICES ASSUME TypeOK, ResponseInv, [Next]_vars
             PROVE  ResponseInv'
  OBVIOUS
<1> DEFINE Ends == \A q \in Requests : call'[q] = "answered" => future[q] \in Requests
<1>1. UNCHANGED call => Ends
  BY DEF ResponseInv, FutureInv
<1>2. UNCHANGED future => NoNewReply
  BY DEF NoNewReply
<1>3. FailPending => NoNewReply /\ Ends
  BY <1>1 DEF FailPending, NoNewReply, TypeOK
<1>4. ASSUME NEW r \in Requests, NEW where, Step(r, where),
             where = "answered" => future[r] \in Requests
      PROVE  Ends
  BY <1>4 DEF Step, TypeOK, ResponseInv, FutureInv
<1>5. ASSUME NEW r \in Requests, SendRequest(r) \/ Restart(r) \/ Acquire(r)
      PROVE  ResponseInv'
  BY <1>2, <1>4, <1>5, QuietStep DEF SendRequest, Restart, Acquire, EnterLock, SendRaises
<1>6. ASSUME NEW r \in Requests, SendReturns(r) \/ SendFails(r) \/ CancelSend(r) \/ WaitReturns(r)
      PROVE  ResponseInv'
  BY <1>2, <1>4, <1>6, QuietStep DEF SendReturns, SendFails, SendRaises, CancelSend, WaitReturns
<1>7. ASSUME NEW r \in Requests, Expire(r)
      PROVE  ResponseInv'
  <2>1. NoNewReply
    BY <1>7 DEF Expire, NoNewReply, TypeOK
  <2> QED BY <1>4, <1>7, <2>1, QuietStep DEF Expire
<1>8. ASSUME NEW t \in Tasks, Close(t)
      PROVE  ResponseInv'
  BY <1>3, <1>8, QuietStep DEF Close, CloseSocket
<1>9. ASSUME NEW t \in Tasks, TaskStep(t) \/ CancelTask(t)
      PROVE  ResponseInv'
  BY <1>1, <1>2, <1>9, QuietStep DEF TaskStep, ReaderAwaited, CloseSocket, SocketClosed, CancelTask
<1>10. CASE Connect \/ SocketOpened \/ Registered
  BY <1>1, <1>2, <1>10, QuietStep DEF Connect, SocketOpened, Registered
<1>11. CASE ReaderStarts \/ ReaderStops
  BY <1>1, <1>2, <1>3, <1>11, QuietStep DEF ReaderStarts, ReaderStops, ReaderFails
<1>12. ASSUME NEW l \in Listeners, AwaitEvent(l) \/ NextEvent(l)
       PROVE  ResponseInv'
  BY <1>1, <1>2, <1>12, QuietStep DEF AwaitEvent, NextEvent
<1>13. CASE DeviceRegisters \/ DevicePushes
  <2>1. ASSUME NEW kind \in {"push", "malformed", "registered"}
        PROVE  [type |-> kind] \in Message /\ [type |-> kind].type # "response"
    BY DEF Message
  <2> QED BY <1>1, <1>2, <1>13, <2>1, QuietStep DEF DeviceRegisters, DevicePushes
<1>14. CASE ConnectionLost \/ UNCHANGED vars
  BY <1>1, <1>2, <1>14, QuietStep DEF ConnectionLost, vars
<1> QED
  BY <1>5, <1>6, <1>7, <1>8, <1>9, <1>10, <1>11, <1>12, <1>13, <1>14, WriteFrameKeepsResponses,
     DeviceAnswersKeepsResponses, ReaderReceivesKeepsResponses
  DEF Next, CallStep, Leave, ConnectFails, ReaderStep, Tasks

-----------------------------------------------------------------------------
(* The refinement mapping *)

Kept == \A q \in Requests : future[q] \in Requests => future'[q] = future[q]

\* Once a future holds a response it keeps it.
LEMMA RepliesKept ==
    ASSUME TypeOK, [Next]_vars
    PROVE  Kept
<1>1. UNCHANGED future => Kept
  BY DEF Kept
<1>2. FailPending => Kept
  BY DEF FailPending, Kept, TypeOK
<1>3. ASSUME NEW r \in Requests, SendRequest(r) \/ Restart(r) \/ CallStep(r) \/ CancelSend(r)
      PROVE  Kept
  BY <1>1, <1>3 DEF SendRequest, Restart, CallStep, Acquire, WriteFrame, SendReturns,
                    SendFails, WaitReturns, CancelSend
<1>4. ASSUME NEW r \in Requests, Expire(r)
      PROVE  Kept
  BY <1>4 DEF Expire, Kept, TypeOK
<1>5. ASSUME NEW t \in Tasks, Leave(t) \/ TaskStep(t) \/ CancelTask(t)
      PROVE  Kept
  BY <1>1, <1>2, <1>5 DEF Leave, Close, TaskStep, ReaderAwaited, SocketClosed, CancelTask
<1>6. CASE Connect \/ SocketOpened \/ Registered \/ ConnectFails
  BY <1>1, <1>2, <1>6 DEF Connect, SocketOpened, Registered, ConnectFails, Close
<1>7. CASE ReaderStarts \/ ReaderStops
  BY <1>1, <1>2, <1>7 DEF ReaderStarts, ReaderStops, ReaderFails
<1>8. CASE ReaderReceives
  <2>1. CASE RouteResponse(Head(inbound))
    BY <2>1 DEF RouteResponse, Kept, TypeOK
  <2> QED BY <1>1, <1>8, <2>1 DEF ReaderReceives, KeepEvent
<1>9. ASSUME NEW l \in Listeners, AwaitEvent(l) \/ NextEvent(l)
      PROVE  Kept
  BY <1>1, <1>9 DEF AwaitEvent, NextEvent
<1>10. CASE DeviceRegisters \/ DeviceAnswers \/ DevicePushes \/ ConnectionLost \/ UNCHANGED vars
  BY <1>1, <1>10 DEF DeviceRegisters, DeviceAnswers, DevicePushes, ConnectionLost, vars
<1> QED
  BY <1>3, <1>4, <1>5, <1>6, <1>7, <1>8, <1>9, <1>10 DEF Next, ReaderStep

Promised == [Correlation!Next]_<<Phases, Replies>>

\* A step that moves no call, or moves it within its phase.
LEMMA MapStutter ==
    ASSUME TypeOK, ResponseInv, Kept,
           \A q \in Requests \ OneWay :
              /\ Phase(call'[q]) = Phase(call[q])
              /\ call'[q] = "answered" <=> call[q] = "answered"
    PROVE  Promised
<1>1. Phases' = Phases
  BY DEF Phases
<1>2. \A q \in Requests \ OneWay : call[q] = "answered" => future'[q] = future[q]
  BY DEF Kept, ResponseInv, FutureInv
<1>3. Replies' = Replies
  BY <1>2 DEF Replies
<1> QED BY <1>1, <1>3 DEF Promised

LEMMA MapAsk ==
    ASSUME TypeOK, ResponseInv, Kept, NEW r \in Requests \ OneWay, NEW where,
           call[r] = "idle", Step(r, where), Phase(where) = "open", where # "answered"
    PROVE  Promised
<1>1. \A q \in Requests \ OneWay : call'[q] = IF q = r THEN where ELSE call[q]
  BY DEF Step, TypeOK
<1>2. Phases' = [Phases EXCEPT ![r] = "open"]
  BY <1>1 DEF Phases
<1>3. \A q \in Requests \ OneWay : call[q] = "answered" => future'[q] = future[q]
  BY DEF Kept, ResponseInv, FutureInv
<1>4. Replies' = Replies
  BY <1>1, <1>3 DEF Replies
<1>5. Phases[r] = "idle"
  BY DEF Phases, Phase
<1>6. Correlation!Ask(r)
  BY <1>2, <1>4, <1>5 DEF Correlation!Ask
<1> QED BY <1>6 DEF Promised, Correlation!Next

LEMMA MapFail ==
    ASSUME TypeOK, ResponseInv, Kept, NEW r \in Requests \ OneWay,
           call[r] \notin {"answered", "failed"}, Step(r, "failed")
    PROVE  Promised
<1>1. \A q \in Requests \ OneWay : call'[q] = IF q = r THEN "failed" ELSE call[q]
  BY DEF Step, TypeOK
<1>2. Phases' = [Phases EXCEPT ![r] = "failed"]
  BY <1>1 DEF Phases, Phase
<1>3. \A q \in Requests \ OneWay : call[q] = "answered" => future'[q] = future[q]
  BY DEF Kept, ResponseInv, FutureInv
<1>4. Replies' = Replies
  BY <1>1, <1>3 DEF Replies
<1>5. Phases[r] \in {"idle", "open"}
  BY DEF Phases, Phase
<1>6. Correlation!Fail(r)
  BY <1>2, <1>4, <1>5 DEF Correlation!Fail
<1> QED BY <1>6 DEF Promised, Correlation!Next

LEMMA MapAnswer ==
    ASSUME TypeOK, ResponseInv, NEW r \in Requests \ OneWay, call[r] = "waiting",
           future[r] \in Requests, Step(r, "answered"), UNCHANGED future
    PROVE  Promised
<1> DEFINE s == future[r]
<1>1. \A q \in Requests \ OneWay : call'[q] = IF q = r THEN "answered" ELSE call[q]
  BY DEF Step, TypeOK
<1>2. Phases' = [Phases EXCEPT ![r] = "answered"]
  BY <1>1 DEF Phases, Phase
<1>3. Replies' = [Replies EXCEPT ![r] = {s}]
  BY <1>1 DEF Replies
<1>4. s \in Requests \ OneWay /\ Written(s) /\ EchoOf[s] \cap Matches[r] # {}
  BY DEF ResponseInv, FutureInv
<1>5. Phases[r] = "open" /\ Phases[s] # "idle"
  BY <1>4 DEF Phases, Phase, Written
<1>6. \A t \in Requests \ OneWay : s \notin Replies[t]
  BY DEF Replies, ResponseInv, FutureInv
<1>7. Correlation!Answer(r, s)
  BY <1>2, <1>3, <1>4, <1>5, <1>6 DEF Correlation!Answer
<1> QED BY <1>4, <1>7 DEF Promised, Correlation!Next

LEMMA MapStep == TypeOK /\ ResponseInv /\ [Next]_vars => Promised
<1> SUFFICES ASSUME TypeOK, ResponseInv, [Next]_vars
             PROVE  Promised
  OBVIOUS
<1>1. Kept
  BY RepliesKept
<1>2. ASSUME UNCHANGED call
      PROVE  Promised
  BY <1>1, <1>2, MapStutter
<1>3. ASSUME NEW r \in OneWay, NEW where, Step(r, where)
      PROVE  Promised
  BY <1>1, <1>3, MapStutter DEF Step, TypeOK
<1>4. ASSUME NEW r \in Requests, NEW where, Step(r, where),
             Phase(where) = Phase(call[r]), where # "answered", call[r] # "answered"
      PROVE  Promised
  BY <1>1, <1>4, MapStutter DEF Step, TypeOK
<1>5. ASSUME NEW r \in Requests, SendRequest(r)
      PROVE  Promised
  <2>1. CASE Step(r, "failed")
    BY <1>1, <1>5, <2>1, MapFail DEF SendRequest
  <2>2. CASE \E where \in {"sending", "locking"} : Step(r, where)
    BY <1>1, <1>5, <2>2, MapAsk DEF SendRequest, Phase
  <2> QED BY <1>5, <2>1, <2>2 DEF SendRequest, EnterLock
<1>6. ASSUME NEW r \in Requests, Restart(r)
      PROVE  Promised
  BY <1>3, <1>6 DEF Restart, EnterLock
<1>7. ASSUME NEW r \in Requests, Step(r, "failed"),
             call[r] \in {"locking", "sending", "sent", "waiting", "expired"}
      PROVE  Promised
  BY <1>1, <1>3, <1>7, MapFail
<1>8. ASSUME NEW r \in Requests, Acquire(r) \/ WriteFrame(r)
      PROVE  Promised
  BY <1>4, <1>7, <1>8 DEF Acquire, WriteFrame, SendRaises, Phase
<1>9. ASSUME NEW r \in Requests, SendReturns(r)
      PROVE  Promised
  BY <1>3, <1>4, <1>9 DEF SendReturns, Phase
<1>10. ASSUME NEW r \in Requests, SendFails(r) \/ CancelSend(r)
       PROVE  Promised
  BY <1>7, <1>10 DEF SendFails, SendRaises, CancelSend
<1>11. ASSUME NEW r \in Requests, Expire(r)
       PROVE  Promised
  BY <1>4, <1>11 DEF Expire, Phase
<1>12. ASSUME NEW r \in Requests, WaitReturns(r)
       PROVE  Promised
  BY <1>3, <1>7, <1>12, MapAnswer DEF WaitReturns
<1>13. ASSUME NEW t \in Tasks, Leave(t) \/ TaskStep(t) \/ CancelTask(t)
       PROVE  Promised
  BY <1>2, <1>13 DEF Leave, Close, FailPending, TaskStep, ReaderAwaited, SocketClosed, CancelTask
<1>14. CASE Connect \/ SocketOpened \/ Registered \/ ConnectFails
  BY <1>2, <1>14 DEF Connect, SocketOpened, Registered, ConnectFails, Close, FailPending
<1>15. CASE ReaderStep
  BY <1>2, <1>15 DEF ReaderStep, ReaderStarts, ReaderReceives, RouteResponse, KeepEvent,
                     ReaderStops, ReaderFails, FailPending
<1>16. ASSUME NEW l \in Listeners, AwaitEvent(l) \/ NextEvent(l)
       PROVE  Promised
  BY <1>2, <1>16 DEF AwaitEvent, NextEvent
<1>17. CASE DeviceRegisters \/ DeviceAnswers \/ DevicePushes \/ ConnectionLost \/ UNCHANGED vars
  BY <1>2, <1>17 DEF DeviceRegisters, DeviceAnswers, DevicePushes, ConnectionLost, vars
<1> QED
  BY <1>5, <1>6, <1>8, <1>9, <1>10, <1>11, <1>12, <1>13, <1>14, <1>15, <1>16, <1>17
  DEF Next, CallStep

\* No response is copied on its way: what futures, inbound and due hold was each
\* sent once and is held once (_route_response pops the entry it fills).
THEOREM ResponsesTravelOnce == Spec => []ResponseInv
<1>1. Init => ResponseInv
  BY DEF Init, ResponseInv, FutureInv, DueInv, InboundInv, IsInjective, Range
<1> QED BY <1>1, ResponseStep, TypeCorrect, PTL DEF Spec

\* Whatever the interleaving, the faults and the device's echoes, every call of
\* _send_request ends at most once, with an error or with one response that
\* fits it and that nobody else was given (_route_response, wait_for).
THEOREM Implements == Spec => ImplementsCorrelation
<1>1. Init => Correlation!Init
  BY DEF Init, Correlation!Init, Phases, Replies, Phase
<1>2. TypeOK /\ ResponseInv /\ [Next]_vars => [Correlation!Next]_<<Phases, Replies>>
  BY MapStep DEF Promised
<1> QED
  BY <1>1, <1>2, ResponsesTravelOnce, TypeCorrect, PTL
  DEF Spec, ImplementsCorrelation, Correlation!Spec
=============================================================================
