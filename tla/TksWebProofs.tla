---------------------------- MODULE TksWebProofs ----------------------------
(***************************************************************************)
(* Type correctness of TksWeb, that neither the cache file nor another     *)
(* command ever meets a session in which somebody is filling in a form,    *)
(* and that a command reports a form as saved only when it has been.  Then *)
(* what a command that is alone can rely on: that an update it reports has *)
(* been triggered, and that a stale session in the cache file does not     *)
(* stop it.  Every command, alone or not, only goes forward.               *)
(***************************************************************************)
EXTENDS TksWeb, TLAPS

\* What a command believes its session shows, while that session lives.
PageFits(p) ==
    /\ client[p].pc \in {"user", "password"} => client[p].page \in {"login", "none"}
    /\ client[p].pc \in Form \cup {"save"} =>
           p \in Editors /\ client[p].page \in {"phones", "none"}
    /\ At(p, "persist") /\ Admitted(p) => gw.page # "login"

PagesFit == \A p \in Procs : PageFits(p)

\* The login page has queued nothing, and saves nothing.
LoginIsQuiet == gw.page = "login" => gw.out = <<>> /\ ~gw.saving

\* Only editors fill in anything behind the login.
OnlyEditorsFill == gw.page # "login" => gw.entered \subseteq Editors \X Form

\* Before the login is over a session has one command, and is in no cache.
LoginIsPrivate ==
    gw.page = "login" /\ gw.live # 0 =>
        /\ cache # gw.live
        /\ \A p, q \in Procs : client[p].sid = gw.live /\ client[q].sid = gw.live => p = q

\* The session of an editor is nobody else's and in no cache.
EditorIsAlone ==
    \A e \in Editors : client[e].sid # 0 =>
        /\ cache # client[e].sid
        /\ \A q \in Procs : client[q].sid = client[e].sid => q = e

\* What has been entered was entered by the one command of the session.
FormIsPrivate == gw.entered # {} => gw.live # 0 /\ cache # gw.live

IInv == /\ PagesFit /\ LoginIsQuiet /\ OnlyEditorsFill /\ LoginIsPrivate
        /\ EditorIsAlone /\ FormIsPrivate /\ NoPoisonedForm

-----------------------------------------------------------------------------
(* Type correctness *)

LEMMA StatesFit ==
    ASSUME TypeOK, NEW p \in Procs
    PROVE  /\ \A how \in Ends : Over(how) \in ClientState
           /\ \A tries \in 0..Attempts : Construct(p, tries) \in ClientState
           /\ \A step \in Steps : Then(p, step) \in ClientState
<1>1. client[p] \in ClientState /\ cache \in Sids \cup {0}
  BY DEF TypeOK
<1>2. \A how \in Ends : Over(how) \in ClientState
  BY DEF Over, ClientState, Attempts
<1>3. \A tries \in 0..Attempts : Construct(p, tries) \in ClientState
  BY <1>1 DEF Construct, Over, ClientState, Attempts, Steps, Sends
<1>4. \A step \in Steps : Then(p, step) \in ClientState
  BY <1>1 DEF Then, ClientState
<1> QED BY <1>2, <1>3, <1>4

LEMMA RaiseFits ==
    ASSUME TypeOK, NEW p \in Procs, NEW transport, Raise(p, transport)
    PROVE  client' \in [Procs -> ClientState]
<1>1. client[p].tries \in 0..Attempts /\ client \in [Procs -> ClientState]
  BY DEF TypeOK, ClientState
<1>2. CASE client[p].tries < Attempts
  <2>1. client[p].tries + 1 \in 0..Attempts
    BY <1>1, <1>2 DEF Attempts
  <2>2. Construct(p, client[p].tries + 1) \in ClientState /\ Over("failed") \in ClientState
    BY <2>1, StatesFit DEF Ends
  <2> QED BY <1>1, <2>2 DEF Raise, Is
<1>3. CASE ~(client[p].tries < Attempts)
  <2>1. Over("failed") \in ClientState
    BY StatesFit DEF Ends
  <2> QED BY <1>1, <1>3, <2>1 DEF Raise, Is
<1> QED BY <1>2, <1>3

Gateway == [live : Sids \cup {0}, page : Page,
            entered : SUBSET (Procs \X (Form \cup {"user"})),
            out : Seq(Page \cup {"busy", "idle", "error"}), saving : BOOLEAN]

LEMMA ExchangeFits ==
    ASSUME TypeOK, NEW p \in Procs, NEW g \in Gateway, NEW next \in ClientState,
           Exchange(p, g, next)
    PROVE  client' \in [Procs -> ClientState] /\ gw' \in Gateway
<1>1. client \in [Procs -> ClientState]
  BY DEF TypeOK
<1>2. CASE Is(p, next)
  BY <1>1, <1>2 DEF Exchange, Is
<1>3. CASE Raise(p, TRUE)
  BY <1>3, RaiseFits DEF Exchange
<1> QED BY <1>2, <1>3 DEF Exchange

LEMMA PagesShown ==
    ASSUME TypeOK, NEW page \in Page
    PROVE  Show(page) \in Gateway
<1>1. gw \in Gateway
  BY DEF TypeOK, Gateway
<1>2. <<page, "idle">> \in Seq(Page \cup {"busy", "idle", "error"})
      /\ <<page>> \in Seq(Page \cup {"busy", "idle", "error"})
  OBVIOUS
<1> QED BY <1>1, <1>2 DEF Show, Gateway

Queue == Seq(Page \cup {"busy", "idle", "error"})

LEMMA QueuesFit ==
    ASSUME TypeOK, NEW o \in Queue, NEW b \in BOOLEAN
    PROVE  /\ [gw EXCEPT !.out = o] \in Gateway
           /\ [gw EXCEPT !.out = o, !.saving = b] \in Gateway
           /\ [gw EXCEPT !.saving = b, !.out = o] \in Gateway
BY DEF TypeOK, Gateway, Queue

LEMMA QueueChanges ==
    ASSUME TypeOK
    PROVE  /\ gw.out \in Queue /\ <<>> \in Queue
           /\ gw.out # <<>> => Tail(gw.out) \in Queue /\ Head(gw.out) \in Page \cup {"busy", "idle", "error"}
           /\ Append(gw.out, "busy") \in Queue /\ Append(gw.out, "idle") \in Queue
           /\ gw.out \o <<"error", "idle">> \in Queue
<1>1. gw.out \in Seq(Page \cup {"busy", "idle", "error"})
  BY DEF TypeOK
<1> QED BY <1>1 DEF Queue

LEMMA FieldsEntered ==
    ASSUME TypeOK, NEW p \in Procs, NEW field \in Form \cup {"user"}
    PROVE  Enter(p, field) \in Gateway
BY DEF TypeOK, Gateway, Enter

LEMMA NewSidIsFresh ==
    ASSUME Fresh # {}
    PROVE  NewSid \in Sids /\ NewSid \notin Remembered
BY DEF Fresh, NewSid

LEMMA EmptyQueue == NoSession \in Gateway /\ \A s \in Sids : [NoSession EXCEPT !.live = s] \in Gateway
<1>1. <<>> \in Seq(Page \cup {"busy", "idle", "error"})
  OBVIOUS
<1> QED BY <1>1 DEF NoSession, Gateway, Page

LEMMA TargetIsPage ==
    ASSUME NEW p \in Procs
    PROVE  Target(p) \in Page
BY TargetAssumption DEF Target, Page, Views, Procs

LEMMA TypeInit == Init => TypeOK
<1> SUFFICES ASSUME Init PROVE TypeOK
  OBVIOUS
<1>1. Over("idle") \in ClientState
  BY DEF Over, ClientState, Ends, Attempts
<1>2. gw \in Gateway
  BY EmptyQueue DEF Init
<1>3. 1 \in Sids
  BY BoundAssumption DEF Sids
<1> QED BY <1>1, <1>2, <1>3 DEF Init, TypeOK, Gateway

LEMMA AfterPageFits ==
    ASSUME TypeOK, NEW p \in Procs, client[p].pc \in Waits
    PROVE  AfterPage(p) \in ClientState
<1> DEFINE found(step) == [Then(p, step) EXCEPT !.page = Wanted(p)]
<1>1. Wanted(p) \in Page
  BY TargetIsPage DEF Wanted, Page
<1>2. \A step \in Steps : found(step) \in ClientState
  BY <1>1, StatesFit DEF ClientState
<1>3. {"persist", "open", "account", "upload"} \subseteq Steps
  BY DEF Steps, Sends
<1> HIDE DEF found
<1>4. AfterPage(p) \in {found("persist"), found("open"), found("account"), found("upload"), Over("done")}
  BY DEF AfterPage, found
<1> QED BY <1>2, <1>3, <1>4, StatesFit DEF Ends

\* Every action of a command leaves all five variables typed.
LEMMA CommandType ==
    ASSUME TypeOK, NEW p \in Procs,
           Start(p) \/ Works(p) \/ Deadline(p) \/ TransportFails(p) \/ Interrupt(p)
    PROVE  TypeOK'
<1> DEFINE Typed == client' \in [Procs -> ClientState] /\ gw' \in Gateway
<1> USE DEF Ends
<1>1. /\ client \in [Procs -> ClientState] /\ client[p] \in ClientState /\ gw \in Gateway
      /\ cache \in Sids \cup {0} /\ applied \subseteq Procs
      /\ saved \subseteq SUBSET (Procs \X (Form \cup {"user"}))
  BY DEF TypeOK, Gateway
<1>2. SUFFICES /\ Typed /\ cache' \in Sids \cup {0}
               /\ saved' = saved /\ applied' \subseteq Procs
  BY <1>1 DEF TypeOK, Gateway
<1>3. \A step \in Steps : Then(p, step) \in ClientState
  BY StatesFit
<1>4. Over("done") \in ClientState /\ Over("failed") \in ClientState
  BY StatesFit
<1>5. \A g \in Gateway : IfCurrent(p, g) \in Gateway
  BY <1>1 DEF IfCurrent
<1>6. Show("menu") \in Gateway /\ Show(Target(p)) \in Gateway
  BY PagesShown, TargetIsPage DEF Page
<1>7. Sends \cup Waits \subseteq Steps /\ "persist" \in Steps /\ "upload" \in Steps
  BY DEF Steps
<1>8. CASE Start(p)
  BY <1>1, <1>8, StatesFit DEF Start, Is, Attempts
<1>9. CASE Refused(p)
  <2>1. CASE Invalidate(p)
    BY <1>1, <1>9, <2>1 DEF Refused, Invalidate, Is, ClientState
  <2>2. CASE UNCHANGED cache /\ \E s : Raise(p, s)
    BY <1>1, <1>9, <2>2, RaiseFits DEF Refused
  <2> QED BY <1>9, <2>1, <2>2 DEF Refused
<1>10. CASE OpenSession(p)
  <2>1. CASE gw.live # 0
    BY <1>1, <1>10, <2>1, RaiseFits DEF OpenSession
  <2>2. CASE gw.live = 0
    <3>1. NewSid \in Sids /\ gw' \in Gateway
      BY <1>10, <2>2, NewSidIsFresh, EmptyQueue DEF OpenSession
    <3>2. client' \in [Procs -> ClientState]
      <4>1. CASE Raise(p, TRUE)
        BY <4>1, RaiseFits
      <4>2. CASE Is(p, [client[p] EXCEPT !.sid = NewSid, !.restored = FALSE])
        BY <1>1, <3>1, <4>2 DEF Is, ClientState
      <4> QED BY <1>10, <2>2, <4>1, <4>2 DEF OpenSession
    <3> QED BY <1>1, <1>10, <3>1, <3>2 DEF OpenSession
  <2> QED BY <1>10, <2>1, <2>2 DEF OpenSession
<1>11. CASE Reload(p)
  <2>1. PICK g \in {gw, [gw EXCEPT !.out = <<>>]} :
           Exchange(p, g, [Then(p, IF gw.page = "login" THEN "user" ELSE "persist")
                              EXCEPT !.page = gw.page])
    BY <1>11 DEF Reload
  <2>2. g \in Gateway
    BY <1>1, <2>1, QueuesFit, QueueChanges
  <2>3. \A step \in {"user", "persist"} : [Then(p, step) EXCEPT !.page = gw.page] \in ClientState
    BY <1>1, <1>3 DEF Gateway, ClientState, Steps, Sends
  <2>4. Typed
    BY <2>1, <2>2, <2>3, ExchangeFits
  <2> QED BY <1>1, <1>11, <2>4 DEF Reload
<1>12. CASE EnterUser(p)
  <2>1. Enter(p, "user") \in Gateway
    BY FieldsEntered
  <2>2. Typed
    BY <1>3, <1>5, <1>7, <1>12, <2>1, ExchangeFits DEF EnterUser, Sends
  <2> QED BY <1>1, <1>12, <2>2 DEF EnterUser
<1>13. CASE EnterPassword(p)
  <2>1. (IF <<p, "user">> \in gw.entered THEN IfCurrent(p, Show("menu")) ELSE gw) \in Gateway
    BY <1>1, <1>5, <1>6
  <2>2. Typed
    BY <1>3, <1>7, <1>13, <2>1, ExchangeFits DEF EnterPassword, Waits
  <2> QED BY <1>1, <1>13, <2>2 DEF EnterPassword
<1>14. CASE Persist(p)
  <2>1. client' \in [Procs -> ClientState]
    BY <1>1, <1>3, <1>7, <1>14 DEF Persist, Is, Sends
  <2> QED BY <1>1, <1>14, <2>1 DEF Persist, ClientState
<1>15. CASE ClickOverview(p)
  <2>1. Typed
    BY <1>3, <1>5, <1>6, <1>7, <1>15, ExchangeFits DEF ClickOverview, Waits
  <2> QED BY <1>1, <1>15, <2>1 DEF ClickOverview
<1>16. CASE OpenPage(p)
  <2>1. Typed
    BY <1>3, <1>5, <1>6, <1>7, <1>16, ExchangeFits DEF OpenPage, Waits
  <2> QED BY <1>1, <1>16, <2>1 DEF OpenPage
<1>17. CASE Fill(p)
  <2>1. Enter(p, client[p].pc) \in Gateway
    BY <1>17, FieldsEntered DEF Fill
  <2>2. Typed
    BY <1>3, <1>5, <1>7, <1>17, <2>1, ExchangeFits DEF Fill, Sends
  <2> QED BY <1>1, <1>17, <2>2 DEF Fill
<1>18. CASE ClickSave(p)
  <2>1. [gw EXCEPT !.out = Append(@, "busy"), !.saving = TRUE] \in Gateway
    BY QueuesFit, QueueChanges
  <2>2. Typed
    BY <1>3, <1>5, <1>7, <1>18, <2>1, ExchangeFits DEF ClickSave, Waits
  <2> QED BY <1>1, <1>18, <2>2 DEF ClickSave
<1>19. CASE Upload(p)
  BY <1>1, <1>3, <1>7, <1>19 DEF Upload, Is, Sends
<1>20. CASE ClickApply(p)
  <2>1. Typed
    BY <1>1, <1>4, <1>20, ExchangeFits DEF ClickApply
  <2> QED BY <1>1, <1>20, <2>1 DEF ClickApply
<1>21. CASE PollNothing(p)
  BY <1>1, <1>3, <1>7, <1>21 DEF PollNothing, Polls, Is
<1>22. NextFragment => gw' \in Gateway
  BY QueuesFit, QueueChanges DEF NextFragment
<1>23. CASE PollPage(p)
  <2>1. AfterPage(p) \in ClientState /\ Then(p, client[p].pc) \in ClientState
    BY <1>3, <1>7, <1>23, AfterPageFits DEF PollPage, Polls
  <2> QED BY <1>1, <1>22, <1>23, <2>1 DEF PollPage, Is
<1>24. CASE PollSave(p)
  <2>1. Then(p, "saveWait") \in ClientState
    BY <1>3 DEF Steps, Waits
  <2>2. [Then(p, "saveWait") EXCEPT !.busy = @ \/ Head(gw.out) = "busy"] \in ClientState
    BY <2>1 DEF ClientState
  <2> QED BY <1>1, <1>4, <1>22, <1>24, <2>2 DEF PollSave, Is
<1>25. CASE Deadline(p) \/ TransportFails(p)
  BY <1>1, <1>25, RaiseFits DEF Deadline, TransportFails
<1>26. CASE Interrupt(p)
  BY <1>1, <1>4, <1>26 DEF Interrupt, Is
<1> QED
  BY <1>8, <1>9, <1>10, <1>11, <1>12, <1>13, <1>14, <1>15, <1>16, <1>17, <1>18, <1>19, <1>20,
     <1>21, <1>23, <1>24, <1>25, <1>26 DEF Works

LEMMA TypeStep == TypeOK /\ [Next]_vars => TypeOK'
<1> SUFFICES ASSUME TypeOK, [Next]_vars PROVE TypeOK'
  OBVIOUS
<1>1. ASSUME NEW p \in Procs, Start(p) \/ Works(p) \/ Deadline(p) \/ TransportFails(p) \/ Interrupt(p)
      PROVE  TypeOK'
  BY <1>1, CommandType
<1>2. CASE Expire
  BY <1>2, EmptyQueue DEF Expire, TypeOK, Gateway
<1>3. CASE FinishSaving
  <2>1. gw' \in Gateway
    BY <1>3, QueuesFit, QueueChanges DEF FinishSaving
  <2>2. gw.entered \in SUBSET (Procs \X (Form \cup {"user"}))
    BY DEF TypeOK
  <2>3. saved' \subseteq SUBSET (Procs \X (Form \cup {"user"}))
    BY <1>3, <2>2 DEF FinishSaving, TypeOK
  <2> QED BY <1>3, <2>1, <2>3 DEF FinishSaving, TypeOK, Gateway
<1>4. CASE BrowserOpens
  <2>1. gw' \in Gateway
    BY <1>4, NewSidIsFresh, EmptyQueue DEF BrowserOpens
  <2> QED BY <1>4, <2>1 DEF BrowserOpens, TypeOK, Gateway
<1>5. CASE UNCHANGED vars
  BY <1>5 DEF vars, TypeOK
<1> QED BY <1>1, <1>2, <1>3, <1>4, <1>5 DEF Next

\* The variables of the commands, the gateway and the cache keep their types.
THEOREM TypeCorrect == Spec => []TypeOK
<1> QED BY TypeInit, TypeStep, PTL DEF Spec

-----------------------------------------------------------------------------
(* The form of a command stays its own *)

LEMMA InitIInv == Init => IInv
<1> SUFFICES ASSUME Init PROVE IInv
  OBVIOUS
<1>1. \A p \in Procs : client[p] = Over("idle")
  BY DEF Init
<1> QED
  BY <1>1 DEF Init, IInv, PagesFit, PageFits, LoginIsQuiet, OnlyEditorsFill, LoginIsPrivate,
     EditorIsAlone, FormIsPrivate, NoPoisonedForm, Over, NoSession, At, Admitted, Form, Procs

\* No command gets a session but the one in the cache, nothing is cached.
SidsKept ==
    /\ \A q \in Procs : \/ client'[q].sid \in {client[q].sid, 0}
                        \/ q \in Persistent /\ client'[q].sid = cache
    /\ cache' \in {cache, 0}

\* The session goes on, nothing is entered in it.
SessionGoesOn ==
    /\ gw'.live = gw.live /\ gw'.entered \subseteq gw.entered
    /\ gw'.page = "login" => gw.page = "login" /\ gw'.out = <<>> /\ ~gw'.saving
    /\ gw'.page # "login" => gw'.entered \subseteq Editors \X Form

OnlyMoves(p) == \A q \in Procs \ {p} : client'[q] = client[q]

LEMMA OwnersKept ==
    ASSUME TypeOK, IInv, SidsKept, SessionGoesOn
    PROVE  (LoginIsPrivate /\ EditorIsAlone /\ FormIsPrivate /\ NoPoisonedForm)'
<1>1. \A e \in Editors : e \notin Persistent /\ e \in Procs
  BY KindAssumption DEF Persistent, Procs
<1>2. LoginIsPrivate'
  BY DEF IInv, LoginIsPrivate, SidsKept, SessionGoesOn
<1>3. EditorIsAlone'
  BY <1>1 DEF IInv, EditorIsAlone, SidsKept
<1>4. FormIsPrivate'
  BY DEF IInv, FormIsPrivate, SidsKept, SessionGoesOn
<1>5. NoPoisonedForm'
  BY DEF IInv, NoPoisonedForm, FormIsPrivate, Admitted, SidsKept, SessionGoesOn
<1> QED BY <1>2, <1>3, <1>4, <1>5

LEMMA CalmStep ==
    ASSUME TypeOK, IInv, NEW p \in Procs, SidsKept, SessionGoesOn, OnlyMoves(p), PageFits(p)'
    PROVE  IInv'
<1>1. \A q \in Procs \ {p} : PageFits(q)'
  BY DEF IInv, PagesFit, PageFits, OnlyMoves, SessionGoesOn, At, Admitted
<1>2. PagesFit' /\ LoginIsQuiet' /\ OnlyEditorsFill'
  BY <1>1 DEF SessionGoesOn, PagesFit, LoginIsQuiet, OnlyEditorsFill
<1> QED BY <1>2, OwnersKept DEF IInv

\* What Is, Raise and Construct leave of a command.
LEMMA Moves ==
    ASSUME TypeOK, NEW p \in Procs, NEW state, Is(p, state)
    PROVE  client'[p] = state /\ OnlyMoves(p)
BY DEF TypeOK, Is, OnlyMoves

LEMMA Constructed ==
    ASSUME TypeOK, NEW p \in Procs, NEW tries, Is(p, Construct(p, tries)), cache' \in {cache, 0}
    PROVE  SidsKept /\ OnlyMoves(p) /\ PageFits(p)'
<1>1. client'[p] = Construct(p, tries) /\ OnlyMoves(p)
  BY Moves
<1>2. /\ Construct(p, tries).pc = "reload"
      /\ Construct(p, tries).sid = IF p \in Persistent THEN cache ELSE 0
  BY DEF Construct, Over
<1> QED BY <1>1, <1>2 DEF SidsKept, OnlyMoves, PageFits, Form, At

LEMMA Ended ==
    ASSUME TypeOK, NEW p \in Procs, NEW how \in Ends, Is(p, Over(how)), cache' \in {cache, 0}
    PROVE  SidsKept /\ OnlyMoves(p) /\ PageFits(p)'
<1>1. client'[p] = Over(how) /\ OnlyMoves(p)
  BY Moves
<1>2. Over(how).pc = how /\ Over(how).sid = 0
  BY DEF Over
<1> QED BY <1>1, <1>2 DEF SidsKept, OnlyMoves, PageFits, Form, At, Ends

LEMMA Raised ==
    ASSUME TypeOK, NEW p \in Procs, NEW transport, Raise(p, transport), cache' \in {cache, 0}
    PROVE  SidsKept /\ OnlyMoves(p) /\ PageFits(p)'
BY Constructed, Ended DEF Raise, Ends

LEMMA StandsStill ==
    ASSUME TypeOK, IInv, UNCHANGED gw
    PROVE  SessionGoesOn
BY DEF SessionGoesOn, IInv, LoginIsQuiet, OnlyEditorsFill

\* The command goes on in its session.
LEMMA GoesOn ==
    ASSUME TypeOK, NEW p \in Procs, NEW state, Is(p, state), state.sid \in {client[p].sid, 0},
           cache' \in {cache, 0}
    PROVE  SidsKept /\ OnlyMoves(p) /\ client'[p] = state
BY Moves DEF SidsKept, OnlyMoves

LEMMA ThenKeeps ==
    ASSUME TypeOK, NEW p \in Procs, NEW step
    PROVE  /\ Then(p, step).pc = step /\ Then(p, step).sid = client[p].sid
           /\ Then(p, step).page = client[p].page /\ Then(p, step).busy = client[p].busy
BY DEF TypeOK, ClientState, Then

\* A page appears, in place of what the session showed.
LEMMA Shown ==
    ASSUME TypeOK, IInv, NEW p \in Procs, NEW page \in Page \ {"login"},
           gw' = gw \/ gw' = IfCurrent(p, Show(page))
    PROVE  SessionGoesOn
<1>1. CASE gw' = gw
  BY <1>1, StandsStill
<1>2. CASE gw' = Show(page)
  BY <1>2 DEF TypeOK, Show, SessionGoesOn
<1> QED BY <1>1, <1>2 DEF IfCurrent

\* An exchange that enters nothing: the answer is lost, or the command goes on.
LEMMA QuietExchange ==
    ASSUME TypeOK, IInv, NEW p \in Procs, NEW g, NEW state, Exchange(p, g, state),
           g = gw' => SessionGoesOn, state.sid \in {client[p].sid, 0}, UNCHANGED cache,
           client'[p] = state => PageFits(p)'
    PROVE  IInv'
<1>1. gw' = g
  BY DEF Exchange
<1>2. SessionGoesOn
  BY <1>1
<1>3. CASE Is(p, state)
  BY <1>2, <1>3, GoesOn, CalmStep
<1>4. CASE Raise(p, TRUE)
  BY <1>2, <1>4, Raised, CalmStep
<1> QED BY <1>3, <1>4 DEF Exchange

\* An exchange in which p enters a field, alone in its session.
LEMMA EnteringExchange ==
    ASSUME TypeOK, IInv, NEW p \in Procs, NEW field, NEW state,
           Exchange(p, Enter(p, field), state), field \in Form \cup {"user"},
           state.sid = client[p].sid, UNCHANGED cache,
           client'[p] = state => PageFits(p)',
           cache # gw.live, \A q \in Procs : client[q].sid = gw.live => q = p,
           gw.page # "login" => p \in Editors /\ field \in Form
    PROVE  IInv'
<1>1. /\ gw' = Enter(p, field) /\ gw.live # 0 /\ Admitted(p)
      /\ Is(p, state) \/ Raise(p, TRUE)
  BY DEF Exchange, Admitted
<1>2. /\ gw'.live = gw.live /\ gw'.page = gw.page /\ gw'.out = gw.out
      /\ gw'.saving = gw.saving /\ gw'.entered = gw.entered \cup {<<p, field>>}
  BY <1>1 DEF TypeOK, Enter
<1>3. SidsKept /\ OnlyMoves(p) /\ PageFits(p)'
  BY <1>1, GoesOn, Raised
<1>4. PagesFit'
  <2>1. \A q \in Procs \ {p} : PageFits(q)'
    BY <1>2, <1>3 DEF IInv, PagesFit, PageFits, OnlyMoves, At, Admitted
  <2> QED BY <1>3, <2>1 DEF PagesFit
<1>5. LoginIsQuiet' /\ OnlyEditorsFill'
  BY <1>2 DEF IInv, LoginIsQuiet, OnlyEditorsFill
<1>6. LoginIsPrivate'
  BY <1>2, <1>3 DEF IInv, LoginIsPrivate, SidsKept
<1>7. EditorIsAlone'
  <2>1. \A e \in Editors : e \notin Persistent /\ e \in Procs
    BY KindAssumption DEF Persistent, Procs
  <2> QED BY <1>3, <2>1 DEF IInv, EditorIsAlone, SidsKept
<1>8. FormIsPrivate'
  BY <1>1, <1>2 DEF FormIsPrivate
<1>9. NoPoisonedForm'
  <2>1. gw.entered \subseteq {p} \X (Form \cup {"user"})
    BY <1>1 DEF IInv, NoPoisonedForm
  <2>2. \A q \in Procs : Admitted(q)' => q = p
    BY <1>1, <1>2, <1>3 DEF SidsKept, Admitted
  <2> QED BY <1>2, <2>1, <2>2 DEF NoPoisonedForm
<1> QED BY <1>4, <1>5, <1>6, <1>7, <1>8, <1>9 DEF IInv

\* A session nobody remembers opens; p has it, or nobody.
LEMMA OpeningStep ==
    ASSUME TypeOK, IInv, Fresh # {}, gw' = [NoSession EXCEPT !.live = NewSid], UNCHANGED cache,
           NEW P \in SUBSET Procs, \A p, q \in P : p = q,
           \A q \in Procs \ P : client'[q] = client[q],
           \A p \in P : /\ client'[p].sid \in {0, NewSid} \/ (p \in Persistent /\ client'[p].sid = cache)
                        /\ client'[p].page \in {client[p].page, "none"} /\ client'[p].pc \in {client[p].pc, "reload", "failed"}
                        /\ ~At(p, "persist")
    PROVE  IInv'
<1>1. NewSid \in Sids /\ NewSid # cache /\ \A q \in Procs : client[q].sid # NewSid
  BY NewSidIsFresh DEF Remembered
<1>2. /\ gw'.live = NewSid /\ gw'.page = "login" /\ gw'.entered = {} /\ gw'.out = <<>>
      /\ ~gw'.saving
  BY DEF NoSession
<1>3. 0 \notin Sids
  BY BoundAssumption DEF Sids
<1>4. PagesFit'
  <2>1. \A q \in Procs \ P : PageFits(q)'
    BY <1>1, <1>2 DEF IInv, PagesFit, PageFits, At, Admitted
  <2>2. \A q \in P : PageFits(q)'
    BY <1>1, <1>2 DEF IInv, PagesFit, PageFits, At, Admitted, Form
  <2> QED BY <2>1, <2>2 DEF PagesFit
<1>5. LoginIsQuiet' /\ OnlyEditorsFill' /\ FormIsPrivate' /\ NoPoisonedForm'
  BY <1>2 DEF LoginIsQuiet, OnlyEditorsFill, FormIsPrivate, NoPoisonedForm
<1>6. LoginIsPrivate'
  <2>1. \A q \in Procs : client'[q].sid = NewSid => q \in P
    BY <1>1
  <2> QED BY <1>1, <1>2, <2>1 DEF LoginIsPrivate
<1>7. EditorIsAlone'
  <2>1. \A e \in Editors : e \notin Persistent /\ e \in Procs
    BY KindAssumption DEF Persistent, Procs
  <2>2. \A q \in Procs : client'[q].sid = NewSid => q \in P
    BY <1>1
  <2>3. \A q \in Procs : \/ client'[q].sid \in {client[q].sid, 0, NewSid}
                         \/ q \in Persistent /\ client'[q].sid = cache
    OBVIOUS
  <2> QED BY <1>1, <2>1, <2>2, <2>3 DEF IInv, EditorIsAlone
<1> QED BY <1>4, <1>5, <1>6, <1>7 DEF IInv

\* A command keeps its session: it has passed the login, and is no editor's.
LEMMA PersistStep ==
    ASSUME TypeOK, IInv, NEW p \in Procs, Persist(p)
    PROVE  IInv'
<1>1. /\ client'[p].sid = client[p].sid /\ client'[p].pc \in {"open", "overview"} /\ OnlyMoves(p)
      /\ cache' = cache \/ (p \in Persistent /\ client[p].sid # 0 /\ cache' = client[p].sid)
      /\ gw' = gw
  <2>1. PICK step \in {"open", "overview"} : Is(p, Then(p, step))
    BY DEF Persist
  <2>2. client'[p] = Then(p, step) /\ OnlyMoves(p)
    BY <2>1, Moves
  <2>3. Then(p, step).pc = step /\ Then(p, step).sid = client[p].sid
    BY ThenKeeps
  <2>4. cache' = cache \/ (p \in Persistent /\ client[p].sid # 0 /\ cache' = client[p].sid)
    BY DEF Persist
  <2>5. gw' = gw
    BY DEF Persist
  <2> QED BY <2>2, <2>3, <2>4, <2>5
<1>2. CASE cache' = cache
  <2>1. SidsKept
    BY <1>1, <1>2 DEF SidsKept, OnlyMoves
  <2>2. PageFits(p)'
    BY <1>1 DEF PageFits, At, Form
  <2> QED BY <1>1, <2>1, <2>2, StandsStill, CalmStep
<1>3. CASE p \in Persistent /\ client[p].sid # 0 /\ cache' = client[p].sid
  <2>1. \A q \in Procs : client'[q].sid = client[q].sid
    BY <1>1 DEF OnlyMoves
  <2>2. \A e \in Editors : e \notin Persistent /\ e \in Procs
    BY KindAssumption DEF Persistent, Procs
  <2>3. client[p].sid = gw.live => gw.page # "login"
    BY <1>3 DEF Persist, IInv, PagesFit, PageFits, Admitted
  <2>4. PagesFit'
    <3>1. PageFits(p)'
      BY <1>1 DEF PageFits, At, Form
    <3>2. \A q \in Procs \ {p} : PageFits(q)'
      BY <1>1 DEF IInv, PagesFit, PageFits, OnlyMoves, At, Admitted
    <3> QED BY <3>1, <3>2 DEF PagesFit
  <2>5. LoginIsQuiet' /\ OnlyEditorsFill'
    BY <1>1 DEF IInv, LoginIsQuiet, OnlyEditorsFill
  <2>6. LoginIsPrivate'
    BY <1>1, <1>3, <2>1, <2>3 DEF IInv, LoginIsPrivate
  <2>7. EditorIsAlone'
    BY <1>3, <2>1, <2>2 DEF IInv, EditorIsAlone
  <2>8. client[p].sid = gw.live => gw.entered = {}
    <3>1. SUFFICES ASSUME client[p].sid = gw.live, NEW x \in gw.entered PROVE FALSE
      OBVIOUS
    <3>2. gw.entered \subseteq Editors \X Form /\ gw.entered \subseteq {p} \X (Form \cup {"user"})
      BY <1>3, <2>3, <3>1 DEF IInv, OnlyEditorsFill, NoPoisonedForm, Admitted
    <3>3. x \in Editors \X Form /\ x \in {p} \X (Form \cup {"user"})
      BY <3>1, <3>2
    <3>4. p \in Editors
      BY <3>3
    <3> QED BY <1>3, <2>2, <3>4
  <2>9. FormIsPrivate' /\ NoPoisonedForm'
    BY <1>1, <1>3, <2>1, <2>8 DEF IInv, FormIsPrivate, NoPoisonedForm, Admitted
  <2> QED BY <2>4, <2>5, <2>6, <2>7, <2>9 DEF IInv
<1> QED BY <1>1, <1>2, <1>3

LEMMA CommandKeepsIInv ==
    ASSUME TypeOK, IInv, NEW p \in Procs,
           Start(p) \/ Works(p) \/ Deadline(p) \/ TransportFails(p) \/ Interrupt(p)
    PROVE  IInv'
<1>1. CASE Start(p)
  BY <1>1, Constructed, StandsStill, CalmStep DEF Start
<1>2. CASE Refused(p)
  <2>1. SessionGoesOn
    BY <1>2, StandsStill DEF Refused
  <2>2. CASE Invalidate(p)
    <3> DEFINE state == [client[p] EXCEPT !.sid = 0, !.restored = FALSE, !.again = TRUE, !.page = "none"]
    <3>1. state.sid = 0 /\ state.page = "none" /\ state.pc = client[p].pc
      BY DEF TypeOK, ClientState
    <3>2. Is(p, state) /\ cache' \in {cache, 0}
      BY <2>2 DEF Invalidate
    <3> HIDE DEF state
    <3>3. SidsKept /\ OnlyMoves(p) /\ client'[p] = state
      BY <3>1, <3>2, GoesOn
    <3>4. PageFits(p)'
      BY <1>2, <3>1, <3>3 DEF IInv, PagesFit, PageFits, At, Refused, Asking, Sends, Waits
    <3> QED BY <2>1, <3>3, <3>4, CalmStep
  <2>3. CASE UNCHANGED cache /\ \E s : Raise(p, s)
    BY <2>1, <2>3, Raised, CalmStep
  <2> QED BY <1>2, <2>2, <2>3 DEF Refused
<1>3. CASE OpenSession(p)
  <2>1. CASE gw.live # 0
    BY <1>3, <2>1, Raised, StandsStill, CalmStep DEF OpenSession
  <2>2. CASE gw.live = 0
    <3>1. Fresh # {} /\ gw' = [NoSession EXCEPT !.live = NewSid] /\ UNCHANGED cache
      BY <1>3, <2>2 DEF OpenSession
    <3>2. ~At(p, "persist")
      BY <1>3 DEF OpenSession, Asking, At, Sends, Waits
    <3>5. {p} \in SUBSET Procs
      OBVIOUS
    <3>3. CASE Is(p, [client[p] EXCEPT !.sid = NewSid, !.restored = FALSE])
      <4> DEFINE state == [client[p] EXCEPT !.sid = NewSid, !.restored = FALSE]
      <4>1. state.sid = NewSid /\ state.pc = client[p].pc /\ state.page = client[p].page
        BY DEF TypeOK, ClientState
      <4> HIDE DEF state
      <4>2. client'[p] = state /\ OnlyMoves(p)
        BY <3>3, Moves DEF state
      <4>3. \A q \in Procs \ {p} : client'[q] = client[q]
        BY <4>2 DEF OnlyMoves
      <4> QED BY <3>1, <3>2, <3>5, <4>1, <4>2, <4>3, OpeningStep
    <3>4. CASE Raise(p, TRUE)
      <4>1. PICK state : /\ Is(p, state) /\ state.page = "none" /\ state.pc \in {"reload", "failed"}
                         /\ state.sid = 0 \/ (p \in Persistent /\ state.sid = cache)
        <5>1. Over("failed").page = "none" /\ Over("failed").pc = "failed" /\ Over("failed").sid = 0
          BY DEF Over
        <5>2. \A tries : /\ Construct(p, tries).page = "none" /\ Construct(p, tries).pc = "reload"
                         /\ Construct(p, tries).sid = IF p \in Persistent THEN cache ELSE 0
          BY DEF Construct, Over
        <5>3. Is(p, Over("failed")) \/ Is(p, Construct(p, client[p].tries + 1))
          BY <3>4 DEF Raise
        <5> QED BY <5>1, <5>2, <5>3
      <4>2. client'[p] = state /\ OnlyMoves(p)
        BY <4>1, Moves
      <4>3. \A q \in Procs \ {p} : client'[q] = client[q]
        BY <4>2 DEF OnlyMoves
      <4> QED BY <3>1, <3>2, <3>5, <4>1, <4>2, <4>3, OpeningStep
    <3> QED BY <1>3, <2>2, <3>3, <3>4 DEF OpenSession
  <2> QED BY <2>1, <2>2
<1>4. CASE Reload(p)
  <2> DEFINE step == IF gw.page = "login" THEN "user" ELSE "persist"
             state == [Then(p, step) EXCEPT !.page = gw.page]
  <2>1. PICK g \in {gw, [gw EXCEPT !.out = <<>>]} : Exchange(p, g, state)
    BY <1>4 DEF Reload
  <2>2. /\ state.pc = step /\ state.sid = client[p].sid /\ state.page = gw.page
    BY DEF TypeOK, ClientState, Then
  <2> HIDE DEF state
  <2>3. gw' = g /\ gw'.page = gw.page
    BY <2>1 DEF Exchange, TypeOK
  <2>4. SessionGoesOn
    BY <2>1, <2>3 DEF TypeOK, SessionGoesOn, IInv, LoginIsQuiet, OnlyEditorsFill
  <2>5. client'[p] = state => PageFits(p)'
    BY <2>2, <2>3 DEF PageFits, At, Form
  <2> QED BY <1>4, <2>1, <2>2, <2>4, <2>5, QuietExchange DEF Reload
<1>5. CASE EnterUser(p)
  <2>1. Then(p, "password").sid = client[p].sid /\ Then(p, "password").pc = "password"
        /\ Then(p, "password").page = client[p].page
    BY ThenKeeps
  <2>2. client[p].page \in {"login", "none"}
    BY <1>5 DEF EnterUser, At, IInv, PagesFit, PageFits
  <2>3. client'[p] = Then(p, "password") => PageFits(p)'
    BY <2>1, <2>2 DEF PageFits, At, Form
  <2>4. CASE Current(p)
    <3>1. gw.page = "login"
      BY <2>2, <2>4 DEF Current, TypeOK, Page, Views
    <3>2. Exchange(p, Enter(p, "user"), Then(p, "password")) /\ UNCHANGED cache
      BY <1>5, <2>4 DEF EnterUser, IfCurrent
    <3>3. cache # gw.live /\ \A q \in Procs : client[q].sid = gw.live => q = p
      BY <3>1, <3>2 DEF IInv, LoginIsPrivate, Exchange, Admitted
    <3> QED BY <2>1, <2>3, <3>1, <3>2, <3>3, EnteringExchange
  <2>5. CASE ~Current(p)
    <3>1. Exchange(p, gw, Then(p, "password")) /\ UNCHANGED cache
      BY <1>5, <2>5 DEF EnterUser, IfCurrent
    <3> QED BY <2>1, <2>3, <3>1, StandsStill, QuietExchange
  <2> QED BY <2>4, <2>5
<1>6. ASSUME NEW g, NEW step \in Waits, NEW page \in Page \ {"login"},
             Exchange(p, g, Then(p, step)), UNCHANGED cache,
             g = gw \/ g = IfCurrent(p, Show(page))
      PROVE  IInv'
  <2>1. g = gw' => SessionGoesOn
    BY <1>6, Shown
  <2>2. Then(p, step).sid = client[p].sid /\ Then(p, step).pc = step
    BY ThenKeeps
  <2>3. client'[p] = Then(p, step) => PageFits(p)'
    BY <2>2 DEF PageFits, At, Form, Waits
  <2> QED BY <1>6, <2>1, <2>2, <2>3, QuietExchange
<1>18. CASE EnterPassword(p)
  <2>1. "menu" \in Page \ {"login"} /\ "menuWait" \in Waits
    BY DEF Page, Waits
  <2>2. CASE <<p, "user">> \in gw.entered
    BY <1>6, <1>18, <2>1, <2>2 DEF EnterPassword
  <2>3. CASE <<p, "user">> \notin gw.entered
    BY <1>6, <1>18, <2>1, <2>3 DEF EnterPassword
  <2> QED BY <2>2, <2>3
<1>19. CASE ClickOverview(p)
  BY <1>6, <1>19 DEF ClickOverview, Page, Waits
<1>20. CASE OpenPage(p)
  <2>1. Target(p) \in Page \ {"login"} /\ "openWait" \in Waits
    BY TargetAssumption DEF Target, Page, Views, Procs, Waits
  <2> QED BY <1>6, <1>20, <2>1 DEF OpenPage
<1>7. CASE Persist(p)
  BY <1>7, PersistStep
<1>8. CASE Fill(p)
  <2>1. PICK step \in {"calls", "save"} :
           Exchange(p, IfCurrent(p, Enter(p, client[p].pc)), Then(p, step))
    BY <1>8 DEF Fill
  <2>2. Then(p, step).sid = client[p].sid /\ Then(p, step).pc = step
        /\ Then(p, step).page = client[p].page
    BY ThenKeeps
  <2>3. p \in Editors /\ client[p].page \in {"phones", "none"} /\ client[p].pc \in Form
    BY <1>8 DEF Fill, IInv, PagesFit, PageFits
  <2>4. client'[p] = Then(p, step) => PageFits(p)'
    BY <2>2, <2>3 DEF PageFits, At, Form
  <2>5. CASE Current(p)
    <3>1. Exchange(p, Enter(p, client[p].pc), Then(p, step)) /\ UNCHANGED cache
      BY <1>8, <2>1, <2>5 DEF Fill, IfCurrent
    <3>2. cache # gw.live /\ \A q \in Procs : client[q].sid = gw.live => q = p
      BY <2>3, <3>1 DEF IInv, EditorIsAlone, Exchange, Admitted
    <3> QED BY <2>2, <2>3, <2>4, <3>1, <3>2, EnteringExchange
  <2>6. CASE ~Current(p)
    <3>1. Exchange(p, gw, Then(p, step)) /\ UNCHANGED cache
      BY <1>8, <2>1, <2>6 DEF Fill, IfCurrent
    <3> QED BY <2>2, <2>4, <3>1, StandsStill, QuietExchange
  <2> QED BY <2>5, <2>6
<1>9. CASE ClickSave(p)
  <2> DEFINE g == [gw EXCEPT !.out = Append(@, "busy"), !.saving = TRUE]
  <2>1. Exchange(p, IfCurrent(p, g), Then(p, "saveWait")) /\ UNCHANGED cache
    BY <1>9 DEF ClickSave
  <2>2. Then(p, "saveWait").sid = client[p].sid /\ Then(p, "saveWait").pc = "saveWait"
    BY ThenKeeps
  <2>3. IfCurrent(p, g) = gw' => SessionGoesOn
    <3>1. client[p].page \in {"phones", "none"}
      BY <1>9 DEF ClickSave, At, IInv, PagesFit, PageFits
    <3>2. CASE Current(p) /\ gw' = g
      <4>1. gw.page # "login"
        BY <3>1, <3>2 DEF Current
      <4> QED BY <3>2, <4>1 DEF TypeOK, SessionGoesOn, IInv, OnlyEditorsFill
    <3>3. CASE gw' = gw
      BY <3>3, StandsStill
    <3> QED BY <3>2, <3>3 DEF IfCurrent
  <2>4. client'[p] = Then(p, "saveWait") => PageFits(p)'
    BY <2>2 DEF PageFits, At, Form
  <2> QED BY <2>1, <2>2, <2>3, <2>4, QuietExchange
<1>10. CASE Upload(p)
  <2>1. Then(p, "apply").sid = client[p].sid /\ Then(p, "apply").pc = "apply"
    BY ThenKeeps
  <2>2. SidsKept /\ OnlyMoves(p) /\ client'[p] = Then(p, "apply")
    BY <1>10, <2>1, GoesOn DEF Upload
  <2>3. PageFits(p)'
    BY <2>1, <2>2 DEF PageFits, At, Form
  <2> QED BY <1>10, <2>2, <2>3, StandsStill, CalmStep DEF Upload
<1>11. CASE ClickApply(p)
  <2>1. Over("done").sid = 0 /\ Over("done").pc = "done"
    BY DEF Over
  <2>2. client'[p] = Over("done") => PageFits(p)'
    BY <2>1 DEF PageFits, At, Form
  <2>3. gw' = gw => SessionGoesOn
    BY StandsStill
  <2> QED BY <1>11, <2>1, <2>2, <2>3, QuietExchange DEF ClickApply
<1>12. CASE PollNothing(p)
  <2>1. Then(p, client[p].pc).sid = client[p].sid /\ Then(p, client[p].pc).pc = client[p].pc
    BY ThenKeeps
  <2>2. SidsKept /\ OnlyMoves(p) /\ client'[p] = Then(p, client[p].pc)
    BY <1>12, <2>1, GoesOn DEF PollNothing
  <2>3. PageFits(p)'
    BY <1>12, <2>1, <2>2 DEF PollNothing, Polls, Waits, PageFits, At, Form
  <2> QED BY <1>12, <2>2, <2>3, StandsStill, CalmStep DEF PollNothing
<1>13. ASSUME NextFragment
       PROVE  SessionGoesOn /\ gw.page # "login" /\ gw'.page = gw.page
  BY <1>13 DEF NextFragment, TypeOK, SessionGoesOn, IInv, LoginIsQuiet, OnlyEditorsFill
<1>14. CASE PollPage(p)
  <2>1. SessionGoesOn /\ gw'.page # "login"
    BY <1>13, <1>14 DEF PollPage
  <2>2. CASE Head(gw.out) # Wanted(p)
    <3>1. Then(p, client[p].pc).sid = client[p].sid /\ Then(p, client[p].pc).pc = client[p].pc
      BY ThenKeeps
    <3>2. SidsKept /\ OnlyMoves(p) /\ client'[p] = Then(p, client[p].pc)
      BY <1>14, <2>2, <3>1, GoesOn DEF PollPage
    <3>3. PageFits(p)'
      BY <1>14, <3>1, <3>2 DEF PollPage, Polls, Waits, PageFits, At, Form
    <3> QED BY <2>1, <3>2, <3>3, CalmStep
  <2>3. CASE Head(gw.out) = Wanted(p)
    <3>1. /\ AfterPage(p).sid \in {client[p].sid, 0}
          /\ \/ AfterPage(p).pc \in {"persist", "open", "upload", "done"}
             \/ AfterPage(p).pc = "account" /\ p \in Editors /\ AfterPage(p).page = "phones"
      <4> DEFINE found(step) == [Then(p, step) EXCEPT !.page = Wanted(p)]
      <4>1. \A step \in Steps : /\ found(step).sid = client[p].sid /\ found(step).pc = step
                                /\ found(step).page = Wanted(p)
        BY DEF TypeOK, ClientState, Then
      <4> HIDE DEF found
      <4>2. {"persist", "open", "upload", "account"} \subseteq Steps
        BY DEF Steps, Sends
      <4>3. CASE At(p, "menuWait")
        <5>1. AfterPage(p) = found("persist")
          BY <4>3 DEF AfterPage, found
        <5> QED BY <4>1, <4>2, <5>1
      <4>4. CASE At(p, "overviewWait")
        <5>1. AfterPage(p) = found("open")
          BY <4>4 DEF AfterPage, found, At
        <5> QED BY <4>1, <4>2, <5>1
      <4>5. CASE ~At(p, "menuWait") /\ ~At(p, "overviewWait")
        <5>1. At(p, "openWait")
          BY <1>14, <4>5 DEF PollPage, Polls, Waits, At
        <5>2. CASE p \in Readers
          BY <4>5, <5>2 DEF AfterPage, Over
        <5>3. CASE p \in Editors
          <6>1. p \notin Readers
            BY <5>3, KindAssumption
          <6>2. AfterPage(p) = found("account") /\ Wanted(p) = "phones"
            BY <4>5, <5>1, <5>3, <6>1 DEF AfterPage, found, Wanted, Target
          <6> QED BY <4>1, <4>2, <5>3, <6>2
        <5>4. CASE p \notin Readers /\ p \notin Editors
          <6>1. AfterPage(p) = found("upload")
            BY <4>5, <5>4 DEF AfterPage, found
          <6> QED BY <4>1, <4>2, <6>1
        <5> QED BY <5>2, <5>3, <5>4
      <4> QED BY <4>3, <4>4, <4>5
    <3>2. SidsKept /\ OnlyMoves(p) /\ client'[p] = AfterPage(p)
      BY <1>14, <2>3, <3>1, GoesOn DEF PollPage
    <3>3. PageFits(p)'
      BY <2>1, <3>1, <3>2 DEF PageFits, At, Form
    <3> QED BY <2>1, <3>2, <3>3, CalmStep
  <2> QED BY <2>2, <2>3
<1>15. CASE PollSave(p)
  <2> DEFINE state == [Then(p, "saveWait") EXCEPT !.busy = @ \/ Head(gw.out) = "busy"]
  <2>1. SessionGoesOn /\ UNCHANGED cache
    BY <1>13, <1>15 DEF PollSave
  <2>2. CASE Is(p, Over("failed")) \/ Is(p, Over("done"))
    BY <2>1, <2>2, Ended, CalmStep DEF Ends
  <2>3. CASE Is(p, state)
    <3>1. state.sid = client[p].sid /\ state.pc = "saveWait"
      BY DEF TypeOK, ClientState, Then
    <3> HIDE DEF state
    <3>2. SidsKept /\ OnlyMoves(p) /\ client'[p] = state
      BY <2>1, <2>3, <3>1, GoesOn
    <3>3. PageFits(p)'
      BY <3>1, <3>2 DEF PageFits, At, Form
    <3> QED BY <2>1, <3>2, <3>3, CalmStep
  <2> QED BY <1>15, <2>2, <2>3 DEF PollSave
<1>16. CASE Deadline(p) \/ TransportFails(p)
  BY <1>16, Raised, StandsStill, CalmStep DEF Deadline, TransportFails
<1>17. CASE Interrupt(p)
  BY <1>17, Ended, StandsStill, CalmStep DEF Interrupt, Ends
<1> QED
  BY <1>1, <1>2, <1>3, <1>4, <1>5, <1>18, <1>19, <1>20, <1>7, <1>8, <1>9, <1>10, <1>11, <1>12,
     <1>14, <1>15, <1>16, <1>17 DEF Works

LEMMA IInvStep == TypeOK /\ IInv /\ [Next]_vars => IInv'
<1> SUFFICES ASSUME TypeOK, IInv, [Next]_vars PROVE IInv'
  OBVIOUS
<1>1. ASSUME NEW p \in Procs, Start(p) \/ Works(p) \/ Deadline(p) \/ TransportFails(p) \/ Interrupt(p)
      PROVE  IInv'
  BY <1>1, CommandKeepsIInv
<1>2. CASE Expire
  <2>1. /\ gw'.live = 0 /\ gw'.page = "login" /\ gw'.entered = {} /\ gw'.out = <<>> /\ ~gw'.saving
        /\ client' = client /\ cache' = cache
    BY <1>2 DEF Expire, NoSession
  <2> QED
    BY <2>1 DEF IInv, PagesFit, PageFits, At, Admitted, LoginIsQuiet, OnlyEditorsFill,
       LoginIsPrivate, EditorIsAlone, FormIsPrivate, NoPoisonedForm
<1>3. CASE FinishSaving
  <2>1. /\ gw'.live = gw.live /\ gw'.page = gw.page /\ gw'.entered = gw.entered
        /\ gw.saving /\ client' = client /\ cache' = cache
    BY <1>3 DEF FinishSaving, TypeOK
  <2> QED
    BY <2>1 DEF IInv, PagesFit, PageFits, At, Admitted, LoginIsQuiet, OnlyEditorsFill,
       LoginIsPrivate, EditorIsAlone, FormIsPrivate, NoPoisonedForm
<1>4. CASE BrowserOpens
  <2>1. {} \in SUBSET Procs
    OBVIOUS
  <2> QED BY <1>4, <2>1, OpeningStep DEF BrowserOpens
<1>5. CASE UNCHANGED vars
  <2>1. client' = client /\ cache' = cache /\ gw' = gw
    BY <1>5 DEF vars
  <2> QED
    BY <2>1 DEF IInv, PagesFit, PageFits, At, Admitted, LoginIsQuiet, OnlyEditorsFill,
       LoginIsPrivate, EditorIsAlone, FormIsPrivate, NoPoisonedForm
<1> QED BY <1>1, <1>2, <1>3, <1>4, <1>5 DEF Next

LEMMA Inductive == Spec => [](TypeOK /\ IInv)
<1>1. Init => TypeOK /\ IInv
  BY TypeInit, InitIInv
<1>2. TypeOK /\ IInv /\ [Next]_vars => (TypeOK /\ IInv)'
  BY TypeStep, IInvStep
<1> QED BY <1>1, <1>2, PTL DEF Spec

\* No command works in a session in which another has entered something.
THEOREM NoFormIsPoisoned == Spec => []NoPoisonedForm
<1>1. TypeOK /\ IInv => NoPoisonedForm
  BY DEF IInv
<1> QED BY <1>1, Inductive, PTL

\* The session in the cache has passed the login, as long as it lives.
THEOREM OnlyLoggedInIsCached == Spec => []CacheIsLoggedIn
<1>1. TypeOK /\ IInv => CacheIsLoggedIn
  BY DEF IInv, LoginIsPrivate, CacheIsLoggedIn
<1> QED BY <1>1, Inductive, PTL

-----------------------------------------------------------------------------
(***************************************************************************)
(* SavedAsReported.  The fragment that ends the wait for a save comes      *)
(* after one that said "busy", and "busy" is queued by the click only:     *)
(* what the assistant queued when its page appeared ends no wait.          *)
(***************************************************************************)
Writing == Form \cup {"save", "saveWait"}

\* What the form holds when its editor has come to step.
Filled(e, step) == IF step \in {"openWait", "account"} THEN {}
                   ELSE IF step = "calls" THEN {<<e, "account">>}
                   ELSE {e} \X Form

\* The fragment after which e's wait for its save is over.
Finished(e, k) ==
    /\ gw.out[k] = "idle"
    /\ client[e].busy \/ \E j \in 1..(k - 1) : gw.out[j] = "busy"
    /\ \A j \in 1..(k - 1) : gw.out[j] # "error"

\* What an editor leaves to the updaters.
Foreign == {"upload", "apply"}

Careful(e) ==
    /\ client[e].pc \notin Foreign
    /\ At(e, "done") => {e} \X Form \in saved
    /\ client[e].busy => At(e, "saveWait")
    /\ Admitted(e) =>
          /\ client[e].pc \in Writing => gw.page \in {"login", "phones"}
          /\ gw.page = "phones" =>
                /\ client[e].pc \in Writing \cup {"openWait"}
                /\ client[e].pc \in Writing => client[e].page = "phones"
                /\ gw.entered = Filled(e, client[e].pc)
          /\ gw.saving => At(e, "saveWait") /\ gw.page = "phones"
          /\ \A k \in DOMAIN gw.out :
                /\ gw.out[k] = "busy" => At(e, "saveWait")
                /\ gw.out[k] = "phones" => gw.page = "phones"
                /\ Finished(e, k) => {e} \X Form \in saved

AllCareful == \A e \in Editors : Careful(e)

LEMMA EditorsKeepNothing ==
    ASSUME NEW e \in Editors
    PROVE  e \in Procs /\ e \notin Persistent /\ e \notin Readers /\ Target(e) = "phones"
BY KindAssumption DEF Procs, Persistent, Target

\* What happens in other sessions does not concern an editor.
LEMMA Elsewhere ==
    ASSUME NEW e \in Editors, Careful(e), client'[e] = client[e], saved \subseteq saved',
           Admitted(e)' => Admitted(e) /\ gw' = gw
    PROVE  Careful(e)'
BY DEF Careful, At, Finished

\* An editor without a session has nothing to be careful about.
LEMMA WithoutSession ==
    ASSUME NEW e \in Editors, client'[e].sid = 0, ~client'[e].busy,
           client'[e].pc \notin Foreign \cup {"done"}
    PROVE  Careful(e)'
BY DEF Careful, At, Admitted

\* Whoever moves has a session of its own, or opens one.
Alone(p) ==
    /\ OnlyMoves(p) /\ saved' = saved
    /\ \/ gw' = gw
       \/ Admitted(p) /\ gw'.live = gw.live
       \/ gw.live = 0 /\ Fresh # {} /\ gw'.live = NewSid

LEMMA RaiseMoves ==
    ASSUME TypeOK, NEW p \in Procs, NEW transport, Raise(p, transport)
    PROVE  OnlyMoves(p)
BY Moves DEF Raise

LEMMA ExchangeAlone ==
    ASSUME TypeOK, NEW p \in Procs, NEW g, NEW state, Exchange(p, g, state), g.live = gw.live,
           UNCHANGED saved
    PROVE  Alone(p)
BY Moves, RaiseMoves DEF Exchange, Alone

LEMMA SessionsNamed ==
    ASSUME TypeOK, NEW p \in Procs
    PROVE  /\ \A page : Show(page).live = gw.live /\ IfCurrent(p, Show(page)).live = gw.live
           /\ \A field : IfCurrent(p, Enter(p, field)).live = gw.live
           /\ \A o, b : [gw EXCEPT !.out = o, !.saving = b].live = gw.live
           /\ \A o : [gw EXCEPT !.out = o].live = gw.live
BY DEF TypeOK, Show, Enter, IfCurrent

LEMMA CommandAlone ==
    ASSUME TypeOK, NEW p \in Procs,
           Start(p) \/ Works(p) \/ Deadline(p) \/ TransportFails(p) \/ Interrupt(p)
    PROVE  Alone(p)
<1>1. CASE Start(p) \/ Interrupt(p)
  BY <1>1, Moves DEF Start, Interrupt, Alone
<1>2. CASE Deadline(p) \/ TransportFails(p)
  BY <1>2, RaiseMoves DEF Deadline, TransportFails, Alone
<1>3. CASE Refused(p)
  BY <1>3, Moves, RaiseMoves DEF Refused, Invalidate, Alone
<1>4. CASE OpenSession(p)
  <2>1. [NoSession EXCEPT !.live = NewSid].live = NewSid
    BY DEF NoSession
  <2> QED BY <1>4, <2>1, Moves, RaiseMoves DEF OpenSession, Alone
<1>5. CASE Reload(p)
  <2>1. PICK g \in {gw, [gw EXCEPT !.out = <<>>]} : \E state : Exchange(p, g, state)
    BY <1>5 DEF Reload
  <2>2. g.live = gw.live
    BY SessionsNamed
  <2> QED BY <1>5, <2>1, <2>2, ExchangeAlone DEF Reload
<1>6. CASE EnterUser(p) \/ EnterPassword(p) \/ ClickOverview(p) \/ OpenPage(p) \/ Fill(p)
  BY <1>6, SessionsNamed, ExchangeAlone
  DEF EnterUser, EnterPassword, ClickOverview, OpenPage, Fill
<1>7. CASE ClickSave(p)
  <2>1. IfCurrent(p, [gw EXCEPT !.out = Append(@, "busy"), !.saving = TRUE]).live = gw.live
    BY SessionsNamed DEF IfCurrent
  <2> QED BY <1>7, <2>1, ExchangeAlone DEF ClickSave
<1>8. CASE Upload(p) \/ Persist(p) \/ PollNothing(p)
  BY <1>8, Moves DEF Upload, Persist, PollNothing, Alone
<1>9. CASE ClickApply(p)
  BY <1>9, ExchangeAlone DEF ClickApply
<1>10. CASE PollPage(p) \/ PollSave(p)
  BY <1>10, Moves, SessionsNamed DEF PollPage, PollSave, Polls, NextFragment, Alone
<1> QED BY <1>1, <1>2, <1>3, <1>4, <1>5, <1>6, <1>7, <1>8, <1>9, <1>10 DEF Works

LEMMA OthersStayAway ==
    ASSUME TypeOK, IInv, NEW e \in Editors, Careful(e), NEW p \in Procs \ {e}, Alone(p)
    PROVE  Careful(e)'
<1>1. client'[e] = client[e]
  BY EditorsKeepNothing DEF Alone, OnlyMoves
<1>2. CASE Admitted(p) /\ gw'.live = gw.live
  <2>1. client[e].sid # gw.live
    BY <1>2 DEF IInv, EditorIsAlone, Admitted
  <2> QED BY <1>1, <1>2, <2>1, Elsewhere DEF Alone, Admitted
<1>3. CASE Fresh # {} /\ gw'.live = NewSid
  <2>1. client[e].sid # NewSid
    BY <1>3, NewSidIsFresh, EditorsKeepNothing DEF Remembered
  <2> QED BY <1>1, <1>3, <2>1, Elsewhere DEF Alone, Admitted
<1>4. CASE gw' = gw
  BY <1>1, <1>4, Elsewhere DEF Alone, Admitted
<1> QED BY <1>2, <1>3, <1>4 DEF Alone

\* An error ends the session of an editor.
LEMMA RaiseIsCareful ==
    ASSUME TypeOK, NEW e \in Editors, NEW transport, Raise(e, transport)
    PROVE  Careful(e)'
<1>1. /\ Over("failed").sid = 0 /\ ~Over("failed").busy /\ Over("failed").pc = "failed"
      /\ \A tries : /\ Construct(e, tries).sid = 0 /\ ~Construct(e, tries).busy
                    /\ Construct(e, tries).pc = "reload"
  BY EditorsKeepNothing DEF Construct, Over
<1>2. PICK state : /\ Is(e, state)
                   /\ state.sid = 0 /\ ~state.busy /\ state.pc \notin Foreign \cup {"done"}
  BY <1>1 DEF Raise, Foreign
<1>3. client'[e] = state
  BY <1>2, Moves, EditorsKeepNothing
<1> QED BY <1>2, <1>3, WithoutSession

LEMMA ExchangeIsCareful ==
    ASSUME TypeOK, NEW e \in Editors, NEW g, NEW state, Exchange(e, g, state),
           Admitted(e) /\ gw' = g /\ client'[e] = state => Careful(e)'
    PROVE  Careful(e)'
BY Moves, RaiseIsCareful, EditorsKeepNothing DEF Exchange

\* Before the form is there, nothing is queued that could be taken for a save.
LEMMA Preparing ==
    ASSUME NEW e \in Editors, TypeOK',
           ~client'[e].busy, client'[e].pc \notin Writing \cup Foreign \cup {"done"}, ~gw'.saving,
           gw'.page = "phones" => client'[e].pc = "openWait" /\ gw'.entered = {},
           \A k \in DOMAIN gw'.out : /\ gw'.out[k] # "busy"
                                     /\ gw'.out[k] = "phones" => gw'.page = "phones"
    PROVE  Careful(e)'
<1>1. \A k \in DOMAIN gw'.out : 1..(k - 1) \subseteq DOMAIN gw'.out
  BY DEF TypeOK
<1>2. \A k \in DOMAIN gw'.out : ~Finished(e, k)'
  BY <1>1 DEF Finished
<1> QED BY <1>2 DEF Careful, At, Filled, Writing

\* What that leaves to say of an editor that has not got its form yet.
LEMMA Prepared ==
    ASSUME NEW e \in Editors, Careful(e), Admitted(e), client[e].pc \notin Writing
    PROVE  /\ ~client[e].busy /\ ~gw.saving
           /\ gw.page = "phones" => client[e].pc = "openWait" /\ gw.entered = {}
           /\ \A k \in DOMAIN gw.out : /\ gw.out[k] # "busy"
                                       /\ gw.out[k] = "phones" => gw.page = "phones"
BY DEF Careful, At, Filled, Writing

\* The queue of a gateway that shows another page.
LEMMA ShownQueue ==
    ASSUME TypeOK, NEW page \in {"menu", "phones"}
    PROVE  /\ Show(page).page = page /\ Show(page).entered = {}
           /\ Show(page).saving = gw.saving
           /\ \A k \in DOMAIN Show(page).out : /\ Show(page).out[k] # "busy"
                                               /\ Show(page).out[k] = "phones" => page = "phones"
<1>1. /\ Show(page).page = page /\ Show(page).entered = {} /\ Show(page).saving = gw.saving
      /\ Show(page).out = IF page = "phones" THEN <<page, "idle">> ELSE <<page>>
  BY DEF TypeOK, Show
<1> QED BY <1>1

LEMMA PreparationIsCareful ==
    ASSUME TypeOK, TypeOK', IInv, NEW e \in Editors, Careful(e), UNCHANGED saved,
           \/ Reload(e) \/ EnterUser(e) \/ EnterPassword(e) \/ Persist(e)
           \/ ClickOverview(e) \/ OpenPage(e)
    PROVE  Careful(e)'
<1> USE EditorsKeepNothing
<1>1. ASSUME Admitted(e), client[e].pc \notin Writing \cup {"openWait"}
      PROVE  gw.page # "phones"
  BY <1>1, Prepared
<1>2. CASE Reload(e)
  <2> DEFINE step == IF gw.page = "login" THEN "user" ELSE "persist"
             state == [Then(e, step) EXCEPT !.page = gw.page]
  <2>1. PICK g \in {gw, [gw EXCEPT !.out = <<>>]} : Exchange(e, g, state)
    BY <1>2 DEF Reload
  <2>3. state.pc = step /\ (state.busy <=> client[e].busy)
    BY DEF TypeOK, ClientState, Then
  <2>4. g.page = gw.page /\ g.saving = gw.saving /\ g.entered = gw.entered
        /\ (g.out = gw.out \/ g.out = <<>>)
    BY DEF TypeOK
  <2>5. client[e].pc = "reload"
    BY <1>2 DEF Reload, At
  <2> HIDE DEF state
  <2>6. ASSUME Admitted(e), gw' = g, client'[e] = state
        PROVE  Careful(e)'
    <3>1. \A k \in DOMAIN g.out : g.out[k] # "busy" /\ (g.out[k] = "phones" => g.page = "phones")
      BY <2>4, <2>5, <2>6, Prepared DEF Writing, Form
    <3>2. ~client[e].busy /\ ~gw.saving /\ gw.page # "phones"
      BY <2>5, <2>6, Prepared DEF Writing, Form
    <3> QED BY <2>3, <2>4, <2>6, <3>1, <3>2, Preparing DEF Writing, Form, Foreign
  <2> QED BY <2>1, <2>6, ExchangeIsCareful
<1>3. ASSUME NEW g, NEW step \in (Steps \ Writing) \ Foreign, client[e].pc \notin Writing \cup {"openWait"},
             Exchange(e, g, Then(e, step)),
             \/ g = gw
             \/ g.page = gw.page /\ g.saving = gw.saving /\ g.out = gw.out
             \/ g = Show("menu")
             \/ g = Show("phones") /\ step = "openWait"
      PROVE  Careful(e)'
  <2>1. Then(e, step).pc = step /\ Then(e, step).busy = client[e].busy
    BY ThenKeeps
  <2>2. ASSUME Admitted(e), gw' = g, client'[e] = Then(e, step)
        PROVE  Careful(e)'
    <3>1. /\ ~client[e].busy /\ ~gw.saving /\ gw.page # "phones"
          /\ \A k \in DOMAIN gw.out : gw.out[k] # "busy" /\ gw.out[k] # "phones"
      BY <1>3, <2>2, Prepared DEF Writing
    <3>2. step \notin Writing \cup Foreign \cup {"done"}
      BY DEF Steps, Sends, Waits, Writing, Form
    <3> QED BY <1>3, <2>1, <2>2, <3>1, <3>2, ShownQueue, Preparing
  <2> QED BY <1>3, <2>2, ExchangeIsCareful
<1>4. CASE EnterUser(e)
  <2>1. /\ IfCurrent(e, Enter(e, "user")).page = gw.page
        /\ IfCurrent(e, Enter(e, "user")).saving = gw.saving
        /\ IfCurrent(e, Enter(e, "user")).out = gw.out
    BY DEF IfCurrent, Enter, TypeOK
  <2>2. "password" \in (Steps \ Writing) \ Foreign /\ client[e].pc \notin Writing \cup {"openWait"}
    BY <1>4 DEF EnterUser, At, Steps, Sends, Writing, Form, Foreign
  <2> QED BY <1>3, <1>4, <2>1, <2>2 DEF EnterUser
<1>5. CASE EnterPassword(e) \/ ClickOverview(e) \/ OpenPage(e)
  <2>1. PICK g \in {gw, Show("menu"), Show("phones")}, step \in Waits \ {"saveWait"} :
            Exchange(e, g, Then(e, step)) /\ (g \in {gw, Show("menu")} \/ step = "openWait")
    BY <1>5 DEF EnterPassword, ClickOverview, OpenPage, IfCurrent, Waits
  <2>2. client[e].pc \notin Writing \cup {"openWait"}
    BY <1>5 DEF EnterPassword, ClickOverview, OpenPage, At, Writing, Form
  <2>3. step \in (Steps \ Writing) \ Foreign
    BY DEF Waits, Steps, Writing, Form, Foreign
  <2> QED BY <1>3, <2>1, <2>2, <2>3
<1>6. CASE Persist(e)
  <2>1. PICK step \in {"open", "overview"} : Is(e, Then(e, step)) /\ gw' = gw
    BY <1>6 DEF Persist
  <2>2. client'[e] = Then(e, step) /\ Then(e, step).busy = client[e].busy
        /\ Then(e, step).pc = step /\ Then(e, step).sid = client[e].sid
    BY <2>1, Moves, ThenKeeps
  <2>3. client[e].pc = "persist"
    BY <1>6 DEF Persist, At
  <2>4. CASE Admitted(e)
    BY <1>1, <2>1, <2>2, <2>3, <2>4, Prepared, Preparing DEF Writing, Form, Foreign
  <2>5. CASE ~Admitted(e)
    BY <2>1, <2>2, <2>3, <2>5 DEF Careful, At, Admitted, Foreign
  <2> QED BY <2>4, <2>5
<1> QED BY <1>2, <1>4, <1>5, <1>6

\* The form is filled in, field by field.
LEMMA FillIsCareful ==
    ASSUME TypeOK, TypeOK', IInv, NEW e \in Editors, Careful(e), Fill(e)
    PROVE  Careful(e)'
<1> USE EditorsKeepNothing
<1> DEFINE g == IfCurrent(e, Enter(e, client[e].pc))
           step == IF At(e, "account") THEN "calls" ELSE "save"
<1>1. Exchange(e, g, Then(e, step)) /\ UNCHANGED saved /\ client[e].pc \in Form
  BY DEF Fill
<1>2. /\ Then(e, step).pc = step /\ Then(e, step).sid = client[e].sid
      /\ Then(e, step).page = client[e].page /\ Then(e, step).busy = client[e].busy
  BY ThenKeeps
<1>3. /\ g.live = gw.live /\ g.page = gw.page /\ g.saving = gw.saving /\ g.out = gw.out
      /\ g.entered = IF client[e].page = gw.page THEN gw.entered \cup {<<e, client[e].pc>>}
                     ELSE gw.entered
  BY DEF TypeOK, IfCurrent, Enter, Current
<1> HIDE DEF g
<1>4. ASSUME Admitted(e), gw' = g, client'[e] = Then(e, step)
      PROVE  Careful(e)'
  <2>1. /\ ~client[e].busy /\ ~gw.saving /\ step \in {"calls", "save"}
        /\ \A k \in DOMAIN gw.out : gw.out[k] # "busy" /\ (gw.out[k] = "phones" => gw.page = "phones")
    BY <1>1, <1>4 DEF Careful, At, Form
  <2>2. gw.page = "phones" => g.entered = Filled(e, step) /\ client[e].page = "phones"
    <3>1. ASSUME gw.page = "phones"
          PROVE  client[e].page = "phones" /\ gw.entered = Filled(e, client[e].pc)
      BY <1>1, <1>4, <3>1 DEF Careful, Writing
    <3>2. client[e].pc = "account" => Filled(e, "account") \cup {<<e, "account">>} = Filled(e, step)
      BY DEF Filled, At
    <3>3. client[e].pc = "calls" => Filled(e, "calls") \cup {<<e, "calls">>} = Filled(e, step)
      BY DEF Filled, At, Form
    <3> QED BY <1>1, <1>3, <3>1, <3>2, <3>3 DEF Form
  <2>3. gw.page \in {"login", "phones"}
    BY <1>1, <1>4 DEF Careful, Writing
  <2>4. \A k \in DOMAIN gw'.out : ~Finished(e, k)'
    <3>1. \A k \in DOMAIN gw.out : 1..(k - 1) \subseteq DOMAIN gw.out
      BY DEF TypeOK
    <3> QED BY <1>2, <1>3, <1>4, <2>1, <3>1 DEF Finished
  <2> QED
    BY <1>2, <1>3, <1>4, <2>1, <2>2, <2>3, <2>4 DEF Careful, At, Writing, Form, Foreign
<1> QED BY <1>1, <1>4, ExchangeIsCareful

\* The click that saves queues the first "busy".
LEMMA ClickSaveIsCareful ==
    ASSUME TypeOK, TypeOK', IInv, NEW e \in Editors, Careful(e), ClickSave(e)
    PROVE  Careful(e)'
<1> USE EditorsKeepNothing
<1> DEFINE g == [gw EXCEPT !.out = Append(@, "busy"), !.saving = TRUE]
<1>1. /\ Exchange(e, IfCurrent(e, g), Then(e, "saveWait")) /\ UNCHANGED saved
      /\ client[e].pc = "save"
  BY DEF ClickSave, At
<1>2. /\ Then(e, "saveWait").pc = "saveWait" /\ Then(e, "saveWait").sid = client[e].sid
      /\ Then(e, "saveWait").page = client[e].page /\ Then(e, "saveWait").busy = client[e].busy
  BY ThenKeeps
<1>3. /\ g.live = gw.live /\ g.page = gw.page /\ g.saving /\ g.out = Append(gw.out, "busy")
      /\ g.entered = gw.entered
  BY DEF TypeOK
<1>4. PICK n \in Nat : DOMAIN gw.out = 1..n /\ DOMAIN Append(gw.out, "busy") = 1..(n + 1)
                       /\ Append(gw.out, "busy")[n + 1] = "busy"
                       /\ \A k \in 1..n : Append(gw.out, "busy")[k] = gw.out[k]
  <2>1. gw.out \in Seq(Page \cup {"busy", "idle", "error"})
    BY DEF TypeOK
  <2> QED BY <2>1
<1> HIDE DEF g
<1>5. ASSUME Admitted(e)
      PROVE  /\ ~client[e].busy /\ gw.page \in {"login", "phones"}
             /\ gw.page = "phones" => client[e].page = "phones" /\ gw.entered = {e} \X Form
             /\ \A k \in DOMAIN gw.out : /\ gw.out[k] # "busy"
                                         /\ gw.out[k] = "phones" => gw.page = "phones"
             /\ ~gw.saving
  BY <1>1, <1>5 DEF Careful, At, Writing, Form, Filled
<1>6. ASSUME Admitted(e), gw' = g, client'[e] = Then(e, "saveWait"), Current(e)
      PROVE  Careful(e)'
  <2>1. gw.page = "phones"
    <3>1. client[e].page \in {"phones", "none"}
      BY <1>1 DEF IInv, PagesFit, PageFits
    <3> QED BY <1>5, <1>6, <3>1 DEF Current
  <2>2. \A k \in DOMAIN gw'.out : ~Finished(e, k)'
    <3>1. DOMAIN gw'.out = 1..(n + 1) /\ gw'.out[n + 1] = "busy" /\ ~client'[e].busy
      BY <1>2, <1>3, <1>4, <1>5, <1>6
    <3>2. \A k \in 1..n : gw'.out[k] # "busy"
      BY <1>3, <1>4, <1>5, <1>6
    <3>3. ASSUME NEW k \in 1..(n + 1), gw'.out[k] = "idle"
          PROVE  \A j \in 1..(k - 1) : j \in 1..n
      BY <3>1, <3>3
    <3> QED BY <3>1, <3>2, <3>3 DEF Finished
  <2>3. \A k \in DOMAIN gw'.out : gw'.out[k] = "phones" => gw'.page = "phones"
    BY <1>3, <1>6, <2>1
  <2> QED
    BY <1>2, <1>3, <1>5, <1>6, <2>1, <2>2, <2>3 DEF Careful, At, Writing, Form, Foreign, Filled
<1>7. ASSUME Admitted(e), gw' = gw, client'[e] = Then(e, "saveWait")
      PROVE  Careful(e)'
  <2>1. \A k \in DOMAIN gw'.out : ~Finished(e, k)'
    BY <1>2, <1>4, <1>5, <1>7 DEF Finished
  <2> QED BY <1>2, <1>5, <1>7, <2>1 DEF Careful, At, Writing, Form, Foreign, Filled
<1>8. Admitted(e) /\ gw' = IfCurrent(e, g) /\ client'[e] = Then(e, "saveWait") => Careful(e)'
  BY <1>6, <1>7 DEF IfCurrent
<1> QED BY <1>1, <1>8, ExchangeIsCareful

\* A poll takes the first fragment of the queue.
LEMMA PollTakesTheFirst ==
    ASSUME TypeOK, NextFragment
    PROVE  /\ gw'.live = gw.live /\ gw'.page = gw.page /\ gw'.entered = gw.entered
           /\ gw'.saving = gw.saving /\ gw.out # <<>> /\ Head(gw.out) = gw.out[1]
           /\ \E n \in Nat \ {0} : /\ DOMAIN gw.out = 1..n /\ DOMAIN gw'.out = 1..(n - 1)
                                   /\ \A k \in 1..(n - 1) : gw'.out[k] = gw.out[k + 1]
<1>1. gw.out # <<>> /\ gw.out \in Seq(Page \cup {"busy", "idle", "error"})
  BY DEF NextFragment, TypeOK
<1>2. /\ gw'.live = gw.live /\ gw'.page = gw.page /\ gw'.entered = gw.entered
      /\ gw'.saving = gw.saving /\ gw'.out = Tail(gw.out)
  BY DEF NextFragment, TypeOK
<1>3. /\ Len(gw.out) \in Nat \ {0} /\ DOMAIN gw.out = 1..Len(gw.out)
      /\ DOMAIN Tail(gw.out) = 1..(Len(gw.out) - 1) /\ Head(gw.out) = gw.out[1]
      /\ \A k \in 1..(Len(gw.out) - 1) : Tail(gw.out)[k] = gw.out[k + 1]
  BY <1>1
<1> QED BY <1>1, <1>2, <1>3

LEMMA PollPageIsCareful ==
    ASSUME TypeOK, TypeOK', IInv, NEW e \in Editors, Careful(e), PollPage(e)
    PROVE  Careful(e)'
<1> USE EditorsKeepNothing
<1>1. /\ Admitted(e) /\ client[e].pc \in Waits \ {"saveWait"} /\ NextFragment /\ saved' = saved
      /\ Is(e, IF Head(gw.out) = Wanted(e) THEN AfterPage(e) ELSE Then(e, client[e].pc))
  BY DEF PollPage, Polls, At
<1>2. /\ gw'.page = gw.page /\ gw'.entered = gw.entered /\ gw'.saving = gw.saving
      /\ Head(gw.out) = gw.out[1] /\ 1 \in DOMAIN gw.out
  BY <1>1, PollTakesTheFirst
<1>3. \A k \in DOMAIN gw'.out : \E j \in DOMAIN gw.out : gw'.out[k] = gw.out[j]
  <2>1. PICK n \in Nat \ {0} : /\ DOMAIN gw.out = 1..n /\ DOMAIN gw'.out = 1..(n - 1)
                               /\ \A k \in 1..(n - 1) : gw'.out[k] = gw.out[k + 1]
    BY <1>1, PollTakesTheFirst
  <2>2. \A k \in 1..(n - 1) : k + 1 \in 1..n
    OBVIOUS
  <2> QED BY <2>1, <2>2
<1>4. /\ ~client[e].busy /\ ~gw.saving
      /\ gw.page = "phones" => client[e].pc = "openWait" /\ gw.entered = {}
      /\ \A k \in DOMAIN gw.out : /\ gw.out[k] # "busy"
                                  /\ gw.out[k] = "phones" => gw.page = "phones"
  BY <1>1, Prepared DEF Waits, Writing, Form
<1>5. \A k \in DOMAIN gw'.out : /\ gw'.out[k] # "busy"
                                /\ gw'.out[k] = "phones" => gw'.page = "phones"
  BY <1>2, <1>3, <1>4
<1>6. ASSUME NEW state, client'[e] = state, ~state.busy,
             \/ state.pc = client[e].pc
             \/ client[e].pc # "openWait" /\ state.pc \in {"persist", "open"}
      PROVE  Careful(e)'
  BY <1>1, <1>2, <1>4, <1>5, <1>6, Preparing DEF Waits, Writing, Form, Foreign
<1>7. CASE Head(gw.out) # Wanted(e)
  <2>1. client'[e] = Then(e, client[e].pc)
    BY <1>1, <1>7, Moves
  <2> QED BY <1>4, <1>6, <2>1, ThenKeeps
<1>8. CASE Head(gw.out) = Wanted(e)
  <2> DEFINE found(step) == [Then(e, step) EXCEPT !.page = Wanted(e)]
  <2>1. \A step \in Steps : /\ found(step).pc = step /\ found(step).busy = client[e].busy
                            /\ found(step).page = Wanted(e)
    BY DEF TypeOK, ClientState, Then
  <2>2. client'[e] = AfterPage(e)
    BY <1>1, <1>8, Moves
  <2>3. AfterPage(e) = IF At(e, "menuWait") THEN found("persist")
                       ELSE IF At(e, "overviewWait") THEN found("open")
                       ELSE found("account")
    BY DEF AfterPage
  <2>4. {"persist", "open", "account"} \subseteq Steps
    BY DEF Steps, Sends
  <2> HIDE DEF found
  <2>5. CASE At(e, "menuWait") \/ At(e, "overviewWait")
    BY <1>4, <1>6, <2>1, <2>2, <2>3, <2>4, <2>5 DEF At
  <2>6. CASE ~At(e, "menuWait") /\ ~At(e, "overviewWait")
    <3>1. Wanted(e) = "phones" /\ client[e].pc = "openWait"
      BY <1>1, <2>6 DEF Wanted, At, Waits
    <3>2. client'[e].pc = "account" /\ ~client'[e].busy /\ client'[e].page = "phones"
      BY <1>4, <2>1, <2>2, <2>3, <2>4, <2>6, <3>1
    <3>3. gw.page = "phones"
      BY <1>2, <1>4, <1>8, <3>1
    <3>4. gw'.entered = {} /\ gw'.page = "phones" /\ ~gw'.saving
      BY <1>2, <1>4, <3>3
    <3>5. \A k \in DOMAIN gw'.out : 1..(k - 1) \subseteq DOMAIN gw'.out
      BY DEF TypeOK
    <3>6. \A k \in DOMAIN gw'.out : ~Finished(e, k)'
      BY <1>5, <3>2, <3>5 DEF Finished
    <3> QED BY <1>5, <3>2, <3>4, <3>6 DEF Careful, At, Filled, Writing, Form, Foreign
  <2> QED BY <2>5, <2>6
<1> QED BY <1>7, <1>8

LEMMA PollSaveIsCareful ==
    ASSUME TypeOK, TypeOK', IInv, NEW e \in Editors, Careful(e), PollSave(e)
    PROVE  Careful(e)'
<1> USE EditorsKeepNothing
<1> DEFINE state == [Then(e, "saveWait") EXCEPT !.busy = @ \/ Head(gw.out) = "busy"]
<1>1. /\ Admitted(e) /\ client[e].pc = "saveWait" /\ NextFragment /\ saved' = saved
      /\ Is(e, IF Head(gw.out) = "error" THEN Over("failed")
               ELSE IF BusyIsOver(e) THEN Over("done")
               ELSE state)
  BY DEF PollSave, Polls, At
<1>2. /\ gw'.live = gw.live /\ gw'.page = gw.page /\ gw'.entered = gw.entered
      /\ gw'.saving = gw.saving /\ Head(gw.out) = gw.out[1] /\ 1 \in DOMAIN gw.out
  BY <1>1, PollTakesTheFirst
<1>3. \A how : Over(how).pc = how /\ Over(how).sid = 0 /\ ~Over(how).busy
  BY DEF Over
<1>4. CASE Head(gw.out) = "error"
  <2>1. client'[e] = Over("failed")
    BY <1>1, <1>4, Moves
  <2> QED BY <1>3, <2>1, WithoutSession DEF Foreign
<1>5. CASE Head(gw.out) # "error" /\ BusyIsOver(e)
  <2>1. client'[e] = Over("done")
    BY <1>1, <1>5, Moves
  <2>2. Finished(e, 1)
    BY <1>2, <1>5 DEF Finished, BusyIsOver
  <2>3. {e} \X Form \in saved
    BY <1>1, <1>2, <2>2 DEF Careful
  <2> QED BY <1>1, <1>3, <2>1, <2>3 DEF Careful, At, Admitted, Foreign
<1>6. CASE Head(gw.out) # "error" /\ ~BusyIsOver(e)
  <2>1. client'[e] = state
    BY <1>1, <1>6, Moves
  <2>2. /\ state.pc = "saveWait" /\ state.sid = client[e].sid /\ state.page = client[e].page
        /\ state.busy <=> (client[e].busy \/ gw.out[1] = "busy")
    <3>1. client[e] \in ClientState
      BY DEF TypeOK
    <3>2. /\ Then(e, "saveWait").pc = "saveWait" /\ Then(e, "saveWait").sid = client[e].sid
          /\ Then(e, "saveWait").page = client[e].page
          /\ Then(e, "saveWait").busy = client[e].busy
      BY ThenKeeps
    <3>3. "busy" \in DOMAIN Then(e, "saveWait")
      BY <3>1 DEF ClientState, Then
    <3>4. state.busy = (Then(e, "saveWait").busy \/ Head(gw.out) = "busy")
      BY <3>3
    <3>5. state.pc = "saveWait" /\ state.sid = client[e].sid /\ state.page = client[e].page
      BY <3>2
    <3> QED BY <1>2, <3>2, <3>4, <3>5
  <2> HIDE DEF state
  <2>3. PICK n \in Nat \ {0} : /\ DOMAIN gw.out = 1..n /\ DOMAIN gw'.out = 1..(n - 1)
                               /\ \A k \in 1..(n - 1) : gw'.out[k] = gw.out[k + 1]
    BY <1>1, PollTakesTheFirst
  <2>4. ASSUME NEW k \in 1..(n - 1), Finished(e, k)'
        PROVE  Finished(e, k + 1)
    <3>1. gw.out[k + 1] = "idle"
      BY <2>3, <2>4 DEF Finished
    <3>2. client[e].busy \/ \E j \in 1..k : gw.out[j] = "busy"
      <4>1. CASE client'[e].busy
        BY <2>1, <2>2, <4>1
      <4>2. ASSUME NEW j \in 1..(k - 1), gw'.out[j] = "busy"
            PROVE  \E i \in 1..k : gw.out[i] = "busy"
        <5>1. j + 1 \in 1..k /\ gw.out[j + 1] = "busy"
          BY <2>3, <4>2
        <5> QED BY <5>1
      <4> QED BY <2>4, <4>1, <4>2 DEF Finished
    <3>3. ASSUME NEW j \in 1..k
          PROVE  gw.out[j] # "error"
      <4>1. CASE j = 1
        BY <1>2, <1>6, <4>1
      <4>2. CASE j # 1
        <5>1. j - 1 \in 1..(k - 1) /\ gw'.out[j - 1] = gw.out[j]
          BY <2>3, <4>2
        <5> QED BY <2>4, <5>1 DEF Finished
      <4> QED BY <4>1, <4>2
    <3>4. 1..((k + 1) - 1) = 1..k
      OBVIOUS
    <3> QED BY <3>1, <3>2, <3>3, <3>4 DEF Finished
  <2>5. \A k \in 1..(n - 1) : k + 1 \in DOMAIN gw.out
    BY <2>3
  <2>6. \A k \in DOMAIN gw'.out : /\ gw'.out[k] = "phones" => gw'.page = "phones"
                                  /\ Finished(e, k)' => {e} \X Form \in saved'
    <3>1. ASSUME NEW k \in 1..(n - 1)
          PROVE  /\ gw.out[k + 1] = "phones" => gw.page = "phones"
                 /\ Finished(e, k + 1) => {e} \X Form \in saved
      BY <1>1, <2>5 DEF Careful
    <3> QED BY <1>1, <1>2, <2>3, <2>4, <3>1
  <2>7. /\ client'[e].pc = "saveWait" /\ client'[e].page = client[e].page
    BY <2>1, <2>2
  <2> QED BY <1>1, <1>2, <2>6, <2>7 DEF Careful, At, Writing, Form, Foreign, Filled
<1> QED BY <1>4, <1>5, <1>6

\* The session of an editor ends, or begins.
LEMMA SessionIsCareful ==
    ASSUME TypeOK, IInv, NEW e \in Editors, Careful(e), Refused(e) \/ OpenSession(e)
    PROVE  Careful(e)'
<1> USE EditorsKeepNothing
<1>1. CASE Refused(e)
  <2>1. CASE Invalidate(e)
    <3> DEFINE state == [client[e] EXCEPT !.sid = 0, !.restored = FALSE, !.again = TRUE, !.page = "none"]
    <3>1. state.sid = 0 /\ state.busy = client[e].busy /\ state.pc = client[e].pc
      BY DEF TypeOK, ClientState
    <3>2. client'[e] = state
      BY <2>1, Moves DEF Invalidate
    <3> HIDE DEF state
    <3>3. client[e].pc # "done"
      BY <1>1 DEF Refused, Asking, Sends, Waits
    <3> QED BY <3>1, <3>2, <3>3 DEF Careful, At, Admitted
  <2> QED BY <1>1, <2>1, RaiseIsCareful DEF Refused
<1>2. CASE OpenSession(e)
  <2> DEFINE state == [client[e] EXCEPT !.sid = NewSid, !.restored = FALSE]
             g == [NoSession EXCEPT !.live = NewSid]
  <2>1. state.busy = client[e].busy /\ state.pc = client[e].pc
    BY DEF TypeOK, ClientState
  <2>2. g.page = "login" /\ g.out = <<>> /\ ~g.saving
    BY DEF NoSession
  <2> HIDE DEF state, g
  <2>3. CASE Is(e, state) /\ gw' = g
    <3>1. client'[e] = state
      BY <2>3, Moves
    <3>2. client[e].pc # "done"
      BY <1>2 DEF OpenSession, Asking, Sends, Waits
    <3> QED BY <2>1, <2>2, <2>3, <3>1, <3>2 DEF Careful, At
  <2> QED BY <1>2, <2>3, RaiseIsCareful DEF OpenSession, state, g
<1> QED BY <1>1, <1>2

LEMMA OwnStepIsCareful ==
    ASSUME TypeOK, TypeOK', IInv, NEW e \in Editors, Careful(e),
           Start(e) \/ Works(e) \/ Deadline(e) \/ TransportFails(e) \/ Interrupt(e)
    PROVE  Careful(e)'
<1> USE EditorsKeepNothing
<1>1. CASE Start(e)
  <2>1. Construct(e, 1).sid = 0 /\ ~Construct(e, 1).busy /\ Construct(e, 1).pc = "reload"
    BY DEF Construct, Over
  <2>2. client'[e] = Construct(e, 1)
    BY <1>1, Moves DEF Start
  <2> QED BY <2>1, <2>2, WithoutSession DEF Foreign
<1>2. CASE Interrupt(e)
  <2>1. client'[e] = Over("failed")
    BY <1>2, Moves DEF Interrupt
  <2> QED BY <2>1, WithoutSession DEF Over, Foreign
<1>3. CASE Deadline(e) \/ TransportFails(e)
  BY <1>3, RaiseIsCareful DEF Deadline, TransportFails
<1>4. CASE Refused(e) \/ OpenSession(e)
  BY <1>4, SessionIsCareful
<1>5. CASE \/ Reload(e) \/ EnterUser(e) \/ EnterPassword(e) \/ Persist(e)
           \/ ClickOverview(e) \/ OpenPage(e)
  <2>1. UNCHANGED saved
    BY <1>5 DEF Reload, EnterUser, EnterPassword, Persist, ClickOverview, OpenPage
  <2> QED BY <1>5, <2>1, PreparationIsCareful
<1>6. CASE Fill(e)
  BY <1>6, FillIsCareful
<1>7. CASE ClickSave(e)
  BY <1>7, ClickSaveIsCareful
<1>8. CASE Upload(e) \/ ClickApply(e)
  BY <1>8 DEF Upload, ClickApply, At, Careful, Foreign
<1>9. CASE PollNothing(e)
  <2>1. client'[e] = Then(e, client[e].pc) /\ gw' = gw /\ saved' = saved
    BY <1>9, Moves DEF PollNothing
  <2>2. /\ client'[e].pc = client[e].pc /\ client'[e].sid = client[e].sid
        /\ client'[e].page = client[e].page /\ client'[e].busy = client[e].busy
    BY <2>1, ThenKeeps
  <2> QED BY <2>1, <2>2 DEF Careful, At, Admitted, Finished
<1>10. CASE PollPage(e)
  BY <1>10, PollPageIsCareful
<1>11. CASE PollSave(e)
  BY <1>11, PollSaveIsCareful
<1> QED BY <1>1, <1>2, <1>3, <1>4, <1>5, <1>6, <1>7, <1>8, <1>9, <1>10, <1>11 DEF Works

\* What the gateway saves is the form of the editor that clicked.
LEMMA FinishSavingIsCareful ==
    ASSUME TypeOK, NEW e \in Editors, Careful(e), FinishSaving
    PROVE  Careful(e)'
<1> DEFINE Out == Seq(Page \cup {"busy", "idle", "error"})
<1>1. gw.out \in Out /\ client' = client /\ saved \subseteq saved'
  BY DEF TypeOK, FinishSaving
<1>2. /\ gw'.live = gw.live /\ gw'.page = gw.page /\ gw'.entered = gw.entered /\ ~gw'.saving
      /\ \/ gw'.out = Append(gw.out, "idle") /\ gw.entered \in saved'
         \/ gw'.out = gw.out \o <<"error", "idle">>
  BY DEF FinishSaving, TypeOK
<1>3. PICK n \in Nat :
          /\ DOMAIN gw.out = 1..n
          /\ DOMAIN Append(gw.out, "idle") = 1..(n + 1) /\ Append(gw.out, "idle")[n + 1] = "idle"
          /\ \A k \in 1..n : Append(gw.out, "idle")[k] = gw.out[k]
          /\ DOMAIN (gw.out \o <<"error", "idle">>) = 1..(n + 2)
          /\ (gw.out \o <<"error", "idle">>)[n + 1] = "error"
          /\ (gw.out \o <<"error", "idle">>)[n + 2] = "idle"
          /\ \A k \in 1..n : (gw.out \o <<"error", "idle">>)[k] = gw.out[k]
  <2>1. Len(gw.out) \in Nat /\ DOMAIN gw.out = 1..Len(gw.out)
    BY <1>1
  <2>2. /\ DOMAIN Append(gw.out, "idle") = 1..(Len(gw.out) + 1)
        /\ Append(gw.out, "idle")[Len(gw.out) + 1] = "idle"
        /\ \A k \in 1..Len(gw.out) : Append(gw.out, "idle")[k] = gw.out[k]
    BY <1>1
  <2>3. <<"error", "idle">> \in Out
    OBVIOUS
  <2>4. DOMAIN (gw.out \o <<"error", "idle">>) = 1..(Len(gw.out) + 2)
    BY <1>1, <2>3
  <2>5. \A k \in 1..Len(gw.out) : (gw.out \o <<"error", "idle">>)[k] = gw.out[k]
    BY <1>1, <2>1, <2>3
  <2>6. /\ (gw.out \o <<"error", "idle">>)[Len(gw.out) + 1] = "error"
        /\ (gw.out \o <<"error", "idle">>)[Len(gw.out) + 2] = "idle"
    BY <1>1, <2>1, <2>3
  <2> QED BY <2>1, <2>2, <2>4, <2>5, <2>6
<1>4. CASE ~Admitted(e)
  BY <1>1, <1>2, <1>4 DEF Careful, At, Admitted
<1>5. CASE Admitted(e)
  <2>1. /\ client[e].pc = "saveWait" /\ gw.page = "phones" /\ gw.entered = {e} \X Form
        /\ client[e].page = "phones"
    BY <1>5 DEF Careful, At, Filled, Writing, Form, FinishSaving
  <2>2. CASE gw'.out = Append(gw.out, "idle") /\ gw.entered \in saved'
    BY <1>1, <1>2, <2>1, <2>2 DEF Careful, At, Filled, Writing, Form, Foreign
  <2>3. CASE gw'.out = gw.out \o <<"error", "idle">>
    <3>1. /\ DOMAIN gw'.out = 1..(n + 2) /\ gw'.out[n + 1] = "error" /\ gw'.out[n + 2] = "idle"
          /\ \A k \in 1..n : gw'.out[k] = gw.out[k]
      BY <1>3, <2>3
    <3>2. ASSUME NEW k \in 1..(n + 2), Finished(e, k)'
          PROVE  k \in 1..n /\ Finished(e, k)
      <4>1. n + 1 \notin 1..(k - 1) /\ k # n + 1
        BY <3>1, <3>2 DEF Finished
      <4>2. k \in 1..n
        BY <4>1
      <4>3. \A j \in 1..k : gw'.out[j] = gw.out[j]
        BY <3>1, <4>2
      <4> QED BY <1>1, <3>2, <4>2, <4>3 DEF Finished
    <3>3. \A k \in DOMAIN gw'.out : Finished(e, k)' => {e} \X Form \in saved'
      BY <1>1, <1>3, <1>5, <3>1, <3>2 DEF Careful
    <3> QED BY <1>1, <1>2, <2>1, <3>3 DEF Careful, At, Filled, Writing, Form, Foreign
  <2> QED BY <1>2, <2>2, <2>3
<1> QED BY <1>4, <1>5

LEMMA CarefulStep == TypeOK /\ TypeOK' /\ IInv /\ AllCareful /\ [Next]_vars => AllCareful'
<1> SUFFICES ASSUME TypeOK, TypeOK', IInv, AllCareful, [Next]_vars, NEW e \in Editors
             PROVE  Careful(e)'
  BY DEF AllCareful
<1>1. Careful(e) /\ e \in Procs
  BY EditorsKeepNothing DEF AllCareful
<1>2. ASSUME NEW p \in Procs, Start(p) \/ Works(p) \/ Deadline(p) \/ TransportFails(p) \/ Interrupt(p)
      PROVE  Careful(e)'
  <2>1. CASE p = e
    BY <1>1, <1>2, <2>1, OwnStepIsCareful
  <2>2. CASE p # e
    BY <1>1, <1>2, <2>2, CommandAlone, OthersStayAway
  <2> QED BY <2>1, <2>2
<1>3. CASE Expire
  <2>1. gw'.live = 0 /\ client' = client /\ saved' = saved
    BY <1>3 DEF Expire, NoSession
  <2> QED BY <1>1, <2>1, Elsewhere DEF Admitted
<1>4. CASE FinishSaving
  BY <1>1, <1>4, FinishSavingIsCareful
<1>5. CASE BrowserOpens
  <2>1. /\ Fresh # {} /\ gw'.live = NewSid /\ client' = client /\ saved' = saved
    BY <1>5 DEF BrowserOpens, NoSession
  <2>2. client[e].sid # NewSid
    BY <1>1, <2>1, NewSidIsFresh DEF Remembered
  <2> QED BY <1>1, <2>1, <2>2, Elsewhere DEF Admitted
<1>6. CASE UNCHANGED vars
  BY <1>1, <1>6, Elsewhere DEF vars, Admitted
<1> QED BY <1>2, <1>3, <1>4, <1>5, <1>6 DEF Next

\* create_sip_client returns only when the gateway has saved its whole form, and
\* no other field (_wait_for_sip_save, 1145-1173), whatever fails on the way.
THEOREM WhatIsReportedIsSaved == Spec => []SavedAsReported
<1>1. Init => AllCareful
  <2>1. ASSUME Init, NEW e \in Editors
        PROVE  Careful(e)
    <3>1. client[e].pc = "idle" /\ client[e].sid = 0 /\ ~client[e].busy
      BY <2>1, EditorsKeepNothing DEF Init, Over
    <3> QED BY <3>1 DEF Careful, At, Admitted, Foreign
  <2> QED BY <2>1 DEF AllCareful
<1>2. AllCareful => SavedAsReported
  BY DEF AllCareful, Careful, SavedAsReported
<1> QED BY <1>1, <1>2, CarefulStep, Inductive, TypeCorrect, PTL DEF Spec

-----------------------------------------------------------------------------
(***************************************************************************)
(* One command at a time, in sessions that end when nobody uses them.  All *)
(* but the first step of a command then find its session as it was left,   *)
(* with the page its widget ids were read from.                            *)
(***************************************************************************)
Undisturbed == ~Concurrent /\ "early" \notin Faults

\* Where a command uses widget ids, or is about to.
Using == (Sends \cup {"persist", "upload"}) \ {"reload"}

Sole(p) ==
    /\ ~Running(p) => client[p].sid = 0
    /\ Running(p) => \A q \in Procs \ {p} : ~Running(q)
    /\ At(p, "reload") /\ client[p].sid # 0 /\ client[p].sid = cache =>
          client[p].restored /\ ~client[p].again
    /\ Running(p) /\ ~At(p, "reload") => Admitted(p)
    /\ client[p].pc \in Using => Current(p)
    /\ At(p, "password") => gw.page = "login" /\ <<p, "user">> \in gw.entered
    /\ client[p].pc \in {"menuWait", "overviewWait"} => gw.page = "menu"
    /\ At(p, "openWait") => gw.page = Target(p)
    /\ At(p, "saveWait") => p \in Editors

AllSole == \A p \in Procs : Sole(p)

Acts(p) == Start(p) \/ Works(p) \/ Deadline(p) \/ TransportFails(p) \/ Interrupt(p)

LEMMA StepNames ==
    /\ Steps \cap Ends = {} /\ "reload" \in Steps
    /\ Sends \cup Waits \subseteq Steps
    /\ Using \subseteq Steps \ (Waits \cup {"reload"})
    /\ Steps = Using \cup Waits \cup {"reload"}
BY DEF Steps, Sends, Waits, Ends, Using

LEMMA WhoActsRuns ==
    ASSUME NEW p \in Procs, Acts(p), ~Start(p)
    PROVE  Running(p)
BY DEF Acts, Works, Deadline, TransportFails, Interrupt, Refused, OpenSession, Reload, EnterUser,
   EnterPassword, Persist, ClickOverview, OpenPage, Fill, ClickSave, Upload, ClickApply,
   PollNothing, PollPage, PollSave, Polls, Asking, Running, At, Steps, Sends, Waits, Form

LEMMA OthersRest ==
    ASSUME Undisturbed, TypeOK, AllSole, NEW p \in Procs, Acts(p), NEW q \in Procs \ {p}
    PROVE  ~Running(q)' /\ Sole(q)'
<1>1. client'[q] = client[q]
  BY CommandAlone DEF Acts, Alone, OnlyMoves
<1>2. ~Running(q)
  <2>1. CASE Start(p)
    BY <2>1 DEF Start, Undisturbed
  <2>2. CASE ~Start(p)
    BY <2>2, WhoActsRuns DEF AllSole, Sole
  <2> QED BY <2>1, <2>2
<1>3. client[q].sid = 0 /\ client[q].pc \notin Steps
  BY <1>2 DEF AllSole, Sole, Running
<1> QED BY <1>1, <1>3, StepNames DEF Sole, Running, At, Sends, Waits

\* A command that is over, and one that begins.
LEMMA RestsAlone ==
    ASSUME NEW p \in Procs, client'[p].pc \in Ends, client'[p].sid = 0
    PROVE  Sole(p)'
BY StepNames DEF Sole, Running, At, Using, Steps, Sends, Waits

LEMMA BeginsAlone ==
    ASSUME NEW p \in Procs, client'[p].pc = "reload", \A q \in Procs \ {p} : ~Running(q)',
           client'[p].sid # 0 /\ client'[p].sid = cache' => client'[p].restored /\ ~client'[p].again
    PROVE  Sole(p)'
BY StepNames DEF Sole, Running, At, Using

LEMMA RaisesAlone ==
    ASSUME TypeOK, NEW p \in Procs, NEW transport, Raise(p, transport),
           \A q \in Procs \ {p} : ~Running(q)'
    PROVE  Sole(p)'
<1>1. PICK state : /\ Is(p, state)
                   /\ \/ state = Over("failed")
                      \/ \E tries : state = Construct(p, tries)
  BY DEF Raise
<1>2. client'[p] = state
  BY <1>1, Moves
<1>3. CASE state = Over("failed")
  BY <1>2, <1>3, RestsAlone DEF Over, Ends
<1>4. CASE \E tries : state = Construct(p, tries)
  <2>1. state.pc = "reload" /\ (state.sid # 0 => state.restored) /\ ~state.again
    BY <1>4 DEF Construct, Over
  <2> QED BY <1>2, <2>1, BeginsAlone
<1> QED BY <1>1, <1>3, <1>4

\* A command that goes on in its session.
LEMMA GoesOnAlone ==
    ASSUME NEW p \in Procs, NEW step \in Steps \ {"reload"}, client'[p].pc = step,
           \A q \in Procs \ {p} : ~Running(q)', Admitted(p)',
           step \in Using => Current(p)',
           step = "password" => gw'.page = "login" /\ <<p, "user">> \in gw'.entered,
           step \in {"menuWait", "overviewWait"} => gw'.page = "menu",
           step = "openWait" => gw'.page = Target(p),
           step = "saveWait" => p \in Editors
    PROVE  Sole(p)'
BY DEF Sole, Running, At

LEMMA ExchangesAlone ==
    ASSUME TypeOK, NEW p \in Procs, NEW g, NEW state, Exchange(p, g, state),
           \A q \in Procs \ {p} : ~Running(q)',
           Admitted(p) /\ gw' = g /\ client'[p] = state => Sole(p)'
    PROVE  Sole(p)'
BY Moves, RaisesAlone DEF Exchange

\* What the clicks show.
LEMMA PageIsShown ==
    ASSUME TypeOK, NEW page \in Page
    PROVE  Show(page).live = gw.live /\ Show(page).page = page
BY DEF TypeOK, Show

LEMMA ThenAlone ==
    ASSUME TypeOK, NEW p \in Procs, NEW step \in Steps \ {"reload"}, NEW g,
           Exchange(p, g, Then(p, step)), \A q \in Procs \ {p} : ~Running(q)',
           g.live = gw.live,
           step \in Using => client[p].page = g.page,
           step = "password" => g.page = "login" /\ <<p, "user">> \in g.entered,
           step \in {"menuWait", "overviewWait"} => g.page = "menu",
           step = "openWait" => g.page = Target(p),
           step = "saveWait" => p \in Editors
    PROVE  Sole(p)'
<1>1. Admitted(p)
  BY DEF Exchange
<1>2. ASSUME gw' = g, client'[p] = Then(p, step)
      PROVE  Sole(p)'
  <2>1. client'[p].pc = step /\ client'[p].sid = client[p].sid /\ client'[p].page = client[p].page
    BY <1>2, ThenKeeps
  <2>2. Admitted(p)' /\ (step \in Using => Current(p)')
    BY <1>1, <1>2, <2>1 DEF Admitted, Current
  <2> QED BY <1>2, <2>1, <2>2, GoesOnAlone
<1> QED BY <1>2, ExchangesAlone

LEMMA LoginAlone ==
    ASSUME TypeOK, IInv, NEW p \in Procs, Sole(p), \A q \in Procs \ {p} : ~Running(q)',
           Reload(p) \/ EnterUser(p) \/ EnterPassword(p) \/ Persist(p)
    PROVE  Sole(p)'
<1>1. CASE Reload(p)
  <2> DEFINE step == IF gw.page = "login" THEN "user" ELSE "persist"
             state == [Then(p, step) EXCEPT !.page = gw.page]
  <2>1. PICK g \in {gw, [gw EXCEPT !.out = <<>>]} : Exchange(p, g, state)
    BY <1>1 DEF Reload
  <2>2. g.page = gw.page /\ g.live = gw.live
    BY DEF TypeOK
  <2>3. state.pc = step /\ state.sid = client[p].sid /\ state.page = gw.page
    BY DEF TypeOK, ClientState, Then
  <2>4. step \in {"user", "persist"} /\ {"user", "persist"} \subseteq Steps \ {"reload"}
    BY DEF Steps, Sends
  <2> HIDE DEF state, step
  <2>5. ASSUME Admitted(p), gw' = g, client'[p] = state
        PROVE  Sole(p)'
    <3>1. Admitted(p)' /\ Current(p)'
      BY <2>2, <2>3, <2>5 DEF Admitted, Current
    <3> QED BY <2>3, <2>4, <2>5, <3>1, GoesOnAlone
  <2> QED BY <2>1, <2>5, ExchangesAlone
<1>2. CASE EnterUser(p)
  <2> DEFINE g == Enter(p, "user")
  <2>1. At(p, "user") /\ Exchange(p, IfCurrent(p, g), Then(p, "password"))
    BY <1>2 DEF EnterUser
  <2>2. Current(p) /\ client[p].page \in {"login", "none"} /\ gw.page \in Page
    BY <2>1 DEF Sole, At, Using, Sends, IInv, PagesFit, PageFits, TypeOK
  <2>3. gw.page = "login" /\ IfCurrent(p, g) = g
    BY <2>2 DEF Current, IfCurrent, Page, Views
  <2>4. g.live = gw.live /\ g.page = gw.page /\ <<p, "user">> \in g.entered
    BY DEF TypeOK, Enter
  <2>5. "password" \in Steps \ {"reload"}
    BY DEF Steps, Sends
  <2> HIDE DEF g
  <2> QED BY <2>1, <2>2, <2>3, <2>4, <2>5, ThenAlone DEF Current
<1>3. CASE EnterPassword(p)
  <2> DEFINE g == IF <<p, "user">> \in gw.entered THEN IfCurrent(p, Show("menu")) ELSE gw
  <2>1. At(p, "password") /\ Exchange(p, g, Then(p, "menuWait"))
    BY <1>3 DEF EnterPassword
  <2>2. Current(p) /\ <<p, "user">> \in gw.entered
    BY <2>1 DEF Sole, At, Using, Sends
  <2>3. g.live = gw.live /\ g.page = "menu"
    BY <2>2, PageIsShown DEF IfCurrent, Page
  <2>4. "menuWait" \in Steps \ {"reload"} /\ "menuWait" \notin Using
    BY DEF Steps, Waits, Using, Sends
  <2> HIDE DEF g
  <2> QED BY <2>1, <2>3, <2>4, ThenAlone
<1>4. CASE Persist(p)
  <2>1. PICK step \in {"open", "overview"} : At(p, "persist") /\ Is(p, Then(p, step)) /\ gw' = gw
    BY <1>4 DEF Persist
  <2>2. /\ client'[p].pc = step /\ client'[p].sid = client[p].sid
        /\ client'[p].page = client[p].page
    BY <2>1, Moves, ThenKeeps
  <2>3. Current(p) /\ Admitted(p)
    BY <2>1 DEF Sole, At, Using, Running, Steps
  <2>4. step \in Steps \ {"reload"} /\ Current(p)' /\ Admitted(p)'
    BY <2>1, <2>2, <2>3 DEF Steps, Sends, Current, Admitted
  <2> QED BY <2>2, <2>4, GoesOnAlone
<1> QED BY <1>1, <1>2, <1>3, <1>4

LEMMA UseAlone ==
    ASSUME TypeOK, IInv, NEW p \in Procs, Sole(p), \A q \in Procs \ {p} : ~Running(q)',
           ClickOverview(p) \/ OpenPage(p) \/ Fill(p) \/ ClickSave(p) \/ Upload(p) \/ ClickApply(p)
    PROVE  Sole(p)'
<1>1. client[p].pc \in Using /\ Current(p) /\ Admitted(p)
  <2>1. client[p].pc \in Using
    BY DEF ClickOverview, OpenPage, Fill, ClickSave, Upload, ClickApply, At, Using, Sends, Form
  <2> QED BY <2>1, StepNames DEF Sole, Running, At
<1>2. CASE ClickOverview(p)
  <2>1. Exchange(p, Show("menu"), Then(p, "overviewWait"))
    BY <1>1, <1>2 DEF ClickOverview, IfCurrent
  <2>2. Show("menu").live = gw.live /\ Show("menu").page = "menu"
    BY PageIsShown DEF Page
  <2>3. "overviewWait" \in Steps \ {"reload"} /\ "overviewWait" \notin Using
    BY DEF Steps, Waits, Using, Sends
  <2> QED BY <2>1, <2>2, <2>3, ThenAlone
<1>3. CASE OpenPage(p)
  <2>1. Exchange(p, Show(Target(p)), Then(p, "openWait"))
    BY <1>1, <1>3 DEF OpenPage, IfCurrent
  <2>2. Show(Target(p)).live = gw.live /\ Show(Target(p)).page = Target(p)
    BY TargetIsPage, PageIsShown
  <2>3. "openWait" \in Steps \ {"reload"} /\ "openWait" \notin Using
    BY DEF Steps, Waits, Using, Sends
  <2> QED BY <2>1, <2>2, <2>3, ThenAlone
<1>4. CASE Fill(p)
  <2> DEFINE g == IfCurrent(p, Enter(p, client[p].pc))
  <2>1. PICK step \in {"calls", "save"} : Exchange(p, g, Then(p, step))
    BY <1>4 DEF Fill
  <2>2. g.live = gw.live /\ g.page = gw.page
    BY DEF TypeOK, Enter, IfCurrent
  <2>3. step \in Steps \ {"reload"} /\ step \notin Waits /\ step # "password"
    BY DEF Steps, Sends, Waits
  <2> HIDE DEF g
  <2> QED BY <1>1, <2>1, <2>2, <2>3, ThenAlone DEF Current, Waits
<1>5. CASE ClickSave(p)
  <2> DEFINE g == IfCurrent(p, [gw EXCEPT !.out = Append(@, "busy"), !.saving = TRUE])
  <2>1. Exchange(p, g, Then(p, "saveWait")) /\ client[p].pc = "save"
    BY <1>5 DEF ClickSave, At
  <2>2. g.live = gw.live
    BY DEF TypeOK, IfCurrent
  <2>3. p \in Editors
    BY <2>1 DEF IInv, PagesFit, PageFits
  <2>4. "saveWait" \in Steps \ {"reload"} /\ "saveWait" \notin Using
    BY DEF Steps, Waits, Using, Sends
  <2> HIDE DEF g
  <2> QED BY <2>1, <2>2, <2>3, <2>4, ThenAlone
<1>6. CASE Upload(p)
  <2>1. Is(p, Then(p, "apply")) /\ gw' = gw
    BY <1>6 DEF Upload
  <2>2. /\ client'[p].pc = "apply" /\ client'[p].sid = client[p].sid
        /\ client'[p].page = client[p].page
    BY <2>1, Moves, ThenKeeps
  <2>3. "apply" \in Steps \ {"reload"}
    BY DEF Steps, Sends
  <2>4. Current(p)' /\ Admitted(p)'
    BY <1>1, <2>1, <2>2 DEF Current, Admitted
  <2> QED BY <2>2, <2>3, <2>4, GoesOnAlone
<1>7. CASE ClickApply(p)
  <2>1. Over("done").pc = "done" /\ Over("done").sid = 0
    BY DEF Over
  <2> QED BY <1>7, <2>1, RestsAlone, ExchangesAlone DEF ClickApply, Ends
<1> QED BY <1>2, <1>3, <1>4, <1>5, <1>6, <1>7

LEMMA PollAlone ==
    ASSUME TypeOK, IInv, NEW p \in Procs, Sole(p), \A q \in Procs \ {p} : ~Running(q)',
           PollNothing(p) \/ PollPage(p) \/ PollSave(p)
    PROVE  Sole(p)'
<1>1. client[p].pc \in Waits /\ Admitted(p) /\ gw'.live = gw.live /\ gw'.page = gw.page
  BY DEF PollNothing, PollPage, PollSave, Polls, NextFragment, TypeOK
<1>2. client[p].pc \in Steps \ {"reload"} /\ client[p].pc \notin Using
  BY <1>1, StepNames DEF Waits
<1>3. ASSUME NEW state, Is(p, state), state.pc = client[p].pc, state.sid = client[p].sid
      PROVE  Sole(p)'
  <2>1. client'[p] = state /\ Admitted(p)'
    BY <1>1, <1>3, Moves DEF Admitted
  <2> QED BY <1>1, <1>2, <1>3, <2>1, GoesOnAlone DEF Sole, Waits, At
<1>4. ASSUME NEW how \in Ends, Is(p, Over(how))
      PROVE  Sole(p)'
  <2>1. client'[p] = Over(how)
    BY <1>4, Moves
  <2> QED BY <2>1, RestsAlone DEF Over
<1>5. CASE PollNothing(p)
  BY <1>3, <1>5, ThenKeeps DEF PollNothing
<1>6. CASE PollSave(p)
  <2> DEFINE state == [Then(p, "saveWait") EXCEPT !.busy = @ \/ Head(gw.out) = "busy"]
  <2>1. state.pc = "saveWait" /\ state.sid = client[p].sid /\ client[p].pc = "saveWait"
    BY <1>6 DEF PollSave, At, Then, TypeOK, ClientState
  <2> HIDE DEF state
  <2> QED BY <1>3, <1>4, <1>6, <2>1 DEF PollSave, state, Ends
<1>7. CASE PollPage(p)
  <2> DEFINE found(step) == [Then(p, step) EXCEPT !.page = Wanted(p)]
  <2>1. \A step : /\ found(step).pc = step /\ found(step).sid = client[p].sid
                  /\ found(step).page = Wanted(p)
    BY DEF Then, TypeOK, ClientState
  <2> HIDE DEF found
  <2>2. gw.page = Wanted(p)
    BY <1>1, <1>7 DEF Sole, PollPage, Wanted, At, Waits
  <2>3. ASSUME NEW step \in {"persist", "open", "account", "upload"}, Is(p, found(step))
        PROVE  Sole(p)'
    <3>1. client'[p] = found(step)
      BY <2>3, Moves
    <3>2. Current(p)' /\ Admitted(p)'
      BY <1>1, <2>1, <2>2, <3>1 DEF Current, Admitted
    <3>3. step \in Steps \ {"reload"}
      BY DEF Steps, Sends
    <3> QED BY <2>1, <3>1, <3>2, <3>3, GoesOnAlone
  <2>4. AfterPage(p) \in {found("persist"), found("open"), found("account"), found("upload"), Over("done")}
    BY DEF AfterPage, found
  <2>5. CASE Is(p, AfterPage(p))
    BY <1>4, <2>3, <2>4, <2>5 DEF Ends
  <2>6. CASE Is(p, Then(p, client[p].pc))
    BY <1>3, <2>6, ThenKeeps
  <2> QED BY <1>7, <2>5, <2>6 DEF PollPage
<1> QED BY <1>5, <1>6, <1>7

LEMMA OwnStepAlone ==
    ASSUME Undisturbed, TypeOK, IInv, AllSole, NEW p \in Procs, Acts(p)
    PROVE  Sole(p)'
<1>1. \A q \in Procs \ {p} : ~Running(q)'
  BY OthersRest
<1>2. Sole(p)
  BY DEF AllSole
<1>3. CASE Start(p)
  <2>1. client'[p] = Construct(p, 1)
    BY <1>3, Moves DEF Start
  <2>2. /\ Construct(p, 1).pc = "reload" /\ ~Construct(p, 1).again
        /\ Construct(p, 1).sid # 0 => Construct(p, 1).restored
    BY DEF Construct, Over
  <2> QED BY <1>1, <2>1, <2>2, BeginsAlone
<1>4. CASE Deadline(p) \/ TransportFails(p)
  BY <1>1, <1>4, RaisesAlone DEF Deadline, TransportFails
<1>5. CASE Interrupt(p)
  <2>1. client'[p] = Over("failed")
    BY <1>5, Moves DEF Interrupt
  <2> QED BY <2>1, RestsAlone DEF Over, Ends
<1>6. CASE Refused(p)
  <2>1. At(p, "reload")
    BY <1>2, <1>6 DEF Refused, Asking, Sole, Running, Steps
  <2>2. CASE Invalidate(p)
    <3> DEFINE state == [client[p] EXCEPT !.sid = 0, !.restored = FALSE, !.again = TRUE, !.page = "none"]
    <3>1. client'[p] = state
      BY <2>2, Moves DEF Invalidate
    <3>2. state.pc = "reload" /\ state.sid = 0
      BY <2>1 DEF TypeOK, ClientState, At
    <3> QED BY <1>1, <3>1, <3>2, BeginsAlone
  <2> QED BY <1>1, <1>6, <2>2, RaisesAlone DEF Refused
<1>7. CASE OpenSession(p)
  <2>1. At(p, "reload")
    BY <1>2, <1>7 DEF OpenSession, Asking, Sole, Running, Steps, Admitted
  <2>2. CASE Fresh # {} /\ Is(p, [client[p] EXCEPT !.sid = NewSid, !.restored = FALSE])
    <3> DEFINE state == [client[p] EXCEPT !.sid = NewSid, !.restored = FALSE]
    <3>1. client'[p] = state /\ state.pc = "reload" /\ state.sid = NewSid
      BY <2>1, <2>2, Moves DEF At, TypeOK, ClientState
    <3> HIDE DEF state
    <3>2. NewSid # cache
      BY <2>2, NewSidIsFresh DEF Remembered
    <3> QED BY <1>1, <1>7, <3>1, <3>2, BeginsAlone DEF OpenSession
  <2> QED BY <1>1, <1>7, <2>2, RaisesAlone DEF OpenSession
<1>8. CASE Reload(p) \/ EnterUser(p) \/ EnterPassword(p) \/ Persist(p)
  BY <1>1, <1>2, <1>8, LoginAlone
<1>9. CASE \/ ClickOverview(p) \/ OpenPage(p) \/ Fill(p) \/ ClickSave(p) \/ Upload(p)
           \/ ClickApply(p)
  BY <1>1, <1>2, <1>9, UseAlone
<1>10. CASE PollNothing(p) \/ PollPage(p) \/ PollSave(p)
  BY <1>1, <1>2, <1>10, PollAlone
<1> QED BY <1>3, <1>4, <1>5, <1>6, <1>7, <1>8, <1>9, <1>10 DEF Acts, Works

LEMMA AllSoleStep == Undisturbed /\ TypeOK /\ IInv /\ AllSole /\ [Next]_vars => AllSole'
<1> SUFFICES ASSUME Undisturbed, TypeOK, IInv, AllSole, [Next]_vars, NEW p \in Procs
             PROVE  Sole(p)'
  BY DEF AllSole
<1>1. Sole(p)
  BY DEF AllSole
<1>2. ASSUME NEW q \in Procs, Acts(q)
      PROVE  Sole(p)'
  BY <1>2, OwnStepAlone, OthersRest
<1>3. ASSUME client' = client, cache' = cache, Running(p) /\ ~At(p, "reload") => gw'.live = gw.live /\ gw'.page = gw.page /\ gw'.entered = gw.entered
      PROVE  Sole(p)'
  <2>1. CASE Running(p) /\ ~At(p, "reload")
    BY <1>1, <1>3, <2>1 DEF Sole, Running, At, Admitted, Current
  <2>2. CASE At(p, "reload")
    BY <1>1, <1>3, <2>2, StepNames DEF Sole, Running, At, Using
  <2>3. CASE ~Running(p)
    BY <1>1, <1>3, <2>3, StepNames DEF Sole, Running, At, Sends, Waits
  <2> QED BY <2>1, <2>2, <2>3
<1>4. CASE Expire
  BY <1>1, <1>3, <1>4 DEF Expire, Undisturbed, Sole, Admitted
<1>5. CASE FinishSaving
  BY <1>3, <1>5 DEF FinishSaving, TypeOK
<1>6. CASE BrowserOpens
  BY <1>1, <1>3, <1>6 DEF BrowserOpens, Sole, Admitted
<1>7. CASE UNCHANGED vars
  BY <1>3, <1>7 DEF vars
<1> QED BY <1>2, <1>4, <1>5, <1>6, <1>7 DEF Next, Acts

LEMMA CommandsAlone == Undisturbed => (Spec => []AllSole)
<1> SUFFICES ASSUME Undisturbed PROVE Spec => []AllSole
  OBVIOUS
<1>1. Init => AllSole
  <2>1. ASSUME Init, NEW p \in Procs
        PROVE  client[p].pc = "idle" /\ client[p].sid = 0 /\ client[p].pc \notin Steps
    BY <2>1, StepNames DEF Init, Over, Ends
  <2> QED BY <2>1, StepNames DEF AllSole, Sole, Running, At, Using, Sends, Waits, Steps
<1>2. TypeOK /\ IInv /\ AllSole /\ [Next]_vars => AllSole'
  BY AllSoleStep
<1> QED BY <1>1, <1>2, Inductive, PTL DEF Spec

-----------------------------------------------------------------------------
(* What is reported of an update, and what a stale cache costs *)

\* An updater has no form to fill in; it ends with the click that applies its image.
Updating(u) == At(u, "done") => u \in applied

LEMMA UpdatersClick ==
    ASSUME TypeOK, IInv, AllSole, NEW u \in Updaters, NEW p \in Procs, Acts(p), Updating(u)
    PROVE  Updating(u)'
<1>1. u \in Procs /\ u \notin Readers /\ u \notin Editors /\ OnlyMoves(p)
  BY KindAssumption, CommandAlone DEF Procs, Acts, Alone
<1>2. applied \subseteq applied'
  BY DEF Acts, Start, Works, Deadline, TransportFails, Interrupt, Refused, OpenSession, Reload,
     EnterUser, EnterPassword, Persist, ClickOverview, OpenPage, Fill, ClickSave, Upload,
     ClickApply, PollNothing, PollPage, PollSave
<1>3. CASE p # u
  BY <1>1, <1>2, <1>3 DEF Updating, At, OnlyMoves
<1>4. CASE p = u /\ ClickApply(u)
  <2>1. Current(u)
    BY <1>1, <1>4 DEF ClickApply, At, AllSole, Sole, Using, Sends
  <2> QED BY <1>4, <2>1 DEF ClickApply, Updating
<1>5. CASE p = u /\ ~ClickApply(u)
  <2>1. ASSUME NEW state, Is(u, state), state.pc # "done"
        PROVE  Updating(u)'
    BY <1>1, <2>1, Moves DEF Updating, At
  <2>2. \A how, tries : /\ Over(how).pc = how /\ Construct(u, tries).pc = "reload"
    BY DEF Over, Construct
  <2>3. \A step : Then(u, step).pc = step
    BY <1>1, ThenKeeps
  <2>4. ASSUME NEW transport, Raise(u, transport)
        PROVE  Updating(u)'
    BY <2>1, <2>2, <2>4 DEF Raise
  <2>5. ASSUME NEW g, NEW step \in Steps, Exchange(u, g, Then(u, step))
        PROVE  Updating(u)'
    BY <2>1, <2>3, <2>4, <2>5, StepNames DEF Exchange, Ends
  <2>6. CASE Start(u) \/ Interrupt(u) \/ Deadline(u) \/ TransportFails(u)
    BY <2>1, <2>2, <2>4, <2>6 DEF Start, Interrupt, Deadline, TransportFails
  <2>7. CASE Refused(u)
    <3> DEFINE state == [client[u] EXCEPT !.sid = 0, !.restored = FALSE, !.again = TRUE, !.page = "none"]
    <3>1. CASE Invalidate(u)
      <4>1. state.pc = client[u].pc /\ client[u].pc # "done"
        BY <1>1, <2>7 DEF TypeOK, ClientState, Refused, Asking, Sends, Waits
      <4> HIDE DEF state
      <4> QED BY <2>1, <3>1, <4>1 DEF Invalidate, state
    <3> QED BY <2>4, <2>7, <3>1 DEF Refused
  <2>8. CASE OpenSession(u)
    <3> DEFINE state == [client[u] EXCEPT !.sid = NewSid, !.restored = FALSE]
    <3>1. state.pc = client[u].pc /\ client[u].pc # "done"
      BY <1>1, <2>8 DEF TypeOK, ClientState, OpenSession, Asking, Sends, Waits
    <3> HIDE DEF state
    <3> QED BY <2>1, <2>4, <2>8, <3>1 DEF OpenSession, state
  <2>9. CASE Reload(u)
    <3> DEFINE state == [Then(u, IF gw.page = "login" THEN "user" ELSE "persist") EXCEPT !.page = gw.page]
    <3>1. state.pc # "done"
      BY <1>1 DEF Then, TypeOK, ClientState
    <3> HIDE DEF state
    <3>2. PICK g : Exchange(u, g, state)
      BY <2>9 DEF Reload, state
    <3> QED BY <2>1, <2>4, <3>1, <3>2 DEF Exchange
  <2>10. CASE \/ EnterUser(u) \/ EnterPassword(u) \/ ClickOverview(u) \/ OpenPage(u)
              \/ Fill(u) \/ ClickSave(u)
    BY <2>5, <2>10 DEF EnterUser, EnterPassword, ClickOverview, OpenPage, Fill, ClickSave, Steps,
       Sends, Waits
  <2>11. CASE Persist(u) \/ Upload(u) \/ PollNothing(u)
    BY <2>1, <2>3, <2>11 DEF Persist, Upload, PollNothing, Polls, Waits
  <2>12. CASE PollPage(u)
    <3>1. AfterPage(u).pc # "done"
      BY <1>1 DEF AfterPage, Then, TypeOK, ClientState
    <3>2. Then(u, client[u].pc).pc # "done"
      BY <2>3, <2>12 DEF PollPage, Polls, Waits
    <3> QED BY <2>1, <2>12, <3>1, <3>2 DEF PollPage
  <2>13. CASE PollSave(u)
    BY <1>1, <2>13 DEF PollSave, AllSole, Sole
  <2> QED BY <1>5, <2>6, <2>7, <2>8, <2>9, <2>10, <2>11, <2>12, <2>13 DEF Acts, Works
<1> QED BY <1>3, <1>4, <1>5

\* firmware_update reports success only after the click that applies its image named
\* something, if no other command works meanwhile and the gateway closes no session that is
\* used: finding 4 needs one or the other (tks_web.py:1330-1338).
THEOREM ReportedUpdatesAreTriggered ==
    ASSUME Undisturbed
    PROVE  Spec => []UpdateIsTriggered
<1>1. Init => UpdateIsTriggered
  BY DEF Init, UpdateIsTriggered, At, Over, Procs
<1>2. TypeOK /\ IInv /\ AllSole /\ UpdateIsTriggered /\ [Next]_vars => UpdateIsTriggered'
  <2> SUFFICES ASSUME TypeOK, IInv, AllSole, UpdateIsTriggered, [Next]_vars, NEW u \in Updaters
               PROVE  Updating(u)'
    BY DEF UpdateIsTriggered, Updating
  <2>1. Updating(u)
    BY DEF UpdateIsTriggered, Updating
  <2>2. ASSUME NEW p \in Procs, Acts(p)
        PROVE  Updating(u)'
    BY <2>1, <2>2, UpdatersClick
  <2>3. CASE Expire \/ FinishSaving \/ BrowserOpens \/ UNCHANGED vars
    BY <2>1, <2>3 DEF Expire, FinishSaving, BrowserOpens, vars, Updating, At
  <2> QED BY <2>2, <2>3 DEF Next, Acts
<1> QED BY <1>1, <1>2, CommandsAlone, Inductive, PTL DEF Spec

-----------------------------------------------------------------------------
(***************************************************************************)
(* How far a command is from its end: attempts at the login that are left, *)
(* then steps, then whether the session may still be lost, or opened,      *)
(* without an error.  A wait is one step, however often it polls.          *)
(***************************************************************************)
StepsLeft == [reload |-> 13, user |-> 12, password |-> 11, menuWait |-> 10, persist |-> 9,
              overview |-> 8, overviewWait |-> 7, open |-> 6, openWait |-> 5,
              account |-> 4, calls |-> 3, save |-> 2, saveWait |-> 1, upload |-> 2, apply |-> 1]
Chances(p) ==
    IF client[p].pc \in Waits THEN 0
    ELSE (IF client[p].again THEN 0 ELSE 2) + (IF client[p].sid = 0 THEN 1 ELSE 0)
Rank(p) == 60 * (Attempts - client[p].tries) + 4 * StepsLeft[client[p].pc] + Chances(p)

KeepsWaiting(p) ==
    client[p].pc \in Waits /\ client'[p].pc = client[p].pc /\ Rank(p)' = Rank(p)

GoesForward(p) ==
    Running(p) /\ Running(p)' /\ client'[p] # client[p] =>
        Rank(p)' < Rank(p) \/ KeepsWaiting(p)

LEMMA Order ==
    /\ \A step \in Steps : StepsLeft[step] \in 1 .. 13
    /\ \A step \in Steps \ {"reload"} : StepsLeft[step] < StepsLeft["reload"]
    /\ StepsLeft["password"] < StepsLeft["user"] /\ StepsLeft["menuWait"] < StepsLeft["password"]
    /\ StepsLeft["persist"] < StepsLeft["menuWait"]
    /\ \A step \in {"overview", "open"} : StepsLeft[step] < StepsLeft["persist"]
    /\ StepsLeft["overviewWait"] < StepsLeft["overview"]
    /\ StepsLeft["open"] < StepsLeft["overviewWait"]
    /\ StepsLeft["openWait"] < StepsLeft["open"]
    /\ \A step \in {"account", "upload"} : StepsLeft[step] < StepsLeft["openWait"]
    /\ StepsLeft["calls"] < StepsLeft["account"] /\ StepsLeft["save"] < StepsLeft["calls"]
    /\ StepsLeft["saveWait"] < StepsLeft["save"] /\ StepsLeft["apply"] < StepsLeft["upload"]
BY DEF StepsLeft, Steps, Sends, Waits

\* A step towards the end, and another attempt.
LEMMA StepForward ==
    ASSUME TypeOK, NEW p \in Procs, NEW state \in ClientState, client'[p] = state,
           client[p].pc \in Steps, state.pc \in Steps, state.tries = client[p].tries,
           StepsLeft[state.pc] < StepsLeft[client[p].pc]
    PROVE  Rank(p)' < Rank(p)
<1> DEFINE a == StepsLeft[client[p].pc]
           b == StepsLeft[state.pc]
           c == 60 * (Attempts - client[p].tries)
<1>1. a \in Nat /\ b \in Nat /\ b + 1 <= a
  BY Order
<1>2. c \in Int
  BY DEF TypeOK, ClientState, Attempts
<1>3. Chances(p) \in 0 .. 3 /\ Chances(p)' \in 0 .. 3
  BY DEF Chances
<1>4. Rank(p) = c + 4 * a + Chances(p) /\ Rank(p)' = c + 4 * b + Chances(p)'
  BY DEF Rank
<1> HIDE DEF a, b, c
<1> QED BY <1>1, <1>2, <1>3, <1>4

LEMMA LessOnly ==
    ASSUME TypeOK, NEW p \in Procs, client[p].pc \in Steps,
           client'[p].pc = client[p].pc, client'[p].tries = client[p].tries,
           Chances(p) \in Nat, Chances(p)' \in Nat, Chances(p)' < Chances(p)
    PROVE  GoesForward(p)
<1> DEFINE c == 60 * (Attempts - client[p].tries) + 4 * StepsLeft[client[p].pc]
<1>1. c \in Int
  <2>1. StepsLeft[client[p].pc] \in Nat
    BY Order
  <2>2. client[p].tries \in Int
    BY DEF TypeOK, ClientState, Attempts
  <2> QED BY <2>1, <2>2 DEF Attempts
<1>2. Rank(p) = c + Chances(p) /\ Rank(p)' = c + Chances(p)'
  BY DEF Rank
<1> HIDE DEF c
<1>3. Rank(p)' < Rank(p)
  BY <1>1, <1>2
<1> QED BY <1>3 DEF GoesForward

LEMMA Waiting ==
    ASSUME NEW p \in Procs, client[p].pc \in Waits, client'[p].pc = client[p].pc,
           client'[p].tries = client[p].tries
    PROVE  GoesForward(p)
<1>1. Chances(p) = 0 /\ Chances(p)' = 0
  BY DEF Chances
<1> QED BY <1>1 DEF GoesForward, KeepsWaiting, Rank

LEMMA AnotherAttempt ==
    ASSUME TypeOK, NEW p \in Procs, NEW transport, Raise(p, transport), Running(p)
    PROVE  GoesForward(p)
<1> DEFINE a == StepsLeft[client[p].pc]
           t == client[p].tries
<1>1. a \in Nat /\ StepsLeft["reload"] = 13
  BY Order DEF Running, StepsLeft
<1>2. CASE Is(p, Over("failed"))
  <2>1. client'[p].pc = "failed"
    BY <1>2, Moves DEF Over
  <2> QED BY <2>1, StepNames DEF GoesForward, Running, Ends
<1>3. CASE Is(p, Construct(p, t + 1)) /\ t < Attempts
  <2>1. client'[p] = Construct(p, t + 1)
    BY <1>3, Moves
  <2>2. client'[p].pc = "reload" /\ client'[p].tries = t + 1
    BY <2>1 DEF Construct, Over
  <2>3. Chances(p) \in 0 .. 3 /\ Chances(p)' \in 0 .. 3 /\ t \in 0 .. Attempts
    BY DEF Chances, TypeOK, ClientState
  <2>4. /\ Rank(p) = 60 * (Attempts - t) + 4 * a + Chances(p)
        /\ Rank(p)' = 60 * (Attempts - (t + 1)) + 4 * 13 + Chances(p)'
    BY <1>1, <2>2 DEF Rank
  <2> HIDE DEF a, t
  <2>5. Rank(p)' < Rank(p)
    BY <1>1, <2>3, <2>4 DEF Attempts
  <2> QED BY <2>5 DEF GoesForward
<1> QED BY <1>2, <1>3 DEF Raise

LEMMA ThenForward ==
    ASSUME TypeOK, NEW p \in Procs, NEW step \in Steps, client[p].pc \in Steps,
           StepsLeft[step] < StepsLeft[client[p].pc]
    PROVE  /\ Is(p, Then(p, step)) => GoesForward(p)
           /\ \A page \in Page : Is(p, [Then(p, step) EXCEPT !.page = page]) => GoesForward(p)
           /\ \A g : Exchange(p, g, Then(p, step)) => GoesForward(p)
<1>1. ASSUME NEW state \in ClientState, state.pc = step, state.tries = client[p].tries, Is(p, state)
      PROVE  GoesForward(p)
  <2>1. client'[p] = state
    BY <1>1, Moves
  <2> QED BY <1>1, <2>1, StepForward DEF GoesForward
<1>2. /\ Then(p, step) \in ClientState
      /\ Then(p, step).pc = step /\ Then(p, step).tries = client[p].tries
  BY StatesFit DEF Then, TypeOK, ClientState
<1>3. ASSUME NEW page \in Page
      PROVE  /\ [Then(p, step) EXCEPT !.page = page] \in ClientState
             /\ [Then(p, step) EXCEPT !.page = page].pc = step
             /\ [Then(p, step) EXCEPT !.page = page].tries = client[p].tries
  BY <1>2 DEF ClientState
<1> HIDE DEF Then
<1> QED BY <1>1, <1>2, <1>3, AnotherAttempt DEF Exchange, Running

LEMMA CommandGoesForward ==
    ASSUME TypeOK, NEW p \in Procs, Acts(p)
    PROVE  GoesForward(p)
<1>1. CASE ~Running(p) \/ ~Running(p)'
  BY <1>1 DEF GoesForward
<1>2. SUFFICES ASSUME Running(p), Running(p)'
               PROVE  GoesForward(p)
  BY <1>1
<1>3. client[p] \in ClientState /\ client[p].pc \in Steps
  BY <1>2 DEF TypeOK, Running
<1>4. ASSUME NEW how \in Ends, Is(p, Over(how))
      PROVE  FALSE
  <2>1. client'[p].pc = how
    BY <1>4, Moves DEF Over
  <2> QED BY <1>2, <2>1, StepNames DEF Running
<1>5. CASE Start(p)
  BY <1>2, <1>5, StepNames DEF Start, Running, Ends
<1>6. CASE Deadline(p) \/ TransportFails(p)
  BY <1>2, <1>6, AnotherAttempt DEF Deadline, TransportFails
<1>7. CASE Interrupt(p)
  BY <1>4, <1>7 DEF Interrupt, Ends
<1>8. CASE Refused(p)
  <2>1. CASE ~client[p].again /\ Invalidate(p)
    <3> DEFINE state == [client[p] EXCEPT !.sid = 0, !.restored = FALSE, !.again = TRUE, !.page = "none"]
    <3>1. client'[p] = state
      BY <2>1, Moves DEF Invalidate
    <3>2. state.pc = client[p].pc /\ state.tries = client[p].tries /\ state.sid = 0 /\ state.again
      BY <1>3 DEF ClientState
    <3> HIDE DEF state
    <3>3. CASE client[p].pc \notin Waits
      <4>1. Chances(p) = 2 /\ Chances(p)' = 1
        BY <1>8, <2>1, <3>1, <3>2, <3>3 DEF Chances, Refused
      <4> QED BY <1>3, <3>1, <3>2, <4>1, LessOnly
    <3> QED BY <3>1, <3>2, <3>3, Waiting
  <2> QED BY <1>2, <1>8, <2>1, AnotherAttempt DEF Refused, Recovers
<1>9. CASE OpenSession(p)
  <2>1. CASE client[p].sid = 0 /\ Fresh # {} /\ Is(p, [client[p] EXCEPT !.sid = NewSid, !.restored = FALSE])
    <3> DEFINE state == [client[p] EXCEPT !.sid = NewSid, !.restored = FALSE]
    <3>1. client'[p] = state
      BY <2>1, Moves
    <3>2. /\ state.pc = client[p].pc /\ state.tries = client[p].tries /\ state.sid = NewSid
          /\ state.again = client[p].again
      BY <1>3 DEF ClientState
    <3> HIDE DEF state
    <3>3. NewSid # 0
      BY <2>1, NewSidIsFresh, BoundAssumption DEF Sids
    <3>4. CASE client[p].pc \notin Waits
      <4>1. Chances(p) \in Nat /\ Chances(p)' \in Nat /\ Chances(p)' < Chances(p)
        BY <2>1, <3>1, <3>2, <3>3, <3>4 DEF Chances
      <4> QED BY <1>3, <3>1, <3>2, <4>1, LessOnly
    <3> QED BY <3>1, <3>2, <3>4, Waiting
  <2> QED BY <1>2, <1>9, <2>1, AnotherAttempt DEF OpenSession
<1>10. CASE Reload(p)
  <2> DEFINE step == IF gw.page = "login" THEN "user" ELSE "persist"
  <2>1. step \in Steps /\ StepsLeft[step] < StepsLeft[client[p].pc] /\ gw.page \in Page
    BY <1>10, Order DEF Reload, At, Steps, Sends, TypeOK
  <2> HIDE DEF step
  <2>2. PICK g : Exchange(p, g, [Then(p, step) EXCEPT !.page = gw.page])
    BY <1>10 DEF Reload, step
  <2> QED BY <1>2, <1>3, <2>1, <2>2, ThenForward, AnotherAttempt DEF Exchange
<1>11. ASSUME NEW g, NEW step \in Steps, Exchange(p, g, Then(p, step)),
              StepsLeft[step] < StepsLeft[client[p].pc]
       PROVE  GoesForward(p)
  BY <1>3, <1>11, ThenForward
<1>12. CASE EnterUser(p) \/ EnterPassword(p) \/ ClickOverview(p) \/ OpenPage(p) \/ ClickSave(p)
  BY <1>11, <1>12, Order
  DEF EnterUser, EnterPassword, ClickOverview, OpenPage, ClickSave, At, Steps, Sends, Waits
<1>13. CASE Fill(p)
  BY <1>11, <1>13, Order DEF Fill, At, Form, Steps, Sends
<1>14. CASE Persist(p)
  <2>1. PICK step \in {"overview", "open"} : Is(p, Then(p, step))
    BY <1>14 DEF Persist
  <2>2. step \in Steps /\ StepsLeft[step] < StepsLeft[client[p].pc]
    BY <1>14, Order DEF Persist, At, Steps, Sends
  <2> QED BY <1>3, <2>1, <2>2, ThenForward
<1>15. CASE Upload(p)
  BY <1>3, <1>15, Order, ThenForward DEF Upload, At, Steps, Sends
<1>16. CASE ClickApply(p)
  BY <1>2, <1>4, <1>16, AnotherAttempt DEF ClickApply, Exchange, Ends
<1>17. ASSUME client[p].pc \in Waits, Is(p, Then(p, client[p].pc))
       PROVE  GoesForward(p)
  <2>1. client'[p] = Then(p, client[p].pc)
    BY <1>17, Moves
  <2>2. client'[p].pc = client[p].pc /\ client'[p].tries = client[p].tries
    BY <1>3, <2>1 DEF Then, ClientState
  <2> QED BY <1>17, <2>2, Waiting
<1>18. CASE PollNothing(p)
  BY <1>17, <1>18 DEF PollNothing, Polls
<1>19. CASE PollPage(p)
  <2> DEFINE found(step) == [Then(p, step) EXCEPT !.page = Wanted(p)]
  <2>1. Wanted(p) \in Page
    BY TargetIsPage DEF Wanted, Page
  <2>2. ASSUME NEW step \in Steps, StepsLeft[step] < StepsLeft[client[p].pc], Is(p, found(step))
        PROVE  GoesForward(p)
    BY <1>3, <2>1, <2>2, ThenForward
  <2>3. ASSUME Is(p, AfterPage(p))
        PROVE  GoesForward(p)
    <3>1. \/ /\ AfterPage(p) = found("persist") /\ client[p].pc = "menuWait"
          \/ /\ AfterPage(p) = found("open") /\ client[p].pc = "overviewWait"
          \/ /\ AfterPage(p) \in {found("account"), found("upload")} /\ client[p].pc = "openWait"
          \/ AfterPage(p) = Over("done")
      BY <1>19 DEF AfterPage, PollPage, Polls, Waits, At, found
    <3>2. {"persist", "open", "account", "upload"} \subseteq Steps
      BY DEF Steps, Sends
    <3> HIDE DEF found
    <3> QED BY <1>4, <2>2, <2>3, <3>1, <3>2, Order DEF Ends
  <2> QED BY <1>17, <1>19, <2>3 DEF PollPage, Polls
<1>20. CASE PollSave(p)
  <2> DEFINE state == [Then(p, "saveWait") EXCEPT !.busy = @ \/ Head(gw.out) = "busy"]
  <2>1. CASE Is(p, state)
    <3>1. client'[p] = state
      BY <2>1, Moves
    <3>2. state.pc = "saveWait" /\ state.tries = client[p].tries /\ client[p].pc = "saveWait"
      BY <1>3, <1>20 DEF Then, ClientState, PollSave, At
    <3> QED BY <3>1, <3>2, Waiting DEF Waits
  <2> QED BY <1>4, <1>20, <2>1 DEF PollSave, Ends
<1> QED BY <1>5, <1>6, <1>7, <1>8, <1>9, <1>10, <1>12, <1>13, <1>14, <1>15, <1>16, <1>18, <1>19,
           <1>20 DEF Acts, Works

\* However often sessions are closed and answers lost, a command only goes forward: apart
\* from what it does in a wait, which has a deadline, it takes at most 115 steps (a request
\* is repeated once, 886-918, a login once, devices/tks_ip.py:67-85).
THEOREM CommandsGoForward == Spec => [][\A p \in Procs : GoesForward(p)]_vars
<1>1. TypeOK /\ [Next]_vars => [\A p \in Procs : GoesForward(p)]_vars
  <2> SUFFICES ASSUME TypeOK, Next, NEW p \in Procs
               PROVE  GoesForward(p)
    BY DEF GoesForward
  <2>1. ASSUME NEW q \in Procs, Acts(q)
        PROVE  GoesForward(p)
    <3>1. CASE p = q
      BY <2>1, <3>1, CommandGoesForward
    <3>2. CASE p # q
      BY <2>1, <3>2, CommandAlone DEF Acts, Alone, OnlyMoves, GoesForward
    <3> QED BY <3>1, <3>2
  <2>2. CASE Expire \/ FinishSaving \/ BrowserOpens
    BY <2>2 DEF Expire, FinishSaving, BrowserOpens, GoesForward
  <2> QED BY <2>1, <2>2 DEF Next, Acts
<1> QED BY <1>1, TypeCorrect, PTL DEF Spec

-----------------------------------------------------------------------------
(***************************************************************************)
(* Without faults, and one at a time: a command that keeps its session     *)
(* finds a stale one in the cache and is not stopped by it.                *)
(***************************************************************************)
Faultless == ~Concurrent /\ Faults = {}

\* Where StaleCacheHeals promises that the reader is done in the end.
MayHeal(p) == At(p, "reload") /\ gw.live \in {0, cache} /\ client[p].sid = cache

Queued(page) == \E k \in DOMAIN gw.out : gw.out[k] = page

\* It can open a session if it must, and the page it waits for is queued.
OnItsWay(p) ==
    /\ Running(p)
    /\ At(p, "reload") /\ ~Admitted(p) =>
          gw.live = 0 /\ (client[p].sid # 0 => client[p].restored /\ ~client[p].again)
    /\ client[p].pc \in Waits => Queued(Wanted(p))

LEMMA StaleIsNoHindrance ==
    ASSUME TypeOK, AllSole, NEW p \in Procs, MayHeal(p)
    PROVE  OnItsWay(p)
<1>1. client[p].pc = "reload" /\ client[p].sid = cache /\ gw.live \in {0, cache}
  BY DEF MayHeal, At
<1>2. client[p].sid # 0 => client[p].restored /\ ~client[p].again
  BY <1>1 DEF AllSole, Sole, At
<1>3. Running(p) /\ client[p].pc \notin Waits
  BY <1>1, StepNames DEF Running, Waits
<1>4. ~Admitted(p) => gw.live = 0
  BY <1>1 DEF Admitted
<1> QED BY <1>2, <1>3, <1>4 DEF OnItsWay

LEMMA PageIsQueued ==
    ASSUME TypeOK, NEW page \in Page, Show(page).out = gw'.out
    PROVE  Queued(page)'
<1>1. Show(page).out = IF page = "phones" THEN <<page, "idle">> ELSE <<page>>
  BY DEF TypeOK, Show
<1>2. 1 \in DOMAIN gw'.out /\ gw'.out[1] = page
  BY <1>1
<1> QED BY <1>2 DEF Queued

LEMMA KeepsItsWay ==
    ASSUME Faultless, TypeOK, IInv, AllSole, NEW p \in Persistent, OnItsWay(p), Works(p)
    PROVE  OnItsWay(p)' \/ At(p, "done")'
<1>1. p \in Procs /\ p \notin Editors /\ client[p] \in ClientState /\ Sole(p)
  BY KindAssumption DEF Persistent, Procs, TypeOK, AllSole
<1>2. client[p].pc \in Steps /\ (~At(p, "reload") => Admitted(p))
  BY <1>1 DEF OnItsWay, Running, Sole
<1>3. ASSUME NEW state, Is(p, state), state.pc \in Steps \ (Waits \cup {"reload"})
      PROVE  OnItsWay(p)'
  BY <1>1, <1>3, Moves DEF OnItsWay, Running, At
<1>4. ASSUME NEW g, NEW state, Exchange(p, g, state)
      PROVE  Is(p, state) /\ gw' = g
  BY <1>4 DEF Exchange, Faultless
<1>5. ASSUME NEW g, NEW step \in {"password", "calls", "save"}, Exchange(p, g, Then(p, step))
      PROVE  OnItsWay(p)'
  BY <1>1, <1>3, <1>4, <1>5, ThenKeeps DEF Steps, Sends, Waits
<1>6. ASSUME NEW page \in Page, NEW step \in Waits, Exchange(p, Show(page), Then(p, step)),
             page = IF step = "openWait" THEN Target(p) ELSE "menu"
      PROVE  OnItsWay(p)'
  <2>1. client'[p].pc = step /\ gw' = Show(page)
    BY <1>1, <1>4, <1>6, Moves, ThenKeeps
  <2>2. Wanted(p)' = page /\ Queued(page)'
    BY <1>6, <2>1, PageIsQueued DEF Wanted, At
  <2>3. step \in Steps \ {"reload"}
    BY DEF Steps, Waits
  <2> QED BY <2>1, <2>2, <2>3 DEF OnItsWay, Running, At
<1>7. CASE Refused(p)
  <2> DEFINE state == [client[p] EXCEPT !.sid = 0, !.restored = FALSE, !.again = TRUE, !.page = "none"]
  <2>1. At(p, "reload") /\ client[p].sid # 0 /\ ~Admitted(p) /\ gw' = gw
    BY <1>2, <1>7 DEF Refused
  <2>2. gw.live = 0 /\ client[p].restored /\ ~client[p].again
    BY <2>1 DEF OnItsWay
  <2>3. Invalidate(p)
    BY <1>7, <2>2 DEF Refused, Recovers
  <2>4. client'[p] = state
    BY <1>1, <2>3, Moves DEF Invalidate
  <2>5. state.pc = "reload" /\ state.sid = 0
    BY <1>1, <2>1 DEF At, ClientState
  <2> HIDE DEF state
  <2>6. client'[p].pc = "reload" /\ client'[p].sid = 0 /\ gw'.live = 0
    BY <2>1, <2>2, <2>4, <2>5
  <2>7. "reload" \in Steps \ Waits
    BY DEF Steps, Sends, Waits
  <2> QED BY <2>6, <2>7 DEF OnItsWay, Running
<1>8. CASE OpenSession(p)
  <2> DEFINE state == [client[p] EXCEPT !.sid = NewSid, !.restored = FALSE]
  <2>1. At(p, "reload") /\ ~Admitted(p) /\ gw.live = 0
    BY <1>2, <1>8 DEF OpenSession, OnItsWay, Admitted
  <2>2. Is(p, state) /\ gw' = [NoSession EXCEPT !.live = NewSid] /\ Fresh # {}
    BY <1>8, <2>1 DEF OpenSession, Faultless
  <2>3. client'[p] = state /\ gw'.live = NewSid /\ NewSid # 0
    BY <1>1, <2>2, Moves, NewSidIsFresh, BoundAssumption DEF NoSession, Sids
  <2>4. state.pc = "reload" /\ state.sid = NewSid
    BY <1>1, <2>1 DEF At, ClientState
  <2> HIDE DEF state
  <2> QED BY <2>3, <2>4, StepNames DEF OnItsWay, Running, At, Waits, Admitted
<1>9. CASE Reload(p)
  <2> DEFINE state == [Then(p, IF gw.page = "login" THEN "user" ELSE "persist") EXCEPT !.page = gw.page]
  <2>1. state.pc \in {"user", "persist"}
    BY <1>1 DEF Then, ClientState
  <2>2. PICK g : Exchange(p, g, state)
    BY <1>9 DEF Reload
  <2> HIDE DEF state
  <2> QED BY <1>3, <1>4, <2>1, <2>2 DEF Steps, Sends, Waits
<1>10. CASE EnterUser(p) \/ Fill(p)
  BY <1>5, <1>10 DEF EnterUser, Fill
<1>11. CASE EnterPassword(p)
  <2>1. Current(p) /\ <<p, "user">> \in gw.entered
    BY <1>1, <1>11 DEF EnterPassword, At, Sole, Using, Sends
  <2>2. Exchange(p, Show("menu"), Then(p, "menuWait"))
    BY <1>11, <2>1 DEF EnterPassword, IfCurrent
  <2> QED BY <1>6, <2>2 DEF Waits, Page
<1>12. CASE Persist(p)
  <2>1. PICK step \in {"open", "overview"} : Is(p, Then(p, step))
    BY <1>12 DEF Persist
  <2>2. Then(p, step).pc = step
    BY <1>1, ThenKeeps
  <2> QED BY <1>3, <2>1, <2>2 DEF Steps, Sends, Waits
<1>13. CASE ClickOverview(p) \/ OpenPage(p)
  <2>1. Current(p)
    BY <1>1, <1>13 DEF ClickOverview, OpenPage, At, Sole, Using, Sends
  <2>2. \/ Exchange(p, Show("menu"), Then(p, "overviewWait"))
        \/ Exchange(p, Show(Target(p)), Then(p, "openWait"))
    BY <1>13, <2>1 DEF ClickOverview, OpenPage, IfCurrent
  <2> QED BY <1>1, <1>6, <2>2, TargetIsPage DEF Waits, Page
<1>14. CASE ClickSave(p)
  BY <1>1, <1>14 DEF ClickSave, At, IInv, PagesFit, PageFits
<1>15. CASE Upload(p)
  <2>1. Is(p, Then(p, "apply")) /\ Then(p, "apply").pc = "apply"
    BY <1>1, <1>15, ThenKeeps DEF Upload
  <2> QED BY <1>3, <2>1 DEF Steps, Sends, Waits
<1>16. CASE ClickApply(p)
  BY <1>1, <1>4, <1>16, Moves DEF ClickApply, At, Over
<1>17. CASE PollNothing(p)
  BY <1>17 DEF PollNothing, Polls, OnItsWay, Queued, TypeOK
<1>18. CASE PollPage(p)
  <2>1. AfterPage(p).pc \in {"persist", "open", "done", "upload"}
    BY <1>1 DEF AfterPage, Then, ClientState, Over
  <2>2. CASE Is(p, AfterPage(p)) /\ AfterPage(p).pc # "done"
    BY <1>3, <2>1, <2>2 DEF Steps, Sends, Waits
  <2>3. CASE Is(p, AfterPage(p)) /\ AfterPage(p).pc = "done"
    BY <1>1, <2>3, Moves DEF At
  <2>4. CASE Is(p, Then(p, client[p].pc)) /\ Head(gw.out) # Wanted(p)
    <3>1. client'[p].pc = client[p].pc /\ client[p].pc \in Waits
      BY <1>1, <1>18, <2>4, Moves, ThenKeeps DEF PollPage, Polls
    <3>2. gw'.out = Tail(gw.out) /\ gw.out \in Seq(Page \cup {"busy", "idle", "error"})
      BY <1>18 DEF PollPage, NextFragment, TypeOK
    <3>3. PICK k \in DOMAIN gw.out : gw.out[k] = Wanted(p)
      BY <3>1 DEF OnItsWay, Queued
    <3>4. k \in 2 .. Len(gw.out)
      BY <2>4, <3>2, <3>3
    <3>5. k - 1 \in DOMAIN gw'.out /\ gw'.out[k - 1] = Wanted(p)
      BY <3>2, <3>3, <3>4
    <3>6. Wanted(p)' = Wanted(p)
      BY <3>1 DEF Wanted, At
    <3>7. \E n \in DOMAIN gw'.out : gw'.out[n] = Wanted(p)'
      BY <3>5, <3>6
    <3>8. client[p].pc # "reload" /\ client[p].pc \in Steps
      BY <1>2, <3>1 DEF Waits
    <3> QED BY <3>1, <3>7, <3>8 DEF OnItsWay, Queued, Running, At
  <2> QED BY <1>18, <2>2, <2>3, <2>4 DEF PollPage
<1>19. CASE PollSave(p)
  BY <1>1, <1>19 DEF PollSave, Sole
<1> QED BY <1>7, <1>8, <1>9, <1>10, <1>11, <1>12, <1>13, <1>14, <1>15, <1>16, <1>17, <1>18, <1>19
        DEF Works

LEMMA StaysOnItsWay ==
    ASSUME Faultless, TypeOK, IInv, AllSole, NEW p \in Persistent, OnItsWay(p), [Next]_vars
    PROVE  OnItsWay(p)' \/ At(p, "done")'
<1>1. p \in Procs /\ Sole(p) /\ client[p].pc \in Steps /\ Undisturbed
  BY DEF Persistent, Procs, AllSole, OnItsWay, Running, Undisturbed, Faultless
<1>2. ~At(p, "reload") => Admitted(p)
  BY <1>1 DEF Sole, Running
<1>3. ASSUME UNCHANGED client, gw'.live = gw.live, \A page : Queued(page) => Queued(page)'
      PROVE  OnItsWay(p)'
  <2>1. Admitted(p)' = Admitted(p) /\ Wanted(p)' = Wanted(p)
    BY <1>3 DEF Admitted, Wanted, At
  <2>2. client[p].pc \in Waits => \E n \in DOMAIN gw'.out : gw'.out[n] = Wanted(p)'
    BY <1>3, <2>1 DEF OnItsWay, Queued
  <2> QED BY <1>3, <2>1, <2>2 DEF OnItsWay, Running, At, Queued
<1>4. ASSUME NEW q \in Procs, Acts(q)
      PROVE  OnItsWay(p)' \/ At(p, "done")'
  <2>1. ~Start(q)
    BY <1>1, <1>4 DEF Start, Faultless, Running
  <2>2. q = p
    BY <1>1, <1>4, <2>1, WhoActsRuns DEF AllSole, Sole, Running
  <2>3. ~Deadline(p)
    <3>1. ASSUME client[p].pc \in Waits
          PROVE  gw.out # <<>>
      BY <3>1 DEF OnItsWay, Queued
    <3> QED BY <3>1 DEF Deadline, Hopeless, Faultless
  <2>4. ~TransportFails(p) /\ ~Interrupt(p)
    BY DEF TransportFails, Interrupt, Faultless
  <2> QED BY <1>4, <2>1, <2>2, <2>3, <2>4, KeepsItsWay DEF Acts
<1>5. ~Expire
  <2>1. gw.live # 0 => client[p].sid = gw.live
    BY <1>2 DEF OnItsWay, Admitted
  <2> QED BY <1>1, <2>1 DEF Expire, Faultless
<1>6. CASE FinishSaving
  <2>1. gw.out \in Seq(Page \cup {"busy", "idle", "error"}) /\ gw'.live = gw.live
    BY <1>6 DEF TypeOK, FinishSaving
  <2>2. gw'.out \in {Append(gw.out, "idle"), gw.out \o <<"error", "idle">>}
    BY <1>6 DEF TypeOK, FinishSaving
  <2>3. \A n \in DOMAIN gw.out : n \in DOMAIN gw'.out /\ gw'.out[n] = gw.out[n]
    <3> SUFFICES ASSUME NEW out \in Seq(Page \cup {"busy", "idle", "error"}), NEW n \in DOMAIN out
                 PROVE  /\ n \in DOMAIN Append(out, "idle") /\ Append(out, "idle")[n] = out[n]
                        /\ LET both == out \o <<"error", "idle">> IN
                              n \in DOMAIN both /\ both[n] = out[n]
      BY <2>1, <2>2
    <3>1. n \in 1 .. Len(out)
      OBVIOUS
    <3> QED BY <3>1
  <2> QED BY <1>3, <1>6, <2>1, <2>3 DEF FinishSaving, Queued
<1>7. ~BrowserOpens
  BY DEF BrowserOpens, Faultless
<1>8. CASE UNCHANGED vars
  BY <1>3, <1>8 DEF vars, Queued
<1> QED BY <1>4, <1>5, <1>6, <1>7, <1>8 DEF Next, Acts

\* test_tks_web.py:724, 751: a session in the cache that is no longer valid costs a reader
\* nothing.  Where StaleCacheHeals begins the reader is on its way, and no step takes it off
\* that way, or ends it, but the one that reports success.
THEOREM StaleCacheIsNoError ==
    ASSUME Faultless
    PROVE  Spec => /\ [](\A p \in Readers : MayHeal(p) => OnItsWay(p))
                   /\ [][\A p \in Readers : OnItsWay(p) => OnItsWay(p)' \/ At(p, "done")']_vars
<1> DEFINE Heals == \A p \in Readers : MayHeal(p) => OnItsWay(p)
           Stays == \A p \in Readers : OnItsWay(p) => OnItsWay(p)' \/ At(p, "done")'
<1>1. TypeOK /\ AllSole => Heals
  BY StaleIsNoHindrance DEF Procs
<1>2. TypeOK /\ IInv /\ AllSole /\ [Next]_vars => [Stays]_vars
  BY StaysOnItsWay DEF Persistent
<1>3. Undisturbed
  BY DEF Faultless, Undisturbed
<1>4. Spec => []AllSole
  BY <1>3, CommandsAlone
<1> HIDE DEF Heals, Stays
<1>5. Spec => []Heals /\ [][Stays]_vars
  BY <1>1, <1>2, <1>4, Inductive, PTL DEF Spec
<1> QED BY <1>5 DEF Heals, Stays
=============================================================================
