------------------------------- MODULE TksWeb -------------------------------
(***************************************************************************)
(* Commands that use the web assistant of a TKS-IP gateway                 *)
(* (src/pygira/tks_web.py, TksIp._web in devices/tks_ip.py).  Each command *)
(* is a process with a TksWebClient of its own; what they share is the     *)
(* gateway, which admits one session at a time, and the file in which a    *)
(* client keeps its session for the next command.                          *)
(*                                                                         *)
(* An action is one HTTP exchange, one use of the cache file or one step   *)
(* of the gateway.  A session that ended answers 404, invalidSiteID or     *)
(* sessionClosed; widget ids are random in each session (README.md:330),   *)
(* so an event acts only on the page its id was read from.                 *)
(***************************************************************************)
EXTENDS Integers, Sequences

CONSTANTS
    Readers,     \* commands that read a page; they may be run again and again
    Editors,     \* create_sip_client, each run once
    Updaters,    \* firmware_update, each run once
    TargetOf,    \* the page each reader opens
    Faults,      \* of "early", "lost", "slow", "interrupt", "browser"
    Concurrent,  \* may two commands run at once?
    MaxSids      \* bound on the session ids somebody remembers at once

Procs == Readers \cup Editors \cup Updaters
Sids == 1..MaxSids
Attempts == 2
Views == {"info", "network", "phones", "update"}
Form == {"account", "calls"}

ASSUME BoundAssumption == MaxSids \in Nat \ {0}
ASSUME TargetAssumption == TargetOf \in [Readers -> Views]
ASSUME KindAssumption == /\ Readers \cap Editors = {} /\ Readers \cap Updaters = {}
                         /\ Editors \cap Updaters = {}

Target(p) == IF p \in Readers THEN TargetOf[p]
             ELSE IF p \in Editors THEN "phones" ELSE "update"

\* Mistake: every command keeps its session.
EveryCommand == Procs
\* The SIP mutations pass persist_session=False.
Persistent == Readers \cup Updaters

LoginSteps == {"reload", "user", "password", "menuWait"}
Waits == {"menuWait", "overviewWait", "openWait", "saveWait"}
Sends == {"reload", "user", "password", "overview", "open", "account", "calls", "save", "apply"}
Steps == Sends \cup Waits \cup {"persist", "upload"}
Ends == {"idle", "done", "failed"}

VARIABLES
    client,   \* client[p]: where p's command stands and its TksWebClient
    cache,    \* the session in the cache file, 0 for none
    gw,       \* the gateway's session
    saved,    \* the forms that the gateway has saved
    applied   \* the updaters whose image the gateway was told to apply

vars == <<client, cache, gw, saved, applied>>

NoSession == [live |-> 0, page |-> "login", entered |-> {}, out |-> <<>>, saving |-> FALSE]
Over(how) == [pc |-> how, sid |-> 0, restored |-> FALSE, again |-> FALSE,
              page |-> "none", tries |-> 0, busy |-> FALSE]

Init ==
    /\ client = [p \in Procs |-> Over("idle")]
    /\ cache \in {0, 1}
    /\ gw = NoSession
    /\ saved = {} /\ applied = {}

Running(p) == client[p].pc \in Steps
Asking(p) == client[p].pc \in Sends \cup Waits
Admitted(p) == client[p].sid # 0 /\ client[p].sid = gw.live
At(p, step) == client[p].pc = step
Is(p, state) == client' = [client EXCEPT ![p] = state]

-----------------------------------------------------------------------------
(* TksWebClient: its construction, its session and the cache file *)

Construct(p, tries) ==
    LET sid == IF p \in Persistent THEN cache ELSE 0 IN
    [Over("reload") EXCEPT !.sid = sid, !.restored = (sid # 0), !.tries = tries]

Start(p) ==
    /\ client[p].pc \in (IF p \in Readers THEN Ends ELSE {"idle"})
    /\ Concurrent \/ \A q \in Procs : ~Running(q)
    /\ Is(p, Construct(p, 1))
    /\ UNCHANGED <<cache, gw, saved, applied>>

\* Mistake: a login is repeated as often as it fails.
RaiseAtEnd(p, transport) ==
    IF transport /\ client[p].pc \in LoginSteps
    THEN Is(p, Construct(p, client[p].tries + 1))
    ELSE Is(p, Over("failed"))

\* _web() repeats a login that ended in a TransportError, with a new client.
Raise(p, transport) ==
    IF transport /\ client[p].pc \in LoginSteps /\ client[p].tries < Attempts
    THEN Is(p, Construct(p, client[p].tries + 1))
    ELSE Is(p, Over("failed"))

\* The ids that the command still holds, and repeats, name nothing from now on.
Invalidate(p) ==
    /\ Is(p, [client[p] EXCEPT !.sid = 0, !.restored = FALSE, !.again = TRUE, !.page = "none"])
    /\ cache' = IF p \in Persistent THEN 0 ELSE cache

\* Mistake: a session from the cache is trusted like one's own.
RecoversClosed(p, signal) == ~client[p].again /\ signal = "sessionClosed"

\* Mistake: the repetition may be repeated.
RecoversAlways(p, signal) == signal = "sessionClosed" \/ client[p].restored

Recovers(p, signal) ==
    ~client[p].again /\ (signal = "sessionClosed" \/ client[p].restored)

Refused(p) ==
    /\ Asking(p) /\ client[p].sid # 0 /\ ~Admitted(p)
    /\ \E signal \in {"404", "invalidSiteID", "sessionClosed"} :
          IF Recovers(p, signal)
          THEN Invalidate(p)
          ELSE Raise(p, signal = "404") /\ UNCHANGED cache
    /\ UNCHANGED <<gw, saved, applied>>

\* A session id nobody remembers.
Remembered == {cache, gw.live} \cup {client[p].sid : p \in Procs}
Fresh == Sids \ Remembered
NewSid == CHOOSE s \in Sids : s \notin Remembered

\* The answer may be lost, the session stays.  The page of a gateway in use
\* has no session id: a ProtocolError.
OpenSession(p) ==
    /\ Asking(p) /\ client[p].sid = 0
    /\ \/ /\ gw.live # 0
          /\ Raise(p, FALSE) /\ UNCHANGED gw
       \/ /\ gw.live = 0 /\ Fresh # {}
          /\ gw' = [NoSession EXCEPT !.live = NewSid]
          /\ \/ Is(p, [client[p] EXCEPT !.sid = NewSid, !.restored = FALSE])
             \/ "lost" \in Faults /\ Raise(p, TRUE)
    /\ UNCHANGED <<cache, saved, applied>>

TransportFails(p) ==
    /\ "lost" \in Faults
    /\ Asking(p) \/ At(p, "upload")
    /\ Raise(p, TRUE)
    /\ UNCHANGED <<cache, gw, saved, applied>>

Interrupt(p) ==
    /\ "interrupt" \in Faults /\ Running(p)
    /\ Is(p, Over("failed"))
    /\ UNCHANGED <<cache, gw, saved, applied>>

-----------------------------------------------------------------------------
(* Requests that the session accepts *)

\* The widget id names something on the page that the session shows.  (page is
\* read from the session sid, and Exchange takes place in that session only.)
Current(p) == client[p].page = gw.page

\* _send: the gateway turns into g; its answer is lost or the command goes on.
Exchange(p, g, next) ==
    /\ Admitted(p)
    /\ gw' = g
    /\ \/ Is(p, next)
       \/ "lost" \in Faults /\ Raise(p, TRUE)

Then(p, step) == [client[p] EXCEPT !.pc = step, !.again = FALSE]
\* A page supersedes what was queued before; the phone assistant ends loading
\* with a fragment of its own, not busy.
Show(page) == [gw EXCEPT !.page = page, !.entered = {},
                         !.out = IF page = "phones" THEN <<page, "idle">> ELSE <<page>>]
Enter(p, field) == [gw EXCEPT !.entered = @ \cup {<<p, field>>}]
IfCurrent(p, g) == IF Current(p) THEN g ELSE gw

\* reload() in login(): the body tells where the session is.  What the answer
\* holds besides the body is dropped.
Reload(p) ==
    /\ At(p, "reload")
    /\ \E g \in {gw, [gw EXCEPT !.out = <<>>]} :
          Exchange(p, g, [Then(p, IF gw.page = "login" THEN "user" ELSE "persist")
                             EXCEPT !.page = gw.page])
    /\ UNCHANGED <<cache, saved, applied>>

EnterUser(p) ==
    /\ At(p, "user")
    /\ Exchange(p, IfCurrent(p, Enter(p, "user")), Then(p, "password"))
    /\ UNCHANGED <<cache, saved, applied>>

\* Mistake: the session is kept before the menu has been seen.
PersistEarly(p) ==
    /\ At(p, "password")
    /\ Exchange(p, IF <<p, "user">> \in gw.entered THEN IfCurrent(p, Show("menu")) ELSE gw,
                Then(p, "persist"))
    /\ UNCHANGED <<cache, saved, applied>>

\* The password is committed; without the user's name the login is refused.
EnterPassword(p) ==
    /\ At(p, "password")
    /\ Exchange(p, IF <<p, "user">> \in gw.entered THEN IfCurrent(p, Show("menu")) ELSE gw,
                Then(p, "menuWait"))
    /\ UNCHANGED <<cache, saved, applied>>

\* _persist_session, then the first step of _navigate_page.
Persist(p) ==
    /\ At(p, "persist")
    /\ cache' = IF p \in Persistent /\ client[p].sid # 0 THEN client[p].sid ELSE cache
    /\ Is(p, Then(p, IF client[p].page = "menu" THEN "open" ELSE "overview"))
    /\ UNCHANGED <<gw, saved, applied>>

ClickOverview(p) ==
    /\ At(p, "overview")
    /\ Exchange(p, IfCurrent(p, Show("menu")), Then(p, "overviewWait"))
    /\ UNCHANGED <<cache, saved, applied>>

OpenPage(p) ==
    /\ At(p, "open")
    /\ Exchange(p, IfCurrent(p, Show(Target(p))), Then(p, "openWait"))
    /\ UNCHANGED <<cache, saved, applied>>

Fill(p) ==
    /\ client[p].pc \in Form
    /\ Exchange(p, IfCurrent(p, Enter(p, client[p].pc)),
                Then(p, IF At(p, "account") THEN "calls" ELSE "save"))
    /\ UNCHANGED <<cache, saved, applied>>

ClickSave(p) ==
    /\ At(p, "save")
    /\ Exchange(p, IfCurrent(p, [gw EXCEPT !.out = Append(@, "busy"), !.saving = TRUE]),
                Then(p, "saveWait"))
    /\ UNCHANGED <<cache, saved, applied>>

\* A plain POST, outside the command loop.
Upload(p) ==
    /\ At(p, "upload")
    /\ Is(p, Then(p, "apply"))
    /\ UNCHANGED <<cache, gw, saved, applied>>

ClickApply(p) ==
    /\ At(p, "apply")
    /\ Exchange(p, gw, Over("done"))
    /\ applied' = IF Current(p) THEN applied \cup {p} ELSE applied
    /\ UNCHANGED <<cache, saved>>

-----------------------------------------------------------------------------
(* Waiting: each poll returns the next fragment that the gateway has queued *)

Wanted(p) == IF At(p, "openWait") THEN Target(p) ELSE "menu"

AfterPage(p) ==
    LET found(step) == [Then(p, step) EXCEPT !.page = Wanted(p)] IN
    IF At(p, "menuWait") THEN found("persist")
    ELSE IF At(p, "overviewWait") THEN found("open")
    ELSE IF p \in Readers THEN Over("done")
    ELSE found(IF p \in Editors THEN "account" ELSE "upload")

Polls(p) == client[p].pc \in Waits /\ Admitted(p)
NextFragment == gw.out # <<>> /\ gw' = [gw EXCEPT !.out = Tail(@)]

PollNothing(p) ==
    /\ Polls(p) /\ client[p].again /\ gw.out = <<>>
    /\ Is(p, Then(p, client[p].pc))
    /\ UNCHANGED <<cache, gw, saved, applied>>

\* _wait_for_page
PollPage(p) ==
    /\ Polls(p) /\ ~At(p, "saveWait")
    /\ NextFragment
    /\ Is(p, IF Head(gw.out) = Wanted(p) THEN AfterPage(p) ELSE Then(p, client[p].pc))
    /\ UNCHANGED <<cache, saved, applied>>

\* Mistake: an assistant that is not busy has saved.
EndsSave(p) == Head(gw.out) = "idle"
\* _wait_for_sip_save returns when the assistant has been busy and is no more.
BusyIsOver(p) == Head(gw.out) = "idle" /\ client[p].busy

PollSave(p) ==
    /\ Polls(p) /\ At(p, "saveWait")
    /\ NextFragment
    /\ Is(p, IF Head(gw.out) = "error" THEN Over("failed")
             ELSE IF BusyIsOver(p) THEN Over("done")
             ELSE [Then(p, "saveWait") EXCEPT !.busy = @ \/ Head(gw.out) = "busy"])
    /\ UNCHANGED <<cache, saved, applied>>

\* Nothing that p waits for is on its way.
Hopeless(p) == Admitted(p) /\ gw.out = <<>> /\ ~gw.saving

Deadline(p) ==
    /\ client[p].pc \in Waits
    /\ "slow" \in Faults \/ Hopeless(p)
    /\ Raise(p, FALSE)
    /\ UNCHANGED <<cache, gw, saved, applied>>

-----------------------------------------------------------------------------
(* The gateway *)

Expire ==
    /\ gw.live # 0
    /\ "early" \in Faults \/ \A p \in Procs : client[p].sid # gw.live
    /\ gw' = NoSession
    /\ UNCHANGED <<client, cache, saved, applied>>

FinishSaving ==
    /\ gw.saving
    /\ \/ /\ gw' = [gw EXCEPT !.saving = FALSE, !.out = Append(@, "idle")]
          /\ saved' = saved \cup {gw.entered}
       \/ /\ gw' = [gw EXCEPT !.saving = FALSE, !.out = @ \o <<"error", "idle">>]
          /\ UNCHANGED saved
    /\ UNCHANGED <<client, cache, applied>>

\* Somebody opens the assistant in a browser.
BrowserOpens ==
    /\ "browser" \in Faults /\ gw.live = 0 /\ Fresh # {}
    /\ gw' = [NoSession EXCEPT !.live = NewSid]
    /\ UNCHANGED <<client, cache, saved, applied>>

-----------------------------------------------------------------------------
Works(p) ==
    \/ Refused(p) \/ OpenSession(p)
    \/ Reload(p) \/ EnterUser(p) \/ EnterPassword(p) \/ Persist(p)
    \/ ClickOverview(p) \/ OpenPage(p)
    \/ Fill(p) \/ ClickSave(p) \/ Upload(p) \/ ClickApply(p)
    \/ PollNothing(p) \/ PollPage(p) \/ PollSave(p)

Next ==
    \/ \E p \in Procs : \/ Start(p) \/ Works(p) \/ Deadline(p)
                       \/ TransportFails(p) \/ Interrupt(p)
    \/ Expire \/ FinishSaving \/ BrowserOpens

Spec == Init /\ [][Next]_vars

\* A command runs on by itself: requests have a timeout, waits a deadline.  The
\* gateway ends what it began, and closes a session that nobody uses.
FairSpec == Spec /\ WF_vars(Expire) /\ WF_vars(FinishSaving)
                 /\ \A p \in Procs : WF_vars(Works(p)) /\ WF_vars(Deadline(p))

-----------------------------------------------------------------------------
(* Properties *)

Page == {"login", "menu"} \cup Views
ClientState == [pc : Steps \cup Ends, sid : Sids \cup {0}, restored : BOOLEAN, again : BOOLEAN,
                page : Page \cup {"none"},
                tries : 0..Attempts, busy : BOOLEAN]

\* Clients, gateway and cache have the shapes their declarations say.
TypeOK ==
    /\ client \in [Procs -> ClientState]
    /\ cache \in Sids \cup {0}
    /\ gw \in [live : Sids \cup {0}, page : Page,
               entered : SUBSET (Procs \X (Form \cup {"user"})),
               out : Seq(Page \cup {"busy", "idle", "error"}), saving : BOOLEAN]
    /\ saved \subseteq SUBSET (Procs \X (Form \cup {"user"}))
    /\ applied \subseteq Procs

\* README.md:338-340: "SIP-account mutations use fresh, non-persisted sessions
\* so an abandoned assistant form cannot poison later commands."  No command
\* works in a session in which another command has entered something.
NoPoisonedForm ==
    \A p \in Procs : Admitted(p) => gw.entered \subseteq {p} \X (Form \cup {"user"})

\* create_sip_client returns only when the gateway has saved its form, with
\* every field and nobody else's (1145-1173).
SavedAsReported ==
    \A e \in Editors : At(e, "done") => {e} \X Form \in saved

\* The session in the cache file, while it lives, has passed the login: it was
\* stored after the menu appeared (1039-1049), or after a page behind it.
CacheIsLoggedIn == cache # 0 /\ cache = gw.live => gw.page # "login"

\* Every command ends, however often its session is closed: a request is
\* repeated once (895-902, 913-917), and a wait has its deadline.
CommandsEnd == \A p \in Procs : Running(p) ~> ~Running(p)

\* A session in the cache that is no longer valid costs a reader nothing: the
\* request is repeated in a new session (test_tks_web.py:724, 751).  Here the
\* gateway is free, or its session is the one in the cache, when it starts.
StaleCacheHeals ==
    \A p \in Readers :
        At(p, "reload") /\ gw.live \in {0, cache} /\ client[p].sid = cache ~> At(p, "done")

\* firmware_update (1331): "Upload a firmware image and trigger applying it."
UpdateIsTriggered == \A u \in Updaters : At(u, "done") => u \in applied
=============================================================================
