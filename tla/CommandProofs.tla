--------------------------- MODULE CommandProofs ---------------------------
(***************************************************************************)
(* Commands that share no memory, for every value of their constants:      *)
(* devices.toml under any number of commands, the scripts of the web       *)
(* service, the activation of the TKS-IP web application, bootstrap, and   *)
(* the two streams that are passed on in order and once: the events of     *)
(* Baresip, for any number of starts and of events, and the lines of a     *)
(* log, for any files, any number of lines and any -n.                     *)
(***************************************************************************)
EXTENDS MCCommands, SequenceTheorems, TLAPS

-----------------------------------------------------------------------------
(* Type correctness *)

LEMMA StepKeepsTypes == StoreTypeOK /\ [StoreNext]_storeVars => StoreTypeOK'
<1> SUFFICES ASSUME StoreTypeOK, [StoreNext]_storeVars PROVE StoreTypeOK'
  OBVIOUS
<1> DEFINE Devices == Original \cup {AddOf[e] : e \in Adders}
<1> USE DEF StoreTypeOK, Kinds, Writers, Set, Normalized
<1>1. ASSUME NEW e \in Adders, LoadConfig(e) PROVE StoreTypeOK'
  <2>1. WithDevice(Normalized(store), AddOf[e]) \in SUBSET Devices
    BY DEF WithDevice
  <2>2. copy' \in [Writers -> SUBSET Devices]
    BY <1>1, <2>1 DEF LoadConfig
  <2>3. cmd' \in [Writers -> {"idle", "loaded", "saved", "failed", "killed"}]
    BY <1>1 DEF LoadConfig
  <2> QED BY <1>1, <2>2, <2>3 DEF LoadConfig
<1>2. ASSUME NEW e \in Inits, InitConfig(e) PROVE StoreTypeOK'
  BY <1>2 DEF InitConfig
<1>3. ASSUME NEW e \in Writers, MakeTemporary(e) PROVE StoreTypeOK'
  BY <1>3 DEF MakeTemporary
<1>4. ASSUME NEW e \in Writers, Sync(e) PROVE StoreTypeOK'
  BY <1>4 DEF Sync
<1>5. ASSUME NEW e \in Writers, Replace(e) PROVE StoreTypeOK'
  <2>1. store' \in [kind : Kinds, devices : SUBSET Devices] /\ recorded' \subseteq Devices
    BY <1>5 DEF Replace, Put
  <2>2. missed' \in [Writers -> SUBSET Devices]
    BY <1>5 DEF Replace, Put
  <2>3. /\ cmd' \in [Writers -> {"idle", "loaded", "saved", "failed", "killed"}]
        /\ temp' \in [Writers -> {"none", "open", "synced"}]
        /\ copy' \in [Writers -> SUBSET Devices]
    BY <1>5 DEF Replace, Put
  <2> QED BY <2>1, <2>2, <2>3
<1>6. ASSUME NEW e \in Writers, WriteFails(e) PROVE StoreTypeOK'
  BY <1>6 DEF WriteFails
<1>7. ASSUME NEW e \in Writers, Killed(e) PROVE StoreTypeOK'
  BY <1>7 DEF Killed
<1>8. CASE UNCHANGED storeVars
  BY <1>8 DEF storeVars
<1> QED BY <1>1, <1>2, <1>3, <1>4, <1>5, <1>6, <1>7, <1>8 DEF StoreNext

\* Every variable of the store has the shape its declaration says.
THEOREM StoreTypeCorrect == StoreSpec => []StoreTypeOK
<1>1. StoreInit => StoreTypeOK
  BY StoreAssumption DEF StoreInit, StoreTypeOK, Kinds, Writers
<1> QED BY <1>1, StepKeepsTypes, PTL DEF StoreSpec

-----------------------------------------------------------------------------
(* Atomicity *)

LEMMA StepIsAtomic ==
    StoreTypeOK /\ WritesAreAtomic /\ [StoreNext]_storeVars => WritesAreAtomic'
<1> SUFFICES ASSUME StoreTypeOK, WritesAreAtomic, [StoreNext]_storeVars PROVE WritesAreAtomic'
  OBVIOUS
<1> USE DEF StoreTypeOK, WritesAreAtomic, Writers, Set
<1>1. ASSUME NEW e \in Adders, LoadConfig(e) PROVE WritesAreAtomic'
  BY <1>1 DEF LoadConfig
<1>2. ASSUME NEW e \in Inits, InitConfig(e) PROVE WritesAreAtomic'
  BY <1>2 DEF InitConfig
<1>3. ASSUME NEW e \in Writers, MakeTemporary(e) PROVE WritesAreAtomic'
  BY <1>3 DEF MakeTemporary
<1>4. ASSUME NEW e \in Writers, Sync(e) PROVE WritesAreAtomic'
  BY <1>4 DEF Sync
<1>5. ASSUME NEW e \in Writers, Replace(e) PROVE WritesAreAtomic'
  BY <1>5 DEF Replace, Put
<1>6. ASSUME NEW e \in Writers, WriteFails(e) PROVE WritesAreAtomic'
  BY <1>6 DEF WriteFails
<1>7. ASSUME NEW e \in Writers, Killed(e) PROVE WritesAreAtomic'
  BY <1>7 DEF Killed
<1>8. CASE UNCHANGED storeVars
  BY <1>8 DEF storeVars
<1> QED BY <1>1, <1>2, <1>3, <1>4, <1>5, <1>6, <1>7, <1>8 DEF StoreNext

\* A reader of devices.toml finds a whole file, whichever command was interrupted or
\* killed at whatever point; a command that ended by itself leaves no temporary file.
THEOREM FileIsNeverTorn == StoreSpec => []WritesAreAtomic
<1>1. StoreInit => WritesAreAtomic
  BY DEF StoreInit, WritesAreAtomic, Writers
<1> QED BY <1>1, StepIsAtomic, StoreTypeCorrect, PTL DEF StoreSpec

-----------------------------------------------------------------------------
(***************************************************************************)
(* Lost updates.  LostOnlyToOverlap is not inductive: a rename loses       *)
(* nothing unaccounted for only if what the file holds by then is in the   *)
(* command's copy or was put there after it had read the file (Followed).  *)
(***************************************************************************)

Followed ==
    \A e \in Writers \ Forced :
        cmd[e] = "loaded" => Normalized(store) \subseteq copy[e] \cup missed[e]

\* What an adder saves is what it was asked to add, among the rest.
AddsItsDevice == \A e \in Adders : cmd[e] = "loaded" => AddOf[e] \in copy[e]

NothingBareRecorded == store.kind = "apartments" => recorded \cap Bare = {}

LostInv ==
    /\ LostOnlyToOverlap /\ Followed /\ AddsItsDevice /\ NothingBareRecorded
    /\ store.kind = "absent" => store.devices = {}

LEMMA ReplaceAccounts ==
    ASSUME StoreTypeOK, LostInv, NEW e \in Writers, Replace(e)
    PROVE  LostInv'
<1> USE DEF StoreTypeOK, LostInv, Writers, Set
<1>1. /\ cmd[e] = "loaded" /\ cmd' = [cmd EXCEPT ![e] = "saved"] /\ UNCHANGED copy
      /\ store' = [kind |-> "tables", devices |-> copy[e]]
      /\ recorded' = IF e \in Adders THEN recorded \cup {AddOf[e]} ELSE recorded
  BY DEF Replace, Put
<1>2. missed' = [w \in Writers |-> IF w # e /\ cmd[w] = "loaded"
                    THEN missed[w] \cup (copy[e] \ Normalized(store)) ELSE missed[w]]
  BY DEF Replace, Put
<1>3. Normalized(store') = copy[e]
  BY <1>1 DEF Normalized
<1>4. Followed'
  <2> SUFFICES ASSUME NEW w \in Writers \ Forced, cmd'[w] = "loaded", NEW x \in copy[e]
               PROVE  x \in copy[w] \cup missed'[w]
    BY <1>1, <1>3 DEF Followed
  <2>1. w # e /\ cmd[w] = "loaded"
    BY <1>1
  <2>2. CASE x \in Normalized(store)
    BY <1>2, <2>1, <2>2 DEF Followed
  <2>3. CASE x \notin Normalized(store)
    BY <1>2, <2>1, <2>3
  <2> QED BY <2>2, <2>3
<1>5. LostOnlyToOverlap'
  <2> SUFFICES ASSUME NEW d \in recorded' \ copy[e]
               PROVE  \E w \in Writers : cmd'[w] = "saved" /\ (d \in missed'[w] \/ w \in Forced)
    BY <1>1 DEF LostOnlyToOverlap
  <2>1. d \in recorded
    BY <1>1 DEF AddsItsDevice
  <2>2. CASE d \in store.devices
    <3>1. d \in Normalized(store)
      BY <2>1, <2>2 DEF Normalized, NothingBareRecorded
    <3>2. e \in Forced \/ d \in missed[e]
      BY <1>1, <3>1 DEF Followed
    <3>3. cmd'[e] = "saved" /\ missed'[e] = missed[e]
      BY <1>1, <1>2
    <3> QED BY <3>2, <3>3
  <2>3. CASE d \notin store.devices
    <3>1. PICK w \in Writers : cmd[w] = "saved" /\ (d \in missed[w] \/ w \in Forced)
      BY <2>1, <2>3 DEF LostOnlyToOverlap
    <3>2. cmd'[w] = "saved" /\ missed'[w] = missed[w]
      BY <1>1, <1>2, <3>1
    <3> QED BY <3>1, <3>2
  <2> QED BY <2>2, <2>3
<1>6. AddsItsDevice' /\ NothingBareRecorded' /\ (store'.kind = "absent" => store'.devices = {})
  BY <1>1 DEF AddsItsDevice, NothingBareRecorded
<1> QED BY <1>4, <1>5, <1>6

LEMMA LoadAccounts ==
    ASSUME StoreTypeOK, LostInv, NEW e \in Writers, UNCHANGED <<store, missed, recorded>>,
           \/ e \in Adders /\ LoadConfig(e)
           \/ e \in Inits /\ InitConfig(e)
    PROVE  LostInv'
<1> USE StoreAssumption DEF StoreTypeOK, LostInv, Writers, Set
<1>1. /\ cmd[e] = "idle" /\ cmd'[e] # "saved"
      /\ \A w \in Writers \ {e} : cmd'[w] = cmd[w] /\ copy'[w] = copy[w]
  BY DEF LoadConfig, InitConfig
<1>2. LostOnlyToOverlap'
  BY <1>1 DEF LostOnlyToOverlap
<1>3. Followed' /\ AddsItsDevice'
  <2>1. CASE e \in Adders /\ LoadConfig(e)
    <3>1. cmd'[e] = "loaded" => copy'[e] = Normalized(store) \cup {AddOf[e]}
      BY <2>1 DEF LoadConfig, WithDevice
    <3> QED BY <1>1, <3>1 DEF Followed, AddsItsDevice, Normalized
  <2>2. CASE e \in Inits /\ InitConfig(e)
    <3>1. cmd'[e] = "loaded" /\ e \notin Forced => store.devices = {}
      BY <2>2 DEF InitConfig
    <3>2. Normalized(store) \subseteq store.devices
      BY DEF Normalized
    <3>3. UNCHANGED copy /\ e \notin Adders
      BY <2>2 DEF InitConfig
    <3>4. Followed'
      BY <1>1, <3>1, <3>2, <3>3 DEF Followed, Normalized
    <3>5. AddsItsDevice'
      BY <1>1, <3>3 DEF AddsItsDevice
    <3> QED BY <3>4, <3>5
  <2> QED BY <2>1, <2>2
<1> QED BY <1>2, <1>3 DEF NothingBareRecorded

\* A device that was saved, or was in the file before, is lost only to init --force or to
\* a command that had read the file before the device was in it.
THEOREM NothingElseIsLost == StoreSpec => []LostOnlyToOverlap
<1>1. StoreInit => LostInv
  <2> SUFFICES ASSUME StoreInit PROVE LostInv
    OBVIOUS
  <2>1. recorded \subseteq store.devices /\ (store.kind = "absent" => store.devices = {})
    BY DEF StoreInit
  <2>2. NothingBareRecorded
    BY DEF StoreInit, NothingBareRecorded
  <2> QED BY <2>1, <2>2, StoreAssumption
          DEF StoreInit, LostInv, LostOnlyToOverlap, Followed, AddsItsDevice, Writers
<1>2. StoreTypeOK /\ LostInv /\ [StoreNext]_storeVars => LostInv'
  <2> SUFFICES ASSUME StoreTypeOK, LostInv, [StoreNext]_storeVars PROVE LostInv'
    OBVIOUS
  <2>1. ASSUME NEW e \in Adders, LoadConfig(e) PROVE LostInv'
    BY <2>1, LoadAccounts DEF LoadConfig, Writers
  <2>2. ASSUME NEW e \in Inits, InitConfig(e) PROVE LostInv'
    BY <2>2, LoadAccounts DEF InitConfig, Writers
  <2>3. ASSUME NEW e \in Writers, Replace(e) PROVE LostInv'
    BY <2>3, ReplaceAccounts
  <2>4. ASSUME /\ UNCHANGED <<store, copy, missed, recorded>>
               /\ \/ UNCHANGED cmd
                  \/ \E e \in Writers, v \in {"failed", "killed"} :
                        cmd[e] = "loaded" /\ cmd' = [cmd EXCEPT ![e] = v]
        PROVE  LostInv'
    <3>1. \A w \in Writers : /\ cmd'[w] = "loaded" => cmd[w] = "loaded"
                             /\ cmd[w] = "saved" => cmd'[w] = "saved"
      BY <2>4 DEF StoreTypeOK
    <3> QED BY <2>4, <3>1 DEF LostInv, LostOnlyToOverlap, Followed, AddsItsDevice,
                              NothingBareRecorded, Normalized, Writers
  <2>5. ASSUME NEW e \in Writers, MakeTemporary(e) \/ Sync(e) PROVE LostInv'
    BY <2>4, <2>5 DEF MakeTemporary, Sync
  <2>6. ASSUME NEW e \in Writers, WriteFails(e) \/ Killed(e) PROVE LostInv'
    BY <2>4, <2>6 DEF WriteFails, Killed, Set
  <2>7. CASE UNCHANGED storeVars
    BY <2>4, <2>7 DEF storeVars
  <2> QED BY <2>1, <2>2, <2>3, <2>5, <2>6, <2>7 DEF StoreNext
<1>3. LostInv => LostOnlyToOverlap
  BY DEF LostInv
<1> QED BY <1>1, <1>2, <1>3, StoreTypeCorrect, PTL DEF StoreSpec

-----------------------------------------------------------------------------
(***************************************************************************)
(* ApiScript.  EffectsFollowScript is inductive once it is known how far   *)
(* the device is in each phase, and that a wait only begins when a job of  *)
(* this script has replaced what `progress` told before.                   *)
(***************************************************************************)

Exchanges == {"basic", "salt", "auth", "again"}

ApiInv ==
    /\ ApiTypeOK /\ EffectsFollowScript
    /\ phase \in Exchanges =>
         Len(effects) = step /\ step < Len(script) /\ outcome = "none"
    /\ phase = "wait" =>
         /\ Len(effects) = step /\ step = Len(script) /\ outcome = "none"
         /\ job \in {"running", "rebooting", "done", "failed"}

LEMMA ScriptsAreLists ==
    ASSUME NEW s \in Scripts
    PROVE  /\ s \in Seq(STRING) /\ Len(s) \in Nat \ {0}
           /\ \A i \in 1..Len(s) : s[i] \in ScriptCommands
<1>1. s \in Seq(STRING) /\ s # <<>>
  BY ScriptAssumption
<1>2. Len(s) \in Nat \ {0}
  BY <1>1
<1>3. \A i \in 1..Len(s) : s[i] \in ScriptCommands
  BY DEF ScriptCommands
<1> QED BY <1>1, <1>2, <1>3

LEMMA ScriptBegins == ApiInit => ApiInv
<1> SUFFICES ASSUME ApiInit PROVE ApiInv
  OBVIOUS
<1>1. script \in Scripts /\ step = 0 /\ effects = <<>> /\ Len(effects) = 0
  BY DEF ApiInit
<1>2. Len(script) \in Nat \ {0}
  BY <1>1, ScriptsAreLists
<1>3. effects \in Seq(ScriptCommands)
  BY <1>1
<1> QED BY <1>1, <1>2, <1>3 DEF ApiInit, ApiInv, ApiTypeOK, EffectsFollowScript, Exchanges

\* The one action by which the device gets further.
LEMMA ExecutionFollows == ApiInv /\ Executed => ApiInv'
<1> SUFFICES ASSUME ApiInv, Executed PROVE ApiInv'
  OBVIOUS
<1> USE DEF ApiInv, ApiTypeOK
<1>1. /\ script \in Scripts /\ step \in Nat /\ Len(script) \in Nat \ {0}
      /\ phase \in Exchanges /\ step < Len(script) /\ Len(effects) = step
      /\ effects \in Seq(ScriptCommands) /\ outcome = "none"
      /\ UNCHANGED <<script, accepts>>
  BY ScriptsAreLists DEF Executed, Sending, Exchanges
<1>2. Command \in ScriptCommands /\ Command = script[step + 1]
  BY <1>1, ScriptsAreLists DEF Command
<1>3. effects' = Append(effects, Command)
  BY DEF Executed, Takes
<1>4. /\ effects' \in Seq(ScriptCommands) /\ Len(effects') = step + 1
      /\ \A i \in 1..Len(effects') : effects'[i] = script[i]
  BY <1>1, <1>2, <1>3 DEF EffectsFollowScript
<1>5. /\ job' \in {"none", "stale", "running", "rebooting", "done", "failed"}
      /\ Command \in Polled => job' = "running"
  BY DEF Executed, Takes
<1>6. CASE Answered
  <2>1. CASE step + 1 < Len(script)
    BY <1>1, <1>4, <1>5, <1>6, <2>1 DEF Answered, Exchanges, EffectsFollowScript
  <2>2. CASE ~(step + 1 < Len(script))
    <3>1. step' = step + 1 /\ step' = Len(script)
      BY <1>1, <1>6, <2>2 DEF Answered
    <3>2. CASE Command \in Polled /\ phase' = "wait" /\ UNCHANGED outcome
      BY <1>1, <1>4, <1>5, <3>1, <3>2 DEF Exchanges, EffectsFollowScript
    <3>3. CASE phase' = "over" /\ outcome' = "ok"
      BY <1>1, <1>4, <1>5, <3>1, <3>3 DEF Exchanges, EffectsFollowScript
    <3> QED BY <1>6, <2>2, <3>2, <3>3 DEF Answered
  <2> QED BY <2>1, <2>2
<1>7. CASE Fail
  BY <1>1, <1>4, <1>5, <1>7 DEF Fail, Exchanges, EffectsFollowScript
<1> QED BY <1>6, <1>7 DEF Executed

LEMMA ApiInvHolds == ApiSpec => []ApiInv
<1>1. ApiInv /\ [ApiNext]_apiVars => ApiInv'
  <2> SUFFICES ASSUME ApiInv, [ApiNext]_apiVars PROVE ApiInv'
    OBVIOUS
  <2> USE DEF ApiInv, ApiTypeOK, EffectsFollowScript, Exchanges
  <2>0. script \in Scripts /\ Len(script) \in Nat \ {0} /\ Len(effects) \in Nat /\ step \in Nat
    BY ScriptsAreLists
  <2>1. CASE Executed
    BY <2>1, ExecutionFollows
  <2>2. CASE RefusedBasic
    BY <2>0, <2>2 DEF RefusedBasic
  <2>3. CASE SaltGiven
    BY <2>0, <2>3 DEF SaltGiven
  <2>4. CASE Authenticated
    BY <2>0, <2>4 DEF Authenticated
  <2>5. CASE ExchangeFails
    BY <2>0, <2>5 DEF ExchangeFails, Fail
  <2>6. CASE SeenState
    BY <2>0, <2>6 DEF SeenState
  <2>7. CASE PollFails
    BY <2>0, <2>7 DEF PollFails, Fail
  <2>8. CASE WaitEnds
    BY <2>0, <2>8 DEF WaitEnds
  <2>9. CASE JobGoesOn
    BY <2>0, <2>9 DEF JobGoesOn
  <2>10. CASE UNCHANGED apiVars
    BY <2>0, <2>10 DEF apiVars
  <2> QED BY <2>1, <2>2, <2>3, <2>4, <2>5, <2>6, <2>7, <2>8, <2>9, <2>10 DEF ApiNext, ApiStep
<1> QED BY <1>1, ScriptBegins, PTL DEF ApiSpec

\* Whatever is refused, repeated or lost, the device does what the script says, in order
\* and each command once, and success is told of this script and this update only.
THEOREM EffectsAreTheScript == ApiSpec => []EffectsFollowScript
<1>1. ApiInv => EffectsFollowScript
  BY DEF ApiInv
<1> QED BY <1>1, ApiInvHolds, PTL

-----------------------------------------------------------------------------
(***************************************************************************)
(* TksActivation.  DeadlineIsKept needs that a poll begins no later than   *)
(* the deadline, or than the hook if that took longer, and that what was   *)
(* still starting when the last poll was answered is not ready before that *)
(* answer, which is one wait before the return of the poll.                *)
(***************************************************************************)

Latest == Later(Timeout, 2 * HookSlow)

ActInv ==
    /\ ActTypeOK /\ DeadlineIsKept
    /\ act = "idle" => clock = 0
    /\ act = "hooked" => clock <= HookSlow
    /\ act = "polling" => clock <= Latest
    /\ act = "answered" => clock <= Latest + Slow
    /\ act = "answered" /\ reply \in {"starting", "unreadable"} =>
          readyAt = -1 \/ readyAt >= clock
    /\ act = "answered" => reply # "none"
    /\ act = "timeout" => clock >= Timeout
    /\ app # "running" => readyAt = -1

LEMMA LatestIs == Latest \in Nat /\ Timeout <= Latest /\ 2 * HookSlow <= Latest
BY TimeAssumption DEF Latest, Later

LEMMA HookKeepsDeadline == ActInv /\ (SendHook \/ HookReturns \/ HookLost) => ActInv'
<1> SUFFICES ASSUME ActInv, SendHook \/ HookReturns \/ HookLost PROVE ActInv'
  OBVIOUS
<1> USE TimeAssumption, LatestIs DEF ActInv, ActTypeOK, Results
<1>1. PICK d \in 0..HookSlow : clock' = clock + d
  BY DEF SendHook, HookReturns, HookLost
<1>2. clock' \in Nat /\ UNCHANGED <<readyAt, lastState, lastError, reply>>
  BY <1>1 DEF SendHook, HookReturns, HookLost
<1>3. \/ act' = "hooked" /\ clock' <= HookSlow
      \/ act' \in {"polling", "transportError", "escaped"} /\ clock' <= Latest
  BY <1>1 DEF SendHook, HookReturns, HookLost
<1>4. clock' <= Latest + 2 * Slow
  BY <1>2, <1>3
<1>5. DeadlineIsKept'
  BY <1>3, <1>4 DEF DeadlineIsKept, Latest
<1>6. app' \in {"off", "starting", "running", "error"} /\ (app' # "running" => readyAt' = -1)
  BY DEF SendHook, HookReturns, HookLost
<1> QED BY <1>2, <1>3, <1>5, <1>6

LEMMA AnswerKeepsDeadline == ActInv /\ AnswerPoll => ActInv'
<1> SUFFICES ASSUME ActInv, AnswerPoll PROVE ActInv'
  OBVIOUS
<1> USE TimeAssumption, LatestIs DEF ActInv, ActTypeOK, Results
<1>1. PICK d \in 0..Slow : clock' = clock + d
  BY DEF AnswerPoll
<1>2. clock' \in Nat /\ clock' <= Latest + Slow
  BY <1>1 DEF AnswerPoll
<1>3. act' = "answered" /\ UNCHANGED <<app, readyAt, lastState, lastError>>
  BY DEF AnswerPoll
<1>4. /\ reply' \in {"lost", "odd", "starting", "unreadable", "running", "error"}
      /\ reply' \in {"starting", "unreadable"} => readyAt' = -1
  BY DEF AnswerPoll
<1>5. clock' <= Latest + 2 * Slow
  BY <1>2
<1>6. DeadlineIsKept'
  BY <1>3, <1>5 DEF DeadlineIsKept, Latest
<1> QED BY <1>2, <1>3, <1>4, <1>6

LEMMA ReturnKeepsDeadline == ActInv /\ PollReturns => ActInv'
<1> SUFFICES ASSUME ActInv, PollReturns PROVE ActInv'
  OBVIOUS
<1> USE TimeAssumption, LatestIs DEF ActInv, ActTypeOK, Results
<1>1. PICK d \in 0..Slow : clock' = clock + d
  BY DEF PollReturns
<1>2. clock' \in Nat /\ clock' <= Latest + 2 * Slow /\ UNCHANGED <<app, readyAt, reply>>
  BY <1>1 DEF PollReturns
<1>3. act' \in {"up", "protocolError", "escaped"} \/ act' = Onward(clock')
  BY DEF PollReturns
<1>4. (act' = "sleeping" => clock' < Timeout) /\ (act' = "timeout" => clock' >= Timeout)
  BY <1>2, <1>3 DEF Onward
<1>5. act' \in {"up", "protocolError", "escaped", "timeout", "sleeping"}
  BY <1>3 DEF Onward
<1>6. act' = "timeout" /\ reply' # "lost" => readyAt = -1 \/ readyAt >= Timeout - Slow
  <2> SUFFICES ASSUME act' = "timeout", reply' # "lost", readyAt # -1
               PROVE  readyAt >= Timeout - Slow
    OBVIOUS
  <2>1. reply \in {"starting", "unreadable"}
    BY <1>2 DEF PollReturns
  <2>2. readyAt >= clock
    BY <2>1 DEF PollReturns
  <2>3. clock' >= Timeout
    BY <1>4
  <2> QED BY <1>1, <2>2, <2>3
<1>7. lastState' \in {"none", "starting", "running"} /\ lastError' \in BOOLEAN
  BY DEF PollReturns
<1>8. DeadlineIsKept'
  BY <1>2, <1>4, <1>6 DEF DeadlineIsKept, Latest
<1> QED BY <1>2, <1>4, <1>5, <1>7, <1>8

LEMMA ActInvHolds == ActSpec => []ActInv
<1>1. ActInit => ActInv
  <2> SUFFICES ASSUME ActInit PROVE ActInv
    OBVIOUS
  <2>1. act = "idle" /\ clock = 0 /\ (app # "running" => readyAt = -1)
    BY DEF ActInit
  <2>2. ActTypeOK
    BY DEF ActInit, ActTypeOK
  <2> QED BY TimeAssumption, LatestIs, <2>1, <2>2 DEF ActInv, DeadlineIsKept, Latest
<1>2. ActInv /\ [ActNext]_actVars => ActInv'
  <2> SUFFICES ASSUME ActInv, [ActNext]_actVars PROVE ActInv'
    OBVIOUS
  <2>1. CASE SendHook \/ HookReturns \/ HookLost
    BY <2>1, HookKeepsDeadline
  <2>2. CASE AnswerPoll
    BY <2>2, AnswerKeepsDeadline
  <2>3. CASE PollReturns
    BY <2>3, ReturnKeepsDeadline
  <2>4. CASE SleepOn
    <3> USE TimeAssumption, LatestIs DEF ActInv, ActTypeOK, DeadlineIsKept, Results
    <3>1. clock < Timeout /\ act' = "polling" /\ UNCHANGED <<app, readyAt, lastState, lastError, reply>>
      BY <2>4 DEF SleepOn
    <3>2. clock' \in Nat /\ clock' <= Timeout
      BY <2>4, <3>1 DEF SleepOn, PauseUpTo, Least
    <3>3. clock' <= Latest /\ clock' <= Latest + 2 * Slow
      BY <3>2
    <3> QED BY <3>1, <3>2, <3>3 DEF Latest
  <2>5. CASE AppStarts
    BY <2>5, TimeAssumption DEF AppStarts, ActInv, ActTypeOK, DeadlineIsKept, Results
  <2>6. CASE AppStops
    BY <2>6, TimeAssumption DEF AppStops, ActInv, ActTypeOK, DeadlineIsKept, Results
  <2>7. CASE UNCHANGED actVars
    BY <2>7 DEF actVars, ActInv, ActTypeOK, DeadlineIsKept, Results
  <2> QED BY <2>1, <2>2, <2>3, <2>4, <2>5, <2>6, <2>7 DEF ActNext, ActStep
<1> QED BY <1>1, <1>2, PTL DEF ActSpec

\* The activation is over at most one request after its deadline, or after the hook, and
\* an application that is ready one wait before the deadline and goes on is found, unless
\* the last poll is lost: each poll may be answered and return at different times.
THEOREM DeadlineHolds == ActSpec => []DeadlineIsKept
<1>1. ActInv => DeadlineIsKept
  BY DEF ActInv
<1> QED BY <1>1, ActInvHolds, PTL

-----------------------------------------------------------------------------
(***************************************************************************)
(* Bootstrap.  What the report says at the end has to be true of each step *)
(* when it is over, and stay true while the others run; and the trigger is *)
(* only pulsed once the credentials are on the device.                     *)
(***************************************************************************)

Pulses == {"pulseLow", "pulseHigh"}

\* The steps that are over when bootstrap stands at `boot`.
Passed ==
    CASE boot = "reported" -> BootSteps
      [] boot = "weather" -> {"network", "tks"}
      [] boot \in {"tks"} \cup Pulses -> {"network"}
      [] OTHER -> {}

BootInv ==
    /\ BootTypeOK
    /\ \A s \in Passed :
         /\ status[s] # "none" /\ (status[s] = "skipped") = (s \notin wanted)
         /\ s \in wanted \ Capable[target] => status[s] = "failed"
    /\ \A s \in BootSteps : status[s] = "succeeded" => s \in holds
    /\ holds \subseteq wanted \cap Capable[target]
    /\ boot \in Pulses => "tks" \in holds
    /\ ConnectsWithNewCredentials

LEMMA BootStepIsTrue == BootInv /\ [BootNext]_bootVars => BootInv'
<1> SUFFICES ASSUME BootInv, [BootNext]_bootVars PROVE BootInv'
  OBVIOUS
<1> USE CapableSteps
        DEF BootInv, BootTypeOK, Passed, Pulses, BootSteps, Ended, ConnectsWithNewCredentials,
            invocation
<1>1. CASE Resolve
  BY <1>1 DEF Resolve
<1>2. ASSUME NEW s \in BootSteps, Skip(s) PROVE BootInv'
  BY <1>2 DEF Skip, Report, After
<1>3. ASSUME NEW s \in BootSteps, Unsupported(s) PROVE BootInv'
  BY <1>3 DEF Unsupported, Report, After
<1>4. ASSUME NEW s \in BootSteps, Fails(s) PROVE BootInv'
  BY <1>4 DEF Fails, Attempted, Report, After
<1>5. CASE ConfigureNetwork
  BY <1>5 DEF ConfigureNetwork, Attempted, TakeNetwork, Report, After
<1>6. CASE InvalidNetwork
  BY <1>6 DEF InvalidNetwork
<1>7. CASE SetCredentials
  BY <1>7 DEF SetCredentials, Attempted, Report, After
<1>8. CASE Pulse("pulseLow", 0, "pulseHigh")
  BY <1>8 DEF Pulse, TakeTrigger, Report, After
<1>9. CASE Pulse("pulseHigh", 1, "weather")
  BY <1>9 DEF Pulse, TakeTrigger, Report, After
<1>10. CASE ConfigureWeather
  BY <1>10 DEF ConfigureWeather, Attempted, Report, After
<1>11. ASSUME NEW s \in BootSteps, AnswerEscapes(s) PROVE BootInv'
  BY <1>11 DEF AnswerEscapes, Attempted, TakeNetwork
<1>12. CASE UNCHANGED bootVars
  BY <1>12 DEF bootVars
<1> QED BY <1>1, <1>2, <1>3, <1>4, <1>5, <1>6, <1>7, <1>8, <1>9, <1>10, <1>11, <1>12
        DEF BootNext, Trigger

\* No fairness is needed.
LEMMA BootInvHolds == BootInit /\ [][BootNext]_bootVars => []BootInv
<1>1. BootInit => BootInv
  <2> SUFFICES ASSUME BootInit PROVE BootInv
    OBVIOUS
  <2>1. BootTypeOK
    BY DEF BootInit, BootTypeOK, BootSteps
  <2>2. boot = "resolving" /\ holds = {} /\ connected = "none"
    BY DEF BootInit
  <2>3. \A s \in BootSteps : status[s] # "succeeded"
    BY DEF BootInit
  <2> QED BY <2>1, <2>2, <2>3 DEF BootInv, Passed, Pulses, ConnectsWithNewCredentials
<1> QED BY <1>1, BootStepIsTrue, PTL

\* What bootstrap reports is true of the device, for any families and what they implement.
THEOREM BootReportIsTrue == BootSpec => []ReportIsTrue
<1>1. BootInv => ReportIsTrue
  <2> SUFFICES ASSUME BootInv, boot = "reported" PROVE ReportIsTrue
    BY DEF ReportIsTrue
  <2>1. Passed = BootSteps
    BY DEF Passed, Pulses
  <2> QED BY <2>1 DEF BootInv, ReportIsTrue
<1> QED BY <1>1, BootInvHolds, PTL DEF BootSpec

\* A gateway connection made during bootstrap uses the credentials it was given.
THEOREM NewCredentialsFirst == BootSpec => []ConnectsWithNewCredentials
<1>1. BootInv => ConnectsWithNewCredentials
  BY DEF BootInv
<1> QED BY <1>1, BootInvHolds, PTL DEF BootSpec

-----------------------------------------------------------------------------
(***************************************************************************)
(* The child process.  NoOrphan alone is not inductive: what ends outside  *)
(* without a signal or an interrupt must be known not to have a process,   *)
(* and what waits for the process must have sent it one (ChildInv).        *)
(***************************************************************************)

ChildInv ==
    /\ NoOrphan
    /\ process = "running" => handle
    /\ mon \in {"idle", "writing", "spawning"} => ~handle
    /\ told \in {"none", "cut", "term", "kill"}
    /\ mon \in {"terminating", "killing"} => told \in {"term", "kill"}

LEMMA ChildStep == ChildInv /\ [MonitorNext]_monVars => ChildInv'
<1> SUFFICES ASSUME ChildInv, [MonitorNext]_monVars PROVE ChildInv'
  OBVIOUS
<1> USE DEF ChildInv, NoOrphan, child
<1>1. CASE StartMonitor
  BY <1>1 DEF StartMonitor
<1>2. CASE WriteConfig
  BY <1>2 DEF WriteConfig
<1>3. CASE Spawn
  BY <1>3 DEF Spawn
<1>4. CASE Dial
  BY <1>4 DEF Dial
<1>5. CASE Receive
  BY <1>5 DEF Receive, Receiving, ReceiveInCommand, ReceiveInEvents
<1>6. CASE YieldKept
  BY <1>6 DEF YieldKept
<1>7. CASE RecvTimesOut
  BY <1>7 DEF RecvTimesOut, Receiving
<1>8. CASE ControlClosed
  BY <1>8 DEF ControlClosed
<1>9. CASE StopMonitor
  BY <1>9 DEF StopMonitor
<1>10. CASE CloseMonitor
  BY <1>10 DEF CloseMonitor, Erased, Unheard
<1>11. CASE ProcessReaped
  BY <1>11 DEF ProcessReaped, Erased, Unheard
<1>12. CASE WaitTimesOut
  BY <1>12 DEF WaitTimesOut
<1>13. CASE CloseInterrupted
  BY <1>13 DEF CloseInterrupted, Unheard
<1>14. CASE Dropped
  BY <1>14 DEF Dropped
<1>15. CASE BaresipExits
  BY <1>15 DEF BaresipExits
<1>16. CASE BaresipSends
  BY <1>16 DEF BaresipSends
<1>17. CASE UNCHANGED monVars
  BY <1>17 DEF monVars
<1> QED BY <1>1, <1>2, <1>3, <1>4, <1>5, <1>6, <1>7, <1>8, <1>9, <1>10, <1>11, <1>12, <1>13,
           <1>14, <1>15, <1>16, <1>17 DEF MonitorNext, StartStep, ReadStep, CloseStep

\* A Baresip that still runs when the caller is outside is still known to the monitor,
\* however start() failed and at whatever step and however often close() was interrupted;
\* and it has been sent a signal, unless the interrupt came in close() before the first.
THEOREM NobodyIsOrphaned == MonitorSpec => []NoOrphan
<1>1. MonitorInit => ChildInv
  BY DEF MonitorInit, ChildInv, NoOrphan
<1>2. ChildInv => NoOrphan
  BY DEF ChildInv
<1> QED BY <1>1, <1>2, ChildStep, PTL DEF MonitorSpec

-----------------------------------------------------------------------------
(***************************************************************************)
(* The events.  What was told to the caller, the message being read and    *)
(* the parts under way are one list of messages, in which the events count *)
(* up without a gap, as long as no part was lost to a timeout; once one    *)
(* is, the rest of its message ends the reading (Lost).                    *)
(***************************************************************************)

Told == given \o kept
MonReads == mon \in {"asking", "reading"}

IsHead(j) == stream[j][2] = "head"
Message(j) == stream[j][1]

WireType ==
    /\ stream \in Seq(Int \X {"head", "rest"}) /\ half \in Int /\ partial \in Int
    /\ emitted \in Nat /\ given \in Seq(Int) /\ kept \in Seq(Int)

\* Each message is a head and then its rest; the last one may lack its rest so far.
Paired ==
    /\ \A j \in 1..Len(stream) : Message(j) # Nothing
    /\ \A j, k \in 1..Len(stream) : k = j + 1 =>
         IF IsHead(j) THEN Message(k) = Message(j) /\ ~IsHead(k) ELSE IsHead(k)
    /\ stream # <<>> =>
         half = IF IsHead(Len(stream)) THEN Message(Len(stream)) ELSE Nothing

\* The beginning of the message that comes next is gone.
Lost == partial = Nothing /\ IF stream = <<>> THEN half # Nothing ELSE ~IsHead(1)

\* A message whose head was read is the one that goes on.
GoesOn ==
    partial # Nothing =>
        IF stream = <<>> THEN half = partial ELSE Message(1) = partial /\ ~IsHead(1)

\* The events that the caller has not been told, of those whose head has been sent.
Started == Len(Told) + (IF partial > 0 THEN 1 ELSE 0)
Counted ==
    /\ partial > 0 => partial = Len(Told) + 1
    /\ Started <= emitted
    /\ \A j \in 1..Len(stream) : IsHead(j) /\ Message(j) > 0 =>
         Message(j) > Started /\ Message(j) <= emitted
    /\ \A k \in Int : k > Started /\ k <= emitted =>
         \E j \in 1..Len(stream) : IsHead(j) /\ Message(j) = k
    /\ \A i, j \in 1..Len(stream) :
         IsHead(i) /\ IsHead(j) /\ i < j /\ Message(i) > 0 /\ Message(j) > 0 =>
             Message(i) < Message(j)

\* Only a monitor that has its password connects, and it gives it up then.
Unused == stream = <<>> /\ half = Nothing /\ partial = Nothing /\ emitted = 0
          /\ given = <<>> /\ kept = <<>> /\ ~link

WireInv ==
    /\ WireType /\ Paired /\ EventsInOrder
    /\ MonReads => GoesOn /\ (~Lost => Counted)
    /\ password => Unused
    /\ mon \in {"spawning", "dialling"} => password

\* What decides about the invariant, for the steps that leave it alone.
wireState == <<stream, half, partial, emitted, given, kept>>

LEMMA QuietWire ==
    ASSUME WireInv, UNCHANGED wireState, MonReads' => MonReads, password' => password,
           link' => link, mon' \in {"spawning", "dialling"} => password'
    PROVE  WireInv'
<1>1. /\ stream' = stream /\ half' = half /\ partial' = partial /\ emitted' = emitted
      /\ given' = given /\ kept' = kept
  BY DEF wireState
<1>2. WireType' /\ EventsInOrder'
  BY <1>1 DEF WireInv, WireType, EventsInOrder
<1>3. Paired'
  BY <1>1 DEF WireInv, Paired, IsHead, Message
<1>4. MonReads' => GoesOn'
  BY <1>1 DEF WireInv, GoesOn, IsHead, Message
<1>5. MonReads' => (~Lost' => Counted')
  <2>1. Lost' <=> Lost
    BY <1>1 DEF Lost, IsHead
  <2>2. Counted => Counted'
    BY <1>1 DEF Counted, Started, Told, IsHead, Message
  <2> QED BY <2>1, <2>2 DEF WireInv
<1>6. password' => Unused'
  BY <1>1 DEF WireInv, Unused
<1> QED BY <1>2, <1>3, <1>4, <1>5, <1>6 DEF WireInv

-----------------------------------------------------------------------------
(* Baresip sends *)

LEMMA SendingCounts ==
    ASSUME WireInv, BaresipSends
    PROVE  WireInv'
<1> USE DEF WireInv, WireType, Nothing
<1>1. link /\ ~password /\ UNCHANGED <<mon, partial, kept, given, link, password>>
  BY DEF BaresipSends, Unused, disk
<1>2. CASE half # Nothing
  <2>1. stream' = Append(stream, <<half, "rest">>) /\ half' = Nothing /\ UNCHANGED emitted
    BY <1>2 DEF BaresipSends
  <2>2. /\ Len(stream') = Len(stream) + 1 /\ stream' # <<>>
        /\ \A j \in 1..Len(stream) : stream'[j] = stream[j]
        /\ stream'[Len(stream')] = <<half, "rest">>
    BY <2>1
  <2>3. stream # <<>> => IsHead(Len(stream)) /\ Message(Len(stream)) = half
    BY <1>2 DEF Paired
  <2>4. Paired'
    BY <1>2, <2>1, <2>2, <2>3 DEF Paired, IsHead, Message
  <2>5. MonReads => GoesOn' /\ (Lost' => Lost)
    BY <1>1, <1>2, <2>1, <2>2, <2>3 DEF GoesOn, Lost, IsHead, Message
  <2>6. (Lost => Lost')
    BY <1>1, <1>2, <2>1, <2>2 DEF Lost, IsHead, Message
  <2>7. Counted => Counted'
    <3> SUFFICES ASSUME Counted PROVE Counted'
      OBVIOUS
    <3>1. Started' = Started /\ Told' = Told /\ partial' = partial
      BY <1>1 DEF Started, Told
    <3>2. \A j \in 1..Len(stream') :
             IsHead(j)' => j \in 1..Len(stream) /\ IsHead(j) /\ Message(j)' = Message(j)
      <4> SUFFICES ASSUME NEW j \in 1..Len(stream'), IsHead(j)'
                   PROVE  j \in 1..Len(stream) /\ IsHead(j) /\ Message(j)' = Message(j)
        OBVIOUS
      <4>1. j # Len(stream')
        BY <2>2 DEF IsHead
      <4>2. j \in 1..Len(stream)
        BY <2>2, <4>1
      <4> QED BY <2>2, <4>2 DEF IsHead, Message
    <3>3. \A j \in 1..Len(stream) : j \in 1..Len(stream') /\ (IsHead(j) => IsHead(j)')
                                   /\ Message(j)' = Message(j)
      BY <2>2 DEF IsHead, Message
    <3>4. \A k \in Int : k > Started' /\ k <= emitted' =>
             \E j \in 1..Len(stream') : IsHead(j)' /\ Message(j)' = k
      BY <2>1, <3>1, <3>3 DEF Counted
    <3>5. \A j \in 1..Len(stream') : IsHead(j)' /\ Message(j)' > 0 =>
             Message(j)' > Started' /\ Message(j)' <= emitted'
      BY <2>1, <3>1, <3>2 DEF Counted
    <3>6. \A i, j \in 1..Len(stream') :
             IsHead(i)' /\ IsHead(j)' /\ i < j /\ Message(i)' > 0 /\ Message(j)' > 0 =>
                 Message(i)' < Message(j)'
      BY <3>2 DEF Counted
    <3>7. (partial' > 0 => partial' = Len(Told)' + 1) /\ Started' <= emitted'
      BY <2>1, <3>1 DEF Counted
    <3> QED BY <3>4, <3>5, <3>6, <3>7 DEF Counted
  <2>8. WireType'
    BY <1>1, <2>1
  <2> QED BY <1>1, <2>1, <2>4, <2>5, <2>6, <2>7, <2>8 DEF EventsInOrder, MonReads, BaresipSends
<1>3. CASE half = Nothing
  <2>1. PICK m \in Answers \cup {emitted + 1} :
            /\ emitted' = IF m > 0 THEN m ELSE emitted
            /\ stream' = Append(stream, <<m, "head">>) /\ half' = m
    BY <1>3 DEF BaresipSends
  <2>2. m \in Int /\ m # 0 /\ (m > 0 => m = emitted + 1)
    BY <2>1 DEF Answers, Ok, Rejected, Foreign
  <2>3. /\ Len(stream') = Len(stream) + 1 /\ stream' # <<>>
        /\ \A j \in 1..Len(stream) : stream'[j] = stream[j]
        /\ stream'[Len(stream')] = <<m, "head">>
    <3>1. stream \in Seq(Int \X {"head", "rest"}) /\ <<m, "head">> \in Int \X {"head", "rest"}
      BY <2>2
    <3>2. stream' = Append(stream, <<m, "head">>)
      BY <2>1
    <3> HIDE DEF WireInv, WireType
    <3> QED BY <3>1, <3>2
  <2>4. stream # <<>> => ~IsHead(Len(stream))
    BY <1>3 DEF Paired
  <2>5. Paired'
    BY <2>1, <2>2, <2>3, <2>4 DEF Paired, IsHead, Message
  <2>6. MonReads => GoesOn'
    BY <1>1, <1>3, <2>1, <2>2, <2>3 DEF GoesOn, IsHead, Message
  <2>7. MonReads => (Lost => Lost')
    BY <1>1, <1>3, <2>1, <2>3 DEF Lost, IsHead, Message
  <2>8. Counted => Counted'
    <3> SUFFICES ASSUME Counted PROVE Counted'
      OBVIOUS
    <3>1. Started' = Started /\ Len(Told)' = Len(Told) /\ Started \in Int
      BY <1>1 DEF Started, Told
    <3>2. \A j \in 1..Len(stream') : IsHead(j)' /\ Message(j)' > 0 =>
             Message(j)' > Started' /\ Message(j)' <= emitted'
      BY <2>1, <2>2, <2>3, <3>1 DEF Counted, IsHead, Message
    <3>3. ASSUME NEW k \in Int, k > Started', k <= emitted'
          PROVE  \E j \in 1..Len(stream') : IsHead(j)' /\ Message(j)' = k
      <4>1. CASE k <= emitted
        <5>1. PICK j \in 1..Len(stream) : IsHead(j) /\ Message(j) = k
          BY <3>1, <3>3, <4>1 DEF Counted
        <5>2. j \in 1..Len(stream') /\ IsHead(j)' /\ Message(j)' = k
          BY <2>3, <5>1 DEF IsHead, Message
        <5> QED BY <5>2
      <4>2. CASE k > emitted
        <5>1. k = m
          BY <2>1, <2>2, <3>3, <4>2
        <5> QED BY <2>3, <5>1 DEF IsHead, Message
      <4> QED BY <4>1, <4>2
    <3>4. \A i, j \in 1..Len(stream') :
             IsHead(i)' /\ IsHead(j)' /\ i < j /\ Message(i)' > 0 /\ Message(j)' > 0 =>
                 Message(i)' < Message(j)'
      <4> SUFFICES ASSUME NEW i \in 1..Len(stream'), NEW j \in 1..Len(stream'),
                          IsHead(i)', IsHead(j)', i < j, Message(i)' > 0, Message(j)' > 0
                   PROVE  Message(i)' < Message(j)'
        OBVIOUS
      <4>1. i \in 1..Len(stream) /\ IsHead(i) /\ Message(i)' = Message(i)
        BY <2>3 DEF IsHead, Message
      <4>2. CASE j \in 1..Len(stream)
        <5>1. IsHead(j) /\ Message(j)' = Message(j)
          BY <2>3, <4>2 DEF IsHead, Message
        <5> QED BY <4>1, <4>2, <5>1 DEF Counted
      <4>3. CASE j = Len(stream')
        <5>1. Message(j)' = m
          BY <2>3, <4>3 DEF Message
        <5>2. Message(i) \in Int /\ Message(i) <= emitted
          BY <4>1 DEF Counted, Message
        <5> QED BY <2>2, <4>1, <5>1, <5>2
      <4>4. Len(stream) \in Nat /\ Len(stream') = Len(stream) + 1
        BY <2>3
      <4> HIDE DEF WireInv, WireType
      <4>5. j \in 1..Len(stream) \/ j = Len(stream')
        BY <4>4
      <4> QED BY <4>2, <4>3, <4>5
    <3>5. (partial' > 0 => partial' = Len(Told)' + 1) /\ Started' <= emitted'
      BY <1>1, <2>1, <2>2, <3>1 DEF Counted
    <3> QED BY <3>2, <3>3, <3>4, <3>5 DEF Counted
  <2>9. WireType'
    BY <1>1, <2>1, <2>2
  <2> QED BY <1>1, <2>1, <2>2, <2>5, <2>6, <2>7, <2>8, <2>9 DEF EventsInOrder, MonReads, BaresipSends
<1> QED BY <1>2, <1>3

-----------------------------------------------------------------------------
(* The monitor reads *)

\* Taking the first part of a list of messages moves the others up by one.
LEMMA TailPaired ==
    ASSUME WireType, Paired, stream # <<>>, stream' = Tail(stream), half' = half
    PROVE  /\ Len(stream') = Len(stream) - 1
           /\ \A j \in 1..Len(stream') : j + 1 \in 1..Len(stream) /\ stream'[j] = stream[j + 1]
           /\ \A j \in 2..Len(stream) : j - 1 \in 1..Len(stream') /\ stream'[j - 1] = stream[j]
           /\ stream' \in Seq(Int \X {"head", "rest"})
           /\ Paired'
<1>1. /\ Len(stream') = Len(stream) - 1 /\ stream' \in Seq(Int \X {"head", "rest"})
      /\ \A j \in 1..Len(stream') : j + 1 \in 1..Len(stream) /\ stream'[j] = stream[j + 1]
      /\ \A j \in 2..Len(stream) : j - 1 \in 1..Len(stream') /\ stream'[j - 1] = stream[j]
  BY DEF WireType
<1>2. \A j \in 1..Len(stream') : Message(j)' = Message(j + 1) /\ (IsHead(j)' <=> IsHead(j + 1))
  BY <1>1 DEF Message, IsHead
<1>3. \A j \in 1..Len(stream') : Message(j)' # Nothing
  BY <1>1, <1>2 DEF Paired
<1>4. ASSUME NEW j \in 1..Len(stream'), NEW k \in 1..Len(stream'), k = j + 1
      PROVE  IF IsHead(j)' THEN Message(k)' = Message(j)' /\ ~IsHead(k)' ELSE IsHead(k)'
  <2>1. /\ j + 1 \in 1..Len(stream) /\ k + 1 \in 1..Len(stream)
        /\ k + 1 = (j + 1) + 1
    BY <1>1, <1>4
  <2>2. IF IsHead(j + 1) THEN Message(k + 1) = Message(j + 1) /\ ~IsHead(k + 1)
        ELSE IsHead(k + 1)
    BY <2>1 DEF Paired
  <2> QED BY <1>2, <2>2
<1>5. stream' # <<>> => half' = IF IsHead(Len(stream))' THEN Message(Len(stream))' ELSE Nothing
  <2> SUFFICES ASSUME stream' # <<>>
               PROVE  half' = IF stream'[Len(stream')][2] = "head"
                              THEN stream'[Len(stream')][1] ELSE Nothing
    BY DEF IsHead, Message
  <2>1. Len(stream') \in 1..Len(stream')
    BY <1>1
  <2>2. stream'[Len(stream')] = stream[Len(stream)]
    BY <1>1, <2>1 DEF WireType
  <2> QED BY <2>2 DEF Paired, IsHead, Message
<1>6. Paired'
  BY <1>3, <1>4, <1>5 DEF Paired, IsHead, Message
<1> QED BY <1>1, <1>6

LEMMA OneOrMore == \A n \in Nat : n > 0 => n = 1 \/ n > 1
  OBVIOUS

\* The monitor reads the head of a message.
LEMMA HeadCounts ==
    ASSUME WireInv, MonReads, Receive, IsHead(1), partial' = Message(1),
           UNCHANGED <<mon, kept, given>>
    PROVE  WireInv'
<1> USE DEF Nothing
<1>0. /\ WireType /\ Paired /\ EventsInOrder /\ GoesOn /\ (~Lost => Counted)
      /\ (password => Unused) /\ (mon \in {"spawning", "dialling"} => password)
  BY DEF WireInv
<1>1. /\ stream # <<>> /\ stream' = Tail(stream) /\ Len(stream) > 0
      /\ UNCHANGED <<half, emitted, password, link>> /\ partial' = Message(1)
      /\ Len(stream) \in Nat /\ 1 \in 1..Len(stream)
  BY <1>0 DEF Receive, disk, WireType
<1>14. Len(stream) \in Nat /\ Len(stream) > 0
  BY <1>1
<1>2. /\ Len(stream') = Len(stream) - 1
      /\ \A j \in 1..Len(stream') : j + 1 \in 1..Len(stream) /\ stream'[j] = stream[j + 1]
      /\ \A j \in 2..Len(stream) : j - 1 \in 1..Len(stream') /\ stream'[j - 1] = stream[j]
      /\ stream' \in Seq(Int \X {"head", "rest"}) /\ Paired'
  BY <1>0, <1>1, TailPaired
<1>3. partial = Nothing /\ ~Lost
  BY <1>0, <1>1 DEF GoesOn, Lost
<1>4. Counted /\ Started = Len(Told) /\ Len(Told) \in Nat
  BY <1>0, <1>3 DEF Started, Told, WireType
<1> DEFINE m == Message(1)
<1>5. (\A j \in 1..Len(stream) : Message(j) \in Int) /\ m \in Int /\ m # 0
  BY <1>0, <1>1 DEF Message, Paired, WireType
<1>6. \A j \in 1..Len(stream') : Message(j)' = Message(j + 1) /\ (IsHead(j)' <=> IsHead(j + 1))
                                /\ Message(j + 1) \in Int
  BY <1>2, <1>5 DEF Message, IsHead
<1>7. \A j \in 2..Len(stream) : j - 1 \in 1..Len(stream') /\ Message(j - 1)' = Message(j)
                                /\ (IsHead(j - 1)' <=> IsHead(j))
  BY <1>2 DEF Message, IsHead
<1>8. m > 0 => m = Len(Told) + 1
  <2> SUFFICES ASSUME m > 0 PROVE m = Len(Told) + 1
    OBVIOUS
  <2>1. m > Len(Told) /\ m <= emitted
    BY <1>1, <1>4 DEF Counted
  <2>. DEFINE k == Len(Told) + 1
  <2>5. k \in Int /\ k > Started /\ k <= emitted /\ k > 0
    BY <1>0, <1>4, <1>5, <2>1 DEF WireType
  <2> HIDE DEF k
  <2>2. PICK j \in 1..Len(stream) : IsHead(j) /\ Message(j) = k
    BY <1>4, <2>5 DEF Counted
  <2>3. CASE j = 1
    BY <2>2, <2>3 DEF k
  <2>4. CASE j > 1
    <3>1. m < Message(j)
      BY <1>1, <1>4, <2>2, <2>4, <2>5 DEF Counted
    <3> QED BY <1>4, <1>5, <2>1, <2>2, <3>1 DEF k
  <2>6. j = 1 \/ j > 1
    BY <1>14, <2>2
  <2> QED BY <2>3, <2>4, <2>6
<1>9. Told' = Told /\ Started' = IF m > 0 THEN m ELSE Len(Told)
  BY <1>0, <1>1, <1>4, <1>8 DEF Started, Told
<1>10. Counted'
  <2>1. (partial' > 0 => partial' = Len(Told)' + 1) /\ Started' <= emitted'
    BY <1>1, <1>4, <1>8, <1>9 DEF Counted
  <2>2. ASSUME NEW j \in 1..Len(stream'), IsHead(j)', Message(j)' > 0
        PROVE  Message(j)' > Started' /\ Message(j)' <= emitted'
    <3>1. j + 1 \in 1..Len(stream) /\ IsHead(j + 1) /\ Message(j + 1) > 0
      BY <1>2, <1>6, <2>2
    <3>2. Message(j + 1) > Len(Told) /\ Message(j + 1) <= emitted
      BY <1>4, <3>1 DEF Counted
    <3>3. m > 0 => m < Message(j + 1)
      BY <1>1, <1>4, <3>1 DEF Counted
    <3> QED BY <1>1, <1>6, <1>9, <3>2, <3>3
  <2>3. ASSUME NEW k \in Int, k > Started', k <= emitted'
        PROVE  \E j \in 1..Len(stream') : IsHead(j)' /\ Message(j)' = k
    <3>1. k > Started /\ k <= emitted /\ k # m
      BY <1>1, <1>4, <1>5, <1>8, <1>9, <2>3
    <3>2. PICK j \in 1..Len(stream) : IsHead(j) /\ Message(j) = k
      BY <1>4, <3>1 DEF Counted
    <3>3. j \in 2..Len(stream)
      BY <3>1, <3>2
    <3> QED BY <1>7, <3>2, <3>3
  <2>4. ASSUME NEW i \in 1..Len(stream'), NEW j \in 1..Len(stream'),
               IsHead(i)', IsHead(j)', i < j, Message(i)' > 0, Message(j)' > 0
        PROVE  Message(i)' < Message(j)'
    <3>1. /\ i + 1 \in 1..Len(stream) /\ j + 1 \in 1..Len(stream) /\ i + 1 < j + 1
          /\ IsHead(i + 1) /\ IsHead(j + 1) /\ Message(i + 1) > 0 /\ Message(j + 1) > 0
      <4>1. i + 1 \in 1..Len(stream) /\ j + 1 \in 1..Len(stream) /\ i \in Int /\ j \in Int
        BY <1>2, <1>14
      <4>2. i + 1 < j + 1
        BY <2>4, <4>1
      <4> QED BY <1>6, <2>4, <4>1, <4>2
    <3>2. Message(i + 1) < Message(j + 1)
      BY <1>4, <3>1 DEF Counted
    <3> QED BY <1>6, <3>2
  <2> QED BY <2>1, <2>2, <2>3, <2>4 DEF Counted
<1>11. GoesOn'
  <2>1. CASE Len(stream) = 1
    <3>1. stream' = <<>> /\ half = m
      BY <1>0, <1>1, <1>2, <2>1 DEF Paired
    <3> QED BY <1>1, <3>1 DEF GoesOn
  <2>2. CASE Len(stream) > 1
    <3>1. Message(2) = m /\ ~IsHead(2)
      BY <1>0, <1>1, <2>2 DEF Paired
    <3>2. 1 \in 1..Len(stream') /\ Message(1)' = Message(1 + 1) /\ (IsHead(1)' <=> IsHead(1 + 1))
      BY <1>2, <1>6, <2>2
    <3>3. stream' # <<>>
      BY <1>2, <2>2
    <3> QED BY <1>1, <3>1, <3>2, <3>3 DEF GoesOn
  <2>3. Len(stream) = 1 \/ Len(stream) > 1
    BY <1>14, OneOrMore, Zenon
  <2> QED BY <2>1, <2>2, <2>3
<1>12. WireType' /\ EventsInOrder'
  BY <1>0, <1>1, <1>2, <1>5 DEF EventsInOrder, WireType
<1>13. ~password /\ ~password' /\ mon' \notin {"spawning", "dialling"}
  BY <1>0, <1>1 DEF MonReads, Unused
<1> QED BY <1>1, <1>2, <1>10, <1>11, <1>12, <1>13 DEF WireInv

\* The monitor reads the rest of a message whose head it holds: an event is told.
LEMMA RestCounts ==
    ASSUME WireInv, MonReads, Receive, ~IsHead(1), partial # Nothing, partial' = Nothing,
           ~password',
           mon' \notin {"spawning", "dialling"}, given' \in Seq(Int), kept' \in Seq(Int),
           Told' = IF partial > 0 THEN Append(Told, partial) ELSE Told
    PROVE  WireInv'
<1> USE DEF Nothing
<1>0. /\ WireType /\ Paired /\ EventsInOrder /\ GoesOn /\ (~Lost => Counted)
  BY DEF WireInv
<1>1. /\ stream # <<>> /\ stream' = Tail(stream) /\ UNCHANGED <<half, emitted>>
  BY DEF Receive, disk
<1>2. /\ Len(stream') = Len(stream) - 1
      /\ \A j \in 1..Len(stream') : j + 1 \in 1..Len(stream) /\ stream'[j] = stream[j + 1]
      /\ \A j \in 2..Len(stream) : j - 1 \in 1..Len(stream') /\ stream'[j - 1] = stream[j]
      /\ stream' \in Seq(Int \X {"head", "rest"}) /\ Paired'
  BY <1>0, <1>1, TailPaired
<1>3. Counted
  BY <1>0 DEF Lost
<1>4. \A j \in 1..Len(stream') : Message(j)' = Message(j + 1) /\ (IsHead(j)' <=> IsHead(j + 1))
  BY <1>2 DEF Message, IsHead
<1>5. \A j \in 2..Len(stream) : j - 1 \in 1..Len(stream') /\ Message(j - 1)' = Message(j)
                                /\ (IsHead(j - 1)' <=> IsHead(j))
  BY <1>2 DEF Message, IsHead
<1>6. Len(stream) \in Nat /\ Told \in Seq(Int) /\ partial \in Int
  BY <1>0 DEF WireType, Told
<1>7. Started' = Started /\ Started = Len(Told')
  <2>1. Started' = Len(Told')
    BY DEF Started, Told
  <2>2. partial > 0 => Len(Told') = Len(Told) + 1
    BY <1>6
  <2>3. ~(partial > 0) => Len(Told') = Len(Told) /\ Len(Told) \in Nat
    BY <1>6
  <2> QED BY <2>1, <2>2, <2>3 DEF Started
<1>8. Counted'
  <2>1. (partial' > 0 => partial' = Len(Told)' + 1) /\ Started' <= emitted'
    BY <1>1, <1>3, <1>7 DEF Counted
  <2>2. ASSUME NEW j \in 1..Len(stream'), IsHead(j)', Message(j)' > 0
        PROVE  Message(j)' > Started' /\ Message(j)' <= emitted'
    <3>1. j + 1 \in 1..Len(stream) /\ IsHead(j + 1) /\ Message(j + 1) > 0
      BY <1>2, <1>4, <2>2
    <3> QED BY <1>1, <1>3, <1>4, <1>7, <3>1 DEF Counted
  <2>3. ASSUME NEW k \in Int, k > Started', k <= emitted'
        PROVE  \E j \in 1..Len(stream') : IsHead(j)' /\ Message(j)' = k
    <3>1. k > Started /\ k <= emitted
      BY <1>1, <1>7, <2>3
    <3>2. PICK j \in 1..Len(stream) : IsHead(j) /\ Message(j) = k
      BY <1>3, <3>1 DEF Counted
    <3>3. j # 1
      BY <3>2
    <3>4. j \in 2..Len(stream)
      BY <1>6, <3>3
    <3> QED BY <1>5, <3>2, <3>4
  <2>4. ASSUME NEW i \in 1..Len(stream'), NEW j \in 1..Len(stream'),
               IsHead(i)', IsHead(j)', i < j, Message(i)' > 0, Message(j)' > 0
        PROVE  Message(i)' < Message(j)'
    <3>1. i + 1 \in 1..Len(stream) /\ j + 1 \in 1..Len(stream) /\ i \in Int /\ j \in Int
      BY <1>2, <1>6
    <3>2. i + 1 < j + 1
      BY <2>4, <3>1
    <3>3. IsHead(i + 1) /\ IsHead(j + 1) /\ Message(i + 1) > 0 /\ Message(j + 1) > 0
      BY <1>4, <2>4
    <3>4. Message(i + 1) < Message(j + 1)
      BY <1>3, <3>1, <3>2, <3>3 DEF Counted
    <3> QED BY <1>4, <3>4
  <2> QED BY <2>1, <2>2, <2>3, <2>4 DEF Counted
<1>9. EventsInOrder'
  <2>1. (\A i \in 1..Len(Told) : Told[i] = i) /\ (partial > 0 => partial = Len(Told) + 1)
    BY <1>0, <1>3 DEF EventsInOrder, Told, Counted
  <2>2. \A i \in 1..Len(Told') : Told'[i] = i
    BY <1>6, <2>1
  <2> QED BY <2>2 DEF EventsInOrder, Told
<1>10. WireType' /\ GoesOn'
  BY <1>0, <1>1, <1>2 DEF WireType, GoesOn
<1> QED BY <1>2, <1>8, <1>9, <1>10 DEF WireInv

LEMMA ReadingCounts ==
    ASSUME WireInv, Receive
    PROVE  WireInv'
<1> USE DEF Nothing
<1>0. /\ MonReads /\ WireType /\ ~password /\ ~password' /\ stream # <<>>
      /\ mon \in {"asking", "reading"} /\ (mon = "reading" => kept = <<>>)
      /\ stream \in Seq(Int \X {"head", "rest"}) /\ given \in Seq(Int) /\ kept \in Seq(Int)
  BY DEF WireInv, Receive, Receiving, MonReads, Unused, disk, WireType
<1>1. CASE IsHead(1)
  <2>1. partial' = Message(1) /\ UNCHANGED <<mon, kept, given>>
    BY <1>0, <1>1 DEF Receive, IsHead, Message
  <2> QED BY <1>0, <1>1, <2>1, HeadCounts
<1>2. CASE ~IsHead(1) /\ partial # Nothing
  <2>1. partial' = Nothing /\ (ReceiveInCommand(Message(1)) \/ ReceiveInEvents(Message(1)))
    BY <1>0, <1>2 DEF Receive, IsHead, Message
  <2>2. Message(1) = partial /\ partial \in Int
    BY <1>0, <1>2 DEF WireInv, GoesOn, WireType
  <2>3. CASE ReceiveInCommand(partial)
    <3>1. /\ given' = given /\ kept' = IF partial > 0 THEN Append(kept, partial) ELSE kept
          /\ mon' \in {"asking", "reading", "closing"}
      BY <2>2, <2>3 DEF ReceiveInCommand, Ok, Rejected
    <3>2. kept' \in Seq(Int) /\ given' \in Seq(Int)
      BY <1>0, <2>2, <3>1
    <3>3. Told' = IF partial > 0 THEN Append(Told, partial) ELSE Told
      <4>1. CASE partial > 0
        <5>1. Append(kept, partial) = kept \o <<partial>> /\ <<partial>> \in Seq(Int)
          BY <1>0, <2>2, AppendIsConcat
        <5>2. given \o (kept \o <<partial>>) = (given \o kept) \o <<partial>>
          BY <1>0, <5>1, ConcatAssociative
        <5>3. given \o kept \in Seq(Int)
          BY <1>0, ConcatProperties
        <5>4. Append(given \o kept, partial) = (given \o kept) \o <<partial>>
          BY <2>2, <5>3, AppendIsConcat
        <5> QED BY <3>1, <4>1, <5>1, <5>2, <5>4 DEF Told
      <4>2. CASE ~(partial > 0)
        BY <3>1, <4>2 DEF Told
      <4> QED BY <4>1, <4>2
    <3> QED BY <1>0, <1>2, <2>1, <3>1, <3>2, <3>3, RestCounts
  <2>4. CASE ReceiveInEvents(partial)
    <3>1. /\ kept' = kept /\ given' = IF partial > 0 THEN Append(given, partial) ELSE given
          /\ mon' = "reading" /\ kept = <<>>
      BY <1>0, <2>4 DEF ReceiveInEvents
    <3>2. kept' \in Seq(Int) /\ given' \in Seq(Int)
      BY <1>0, <2>2, <3>1
    <3>3. Told' = given' /\ Told = given
      BY <1>0, <3>1, <3>2 DEF Told
    <3> QED BY <1>0, <1>2, <2>1, <3>1, <3>2, <3>3, RestCounts
  <2> QED BY <2>1, <2>2, <2>3, <2>4
<1>3. CASE ~IsHead(1) /\ partial = Nothing
  <2>1. /\ mon' = "closing" /\ UNCHANGED <<partial, kept, given, half, emitted>>
        /\ stream' = Tail(stream)
    BY <1>0, <1>3 DEF Receive, IsHead
  <2>2. stream' \in Seq(Int \X {"head", "rest"}) /\ Paired'
    BY <1>0, <2>1, TailPaired DEF WireInv
  <2>3. WireType' /\ EventsInOrder'
    BY <2>1, <2>2 DEF WireInv, WireType, EventsInOrder
  <2> QED BY <1>0, <2>1, <2>2, <2>3 DEF WireInv, MonReads
<1> QED BY <1>1, <1>2, <1>3

-----------------------------------------------------------------------------
(* The steps *)

LEMMA WireStep == WireInv /\ [MonitorNext]_monVars => WireInv'
<1> SUFFICES ASSUME WireInv, [MonitorNext]_monVars PROVE WireInv'
  OBVIOUS
<1> USE DEF disk, child, wire, wireState
<1>1. CASE StartMonitor
  BY <1>1, QuietWire DEF StartMonitor, MonReads
<1>2. CASE WriteConfig
  BY <1>2, QuietWire DEF WriteConfig, MonReads
<1>3. CASE Spawn
  BY <1>3, QuietWire DEF Spawn, MonReads, WireInv
<1>4. CASE Dial
  <2>1. CASE mon' = "closing" /\ UNCHANGED <<disk, link, wire>>
    BY <2>1, QuietWire DEF MonReads
  <2>2. CASE mon' = "asking" /\ password' = FALSE /\ UNCHANGED wire
    <3>1. Unused /\ WireType
      BY <1>4 DEF Dial, WireInv
    <3>2. /\ stream' = <<>> /\ half' = 0 /\ partial' = 0 /\ emitted' = 0
          /\ given' = <<>> /\ kept' = <<>>
      BY <2>2, <3>1 DEF Unused, Nothing
    <3>3. WireType' /\ Paired' /\ EventsInOrder' /\ GoesOn'
      BY <3>2 DEF WireType, Paired, EventsInOrder, GoesOn, Nothing
    <3>4. Counted'
      <4>1. Len(Told)' = 0 /\ Started' = 0
        BY <3>2 DEF Told, Started
      <4>2. Len(stream') = 0
        BY <3>2
      <4> QED BY <3>2, <4>1, <4>2 DEF Counted
    <3> QED BY <2>2, <3>3, <3>4 DEF WireInv
  <2> QED BY <1>4, <2>1, <2>2 DEF Dial
<1>5. CASE Receive
  BY <1>5, ReadingCounts
<1>6. CASE YieldKept
  <2>1. /\ kept # <<>> /\ given' = Append(given, Head(kept)) /\ kept' = Tail(kept)
        /\ mon = "reading" /\ mon' = "reading"
        /\ UNCHANGED <<password, link, stream, half, partial, emitted>>
    BY <1>6 DEF YieldKept
  <2>2. given \in Seq(Int) /\ kept \in Seq(Int) /\ ~password
    BY <2>1, <1>6 DEF WireInv, WireType, Unused
  <2>3. given' \in Seq(Int) /\ kept' \in Seq(Int) /\ Told' = Told
    BY <2>1, <2>2 DEF Told
  <2>4. WireType' /\ EventsInOrder'
    BY <2>1, <2>3 DEF WireInv, WireType, EventsInOrder, Told
  <2>5. Paired' /\ (GoesOn => GoesOn') /\ (Lost' => Lost) /\ (Lost => Lost')
    BY <2>1 DEF WireInv, Paired, GoesOn, Lost, IsHead, Message
  <2>6. Counted => Counted'
    BY <2>1, <2>3 DEF Counted, Started, IsHead, Message
  <2> QED BY <2>1, <2>2, <2>4, <2>5, <2>6 DEF WireInv, MonReads
<1>7. CASE RecvTimesOut \/ ControlClosed
  <2>1. /\ stream = <<>> /\ partial' = Nothing /\ MonReads /\ (mon' = mon \/ mon' = "closing")
        /\ UNCHANGED <<password, link, stream, half, emitted, given, kept>>
    BY <1>7 DEF RecvTimesOut, ControlClosed, Receiving, MonReads
  <2>2. CASE partial = Nothing
    BY <2>1, <2>2, QuietWire DEF MonReads
  <2>3. CASE partial # Nothing
    <3>1. half = partial /\ ~password
      BY <2>1, <2>3 DEF WireInv, GoesOn, Unused
    <3>2. Lost' /\ GoesOn'
      BY <2>1, <2>3, <3>1 DEF Lost, GoesOn
    <3>3. WireType' /\ EventsInOrder' /\ Paired'
      BY <2>1 DEF WireInv, WireType, EventsInOrder, Paired, IsHead, Message, Nothing
    <3> QED BY <2>1, <3>1, <3>2, <3>3 DEF WireInv, MonReads
  <2> QED BY <2>2, <2>3
<1>8. CASE StopMonitor
  BY <1>8, QuietWire DEF StopMonitor, MonReads
<1>9. CASE Erased
  <2>1. /\ stream' = <<>> /\ half' = 0 /\ partial' = 0 /\ ~password' /\ mon' = "over"
        /\ UNCHANGED <<emitted, kept, given>>
    BY <1>9 DEF Erased, Unheard, Nothing
  <2>2. WireType' /\ EventsInOrder' /\ Paired'
    BY <2>1 DEF WireInv, WireType, EventsInOrder, Paired
  <2> QED BY <2>1, <2>2 DEF WireInv, MonReads
<1>10. CASE CloseMonitor /\ ~Erased
  BY <1>10, QuietWire DEF CloseMonitor, MonReads
<1>11. CASE ProcessReaped
  BY <1>9, <1>11 DEF ProcessReaped
<1>12. CASE WaitTimesOut
  BY <1>12, QuietWire DEF WaitTimesOut, MonReads
<1>13. CASE CloseInterrupted
  <2>1. mon' = "over" /\ password' = password /\ link' \in {link, FALSE}
    BY <1>13 DEF CloseInterrupted, disk
  <2>2. CASE UNCHANGED wire
    <3>1. UNCHANGED wireState
      BY <2>2 DEF wire, wireState
    <3>2. ~MonReads' /\ mon' \notin {"spawning", "dialling"}
      BY <2>1 DEF MonReads
    <3>3. link' => link
      <4>1. link' = link \/ link' = FALSE
        BY <2>1
      <4> QED BY <4>1, Zenon
    <3> QED BY <2>1, <3>1, <3>2, <3>3, QuietWire
  <2>3. CASE Unheard /\ ~link'
    <3>1. stream' = <<>> /\ half' = 0 /\ partial' = 0 /\ UNCHANGED <<emitted, kept, given>>
      BY <2>3 DEF Unheard, Nothing
    <3>2. WireType' /\ EventsInOrder' /\ Paired'
      BY <3>1 DEF WireInv, WireType, EventsInOrder, Paired
    <3>3. password' => Unused'
      BY <2>1, <2>3, <3>1 DEF WireInv, Unused, Nothing
    <3> QED BY <2>1, <3>2, <3>3 DEF WireInv, MonReads
  <2> QED BY <1>13, <2>2, <2>3 DEF CloseInterrupted
<1>14. CASE Dropped
  BY <1>14, QuietWire DEF Dropped, MonReads
<1>15. CASE BaresipExits
  BY <1>15, QuietWire DEF BaresipExits, MonReads, WireInv
<1>16. CASE BaresipSends
  BY <1>16, SendingCounts
<1>17. CASE UNCHANGED monVars
  BY <1>17, QuietWire DEF monVars, MonReads, WireInv
<1> QED BY <1>1, <1>2, <1>3, <1>4, <1>5, <1>6, <1>7, <1>8, <1>9, <1>10, <1>11, <1>12, <1>13,
           <1>14, <1>15, <1>16, <1>17 DEF MonitorNext, StartStep, ReadStep, CloseStep

LEMMA WireInvHolds == MonitorSpec => []WireInv
<1>1. MonitorInit => WireInv
  <2> SUFFICES ASSUME MonitorInit PROVE WireInv
    OBVIOUS
  <2>1. /\ stream = <<>> /\ half = 0 /\ partial = 0 /\ emitted = 0 /\ given = <<>> /\ kept = <<>>
        /\ ~link /\ mon = "idle"
    BY DEF MonitorInit, Nothing
  <2>2. WireType /\ Paired /\ EventsInOrder /\ Unused
    BY <2>1 DEF WireType, Paired, EventsInOrder, Unused, Nothing
  <2> QED BY <2>1, <2>2 DEF WireInv, MonReads
<1> QED BY <1>1, WireStep, PTL DEF MonitorSpec

\* However the messages reach the reader in pieces, between commands and around
\* timeouts, what events() yields is what Baresip emitted, from the first on.
THEOREM EventsComeInOrder == MonitorSpec => []EventsInOrder
<1>1. WireInv => EventsInOrder
  BY DEF WireInv
<1> QED BY <1>1, WireInvHolds, PTL

-----------------------------------------------------------------------------
(***************************************************************************)
(* LogTail.  That nothing is printed twice is not inductive: it holds      *)
(* because every line beyond the number that has been seen of a file is    *)
(* younger than all that has been printed of it, also after a rotation     *)
(* (NewIsYounger).                                                         *)
(***************************************************************************)
Increasing(s) == \A i, j \in DOMAIN s : i < j => s[i] < s[j]

NewIsYounger ==
    \A n \in Files : \A i \in DOMAIN printed[n], j \in DOMAIN log[n] :
        j > seen[n] => printed[n][i] < log[n][j]

\* The state of one file.
FileFits(n) ==
    /\ log[n] \in Seq(Int) /\ printed[n] \in Seq(Int) /\ seen[n] \in Int
    /\ \A i \in DOMAIN log[n] : log[n][i] <= written
    /\ \A i \in DOMAIN printed[n] : printed[n][i] <= written
    /\ seen[n] = Unseen => printed[n] = <<>>
    /\ seen[n] >= Unseen

TailInv ==
    /\ written \in Nat /\ history \in Nat
    /\ log \in [Files -> Seq(Int)] /\ printed \in [Files -> Seq(Int)] /\ seen \in [Files -> Int]
    /\ \A n \in Files : FileFits(n) /\ Increasing(log[n])
    /\ ShownOnceInOrder /\ NewIsYounger

-----------------------------------------------------------------------------
(* Sequences of line numbers *)

\* A list that goes on with younger lines in their order is in order.
LEMMA OrderedConcat ==
    ASSUME NEW s \in Seq(Int), NEW t \in Seq(Int), Increasing(s), Increasing(t),
           \A i \in DOMAIN s, j \in DOMAIN t : s[i] < t[j]
    PROVE  s \o t \in Seq(Int) /\ Increasing(s \o t)
<1>1. s \o t \in Seq(Int) /\ Len(s \o t) = Len(s) + Len(t)
  OBVIOUS
<1>2. \A i \in 1..Len(s) : (s \o t)[i] = s[i]
  OBVIOUS
<1>3. \A i \in 1..Len(t) : (s \o t)[Len(s) + i] = t[i]
  OBVIOUS
<1>4. ASSUME NEW i \in 1..Len(s \o t), NEW j \in 1..Len(s \o t), i < j
      PROVE  (s \o t)[i] < (s \o t)[j]
  <2>1. CASE j <= Len(s)
    BY <1>1, <1>2, <1>4, <2>1 DEF Increasing
  <2>2. CASE i <= Len(s) /\ j > Len(s)
    <3>1. j - Len(s) \in 1..Len(t) /\ j = Len(s) + (j - Len(s))
      BY <1>1, <2>2
    <3>2. (s \o t)[j] = t[j - Len(s)]
      BY <1>3, <3>1
    <3> QED BY <1>1, <1>2, <2>2, <3>1, <3>2
  <2>3. CASE i > Len(s)
    <3>1. /\ i - Len(s) \in 1..Len(t) /\ i = Len(s) + (i - Len(s))
          /\ j - Len(s) \in 1..Len(t) /\ j = Len(s) + (j - Len(s))
      BY <1>1, <1>4, <2>3
    <3>2. (s \o t)[i] = t[i - Len(s)] /\ (s \o t)[j] = t[j - Len(s)]
      BY <1>3, <3>1
    <3> QED BY <1>4, <3>1, <3>2 DEF Increasing
  <2> QED BY <1>1, <2>1, <2>2, <2>3
<1> QED BY <1>1, <1>4 DEF Increasing

\* A bound of two lists is a bound of their concatenation.
LEMMA ConcatBound ==
    ASSUME NEW s \in Seq(Int), NEW t \in Seq(Int), NEW b \in Int,
           \A i \in DOMAIN s : s[i] <= b, \A i \in DOMAIN t : t[i] <= b
    PROVE  \A i \in DOMAIN (s \o t) : (s \o t)[i] <= b
<1> SUFFICES ASSUME NEW i \in DOMAIN (s \o t) PROVE (s \o t)[i] <= b
  OBVIOUS
<1>1. Len(s \o t) = Len(s) + Len(t) /\ i \in 1..Len(s \o t)
  OBVIOUS
<1>2. CASE i <= Len(s)
  BY <1>1, <1>2
<1>3. CASE i > Len(s)
  <2>1. i - Len(s) \in 1..Len(t) /\ (s \o t)[i] = t[i - Len(s)]
    BY <1>1, <1>3
  <2> QED BY <2>1
<1> QED BY <1>1, <1>2, <1>3

\* The end of a list from the k-th line on.
LEMMA RestOfList ==
    ASSUME NEW s \in Seq(Int), NEW k \in Nat
    PROVE  LET t == SubSeq(s, k + 1, Len(s))
           IN /\ t \in Seq(Int) /\ Len(t) = IF k < Len(s) THEN Len(s) - k ELSE 0
              /\ \A i \in DOMAIN t : k + i \in DOMAIN s /\ t[i] = s[k + i]
              /\ Increasing(s) => Increasing(t)
<1> DEFINE t == SubSeq(s, k + 1, Len(s))
<1>1. t \in Seq(Int) /\ Len(t) = IF k + 1 <= Len(s) THEN Len(s) - k ELSE 0
  OBVIOUS
<1>2. ASSUME NEW i \in 1..Len(t) PROVE k + i \in 1..Len(s) /\ t[i] = s[k + i]
  <2>1. k + i \in 1..Len(s) /\ (k + 1) + i - 1 = k + i
    BY <1>1
  <2>2. t[i] = s[(k + 1) + i - 1]
    BY <1>1, <2>1
  <2> QED BY <2>1, <2>2
<1>3. \A i \in DOMAIN t : k + i \in DOMAIN s /\ t[i] = s[k + i]
  BY <1>1, <1>2
<1>4. ASSUME Increasing(s), NEW i \in DOMAIN t, NEW j \in DOMAIN t, i < j PROVE t[i] < t[j]
  <2>1. k + i < k + j
    BY <1>1, <1>4
  <2> QED BY <1>3, <1>4, <2>1 DEF Increasing
<1> QED BY <1>1, <1>3, <1>4 DEF Increasing

-----------------------------------------------------------------------------
(* The steps *)

\* A file that the download did not hold keeps what was printed of it and its count.
LEMMA PollPrintsYounger ==
    ASSUME TailInv, NEW unreadable \in SUBSET present, Poll(unreadable)
    PROVE  TailInv'
<1> DEFINE loaded == TextFiles(unreadable)
<1> USE DEF TailInv
<1>1. /\ UNCHANGED <<history, log, present, written>>
      /\ printed' = [n \in Files |-> printed[n] \o IF n \in loaded THEN NewLines(n) ELSE <<>>]
      /\ seen' = [n \in Files |-> IF n \in loaded THEN Len(log[n]) ELSE seen[n]]
  BY DEF Poll, SeenAfter
<1>2. ASSUME NEW n \in Files
      PROVE  /\ FileFits(n)' /\ Increasing(printed'[n])
             /\ \A i \in DOMAIN printed'[n], j \in DOMAIN log[n] :
                  j > seen'[n] => printed'[n][i] < log[n][j]
  <2>1. CASE n \notin loaded
    <3>1. printed'[n] = printed[n] /\ seen'[n] = seen[n]
      BY <1>1, <2>1
    <3> QED BY <1>1, <3>1 DEF FileFits, NewIsYounger, ShownOnceInOrder, Increasing
  <2>2. CASE n \in loaded
    <3>1. FirstNew(n) \in Nat /\ (seen[n] # Unseen => FirstNew(n) = seen[n])
      BY DEF FirstNew, LinesWanted, FileFits, Unseen
    <3>2. /\ NewLines(n) \in Seq(Int) /\ Increasing(NewLines(n))
          /\ \A i \in DOMAIN NewLines(n) :
                FirstNew(n) + i \in DOMAIN log[n] /\ NewLines(n)[i] = log[n][FirstNew(n) + i]
      BY <3>1, RestOfList DEF NewLines, FileFits
    <3>3. printed'[n] = printed[n] \o NewLines(n) /\ seen'[n] = Len(log[n])
      BY <1>1, <2>2
    <3>4. \A i \in DOMAIN printed[n], j \in DOMAIN NewLines(n) : printed[n][i] < NewLines(n)[j]
      <4> SUFFICES ASSUME NEW i \in DOMAIN printed[n], NEW j \in DOMAIN NewLines(n)
                   PROVE  printed[n][i] < NewLines(n)[j]
        OBVIOUS
      <4>1. seen[n] # Unseen
        BY DEF FileFits
      <4>2. FirstNew(n) + j > seen[n]
        BY <3>1, <3>2, <4>1
      <4> QED BY <3>2, <4>2 DEF NewIsYounger
    <3>5. printed'[n] \in Seq(Int) /\ Increasing(printed'[n])
      <4>1. Increasing(printed[n]) /\ printed[n] \in Seq(Int)
        BY DEF ShownOnceInOrder, Increasing, FileFits
      <4> QED BY <3>2, <3>3, <3>4, <4>1, OrderedConcat
    <3>6. \A i \in DOMAIN printed'[n] : printed'[n][i] <= written
      <4>1. \A i \in DOMAIN NewLines(n) : NewLines(n)[i] <= written
        BY <3>2 DEF FileFits
      <4>2. printed[n] \in Seq(Int) /\ \A i \in DOMAIN printed[n] : printed[n][i] <= written
        BY DEF FileFits
      <4> QED BY <3>2, <3>3, <4>1, <4>2, ConcatBound
    <3>7. FileFits(n)'
      BY <1>1, <3>3, <3>5, <3>6 DEF FileFits, Unseen
    <3>8. \A j \in DOMAIN log[n] : ~(j > seen'[n])
      BY <3>3 DEF FileFits
    <3> QED BY <3>5, <3>7, <3>8
  <2> QED BY <2>1, <2>2
<1>3. printed' \in [Files -> Seq(Int)] /\ seen' \in [Files -> Int]
  BY <1>1, <1>2 DEF FileFits
<1>4. ShownOnceInOrder' /\ NewIsYounger'
  BY <1>1, <1>2 DEF ShownOnceInOrder, NewIsYounger, Increasing
<1> QED BY <1>1, <1>2, <1>3, <1>4

\* The device writes a line that is younger than all.
LEMMA WritingIsYounger ==
    ASSUME TailInv, NEW n \in Files, WriteLine(n)
    PROVE  TailInv'
<1> USE DEF TailInv
<1>1. /\ written' = written + 1 /\ UNCHANGED <<history, printed, seen>>
      /\ log' = [log EXCEPT ![n] = Append(@, written + 1)]
  BY DEF WriteLine, reader
<1>2. log[n] \in Seq(Int) /\ log'[n] = Append(log[n], written + 1)
  BY <1>1
<1>3. /\ log'[n] \in Seq(Int) /\ Len(log'[n]) = Len(log[n]) + 1
      /\ log'[n][Len(log[n]) + 1] = written + 1
      /\ \A i \in DOMAIN log[n] : log'[n][i] = log[n][i]
      /\ \A i \in DOMAIN log'[n] : i \in DOMAIN log[n] \/ i = Len(log[n]) + 1
      /\ \A i \in DOMAIN log[n] : i < Len(log[n]) + 1
  BY <1>2
<1>4. \A m \in Files \ {n} : log'[m] = log[m]
  BY <1>1
<1>5. Increasing(log'[n])
  <2> SUFFICES ASSUME NEW i \in DOMAIN log'[n], NEW j \in DOMAIN log'[n], i < j
               PROVE  log'[n][i] < log'[n][j]
    BY DEF Increasing
  <2>1. i \in DOMAIN log[n]
    BY <1>2, <1>3
  <2>2. CASE j \in DOMAIN log[n]
    BY <1>3, <2>1, <2>2 DEF Increasing
  <2>3. CASE j = Len(log[n]) + 1
    <3>1. log[n][i] <= written /\ log[n][i] \in Int
      BY <1>2, <2>1 DEF FileFits
    <3> QED BY <1>3, <2>1, <2>3, <3>1
  <2> QED BY <1>3, <2>2, <2>3
<1>6. FileFits(n)'
  BY <1>1, <1>3 DEF FileFits
<1>7. \A m \in Files \ {n} : FileFits(m)'
  BY <1>1, <1>4 DEF FileFits
<1>8. NewIsYounger'
  BY <1>1, <1>3, <1>4 DEF NewIsYounger, FileFits
<1>9. ShownOnceInOrder' /\ log' \in [Files -> Seq(Int)]
  BY <1>1, <1>2 DEF ShownOnceInOrder
<1> QED BY <1>1, <1>4, <1>5, <1>6, <1>7, <1>8, <1>9

LEMMA RotationForgets ==
    ASSUME TailInv, NEW n \in Files, Rotate(n)
    PROVE  TailInv'
<1> USE DEF TailInv
<1>1. UNCHANGED <<history, written, printed, seen>> /\ log' = [log EXCEPT ![n] = <<>>]
  BY DEF Rotate, reader
<1>2. log'[n] = <<>> /\ \A m \in Files \ {n} : log'[m] = log[m]
  BY <1>1
<1>3. \A m \in Files : FileFits(m)' /\ Increasing(log'[m])
  BY <1>1, <1>2 DEF FileFits, Increasing
<1>4. NewIsYounger' /\ ShownOnceInOrder' /\ log' \in [Files -> Seq(Int)]
  BY <1>1, <1>2 DEF NewIsYounger, ShownOnceInOrder
<1> QED BY <1>1, <1>3, <1>4

LEMMA InitialTail == TailInit => TailInv
<1> SUFFICES ASSUME TailInit PROVE TailInv
  OBVIOUS
<1>1. /\ written = 0 /\ history \in Nat
      /\ \A n \in Files : log[n] = <<>> /\ printed[n] = <<>> /\ seen[n] = -1
      /\ log \in [Files -> Seq(Int)] /\ printed \in [Files -> Seq(Int)]
      /\ seen \in [Files -> Int]
  BY TailBounds DEF TailInit, Unseen
<1> QED BY <1>1 DEF TailInv, FileFits, Increasing, ShownOnceInOrder, NewIsYounger, Unseen

LEMMA TailStep == TailInv /\ [TailNext]_tailVars => TailInv'
<1> SUFFICES ASSUME TailInv, [TailNext]_tailVars PROVE TailInv'
  OBVIOUS
<1>1. ASSUME NEW n \in Files, WriteLine(n) PROVE TailInv'
  BY <1>1, WritingIsYounger
<1>2. ASSUME NEW n \in Files, Rotate(n) PROVE TailInv'
  BY <1>2, RotationForgets
<1>3. ASSUME NEW unreadable \in SUBSET present, Poll(unreadable) PROVE TailInv'
  BY <1>3, PollPrintsYounger
<1>4. ASSUME UNCHANGED <<history, log, written, seen, printed>> PROVE TailInv'
  BY <1>4 DEF TailInv, FileFits, Increasing, ShownOnceInOrder, NewIsYounger
<1>5. ASSUME NEW n \in Files, CreateFile(n) PROVE TailInv'
  BY <1>4, <1>5 DEF CreateFile, reader
<1>6. CASE DownloadFails
  BY <1>4, <1>6 DEF DownloadFails, device, reader
<1>7. CASE UNCHANGED tailVars
  BY <1>4, <1>7 DEF tailVars
<1> QED BY <1>1, <1>2, <1>3, <1>5, <1>6, <1>7 DEF TailNext

\* The lines of a file are printed in the order in which the device wrote them, and none
\* is printed twice, whatever members a download lacked and whatever was rotated.
THEOREM PrintedOnceInOrder == TailSpec => []ShownOnceInOrder
<1>1. TailInv => ShownOnceInOrder
  BY DEF TailInv
<1> QED BY <1>1, InitialTail, TailStep, PTL DEF TailSpec

-----------------------------------------------------------------------------
(***************************************************************************)
(* Nothing is missed.  What a download held of a file is either accounted  *)
(* for already, or beyond the number of lines that was remembered, which   *)
(* is how many lines the file had when it was last read (TailCounted).     *)
(***************************************************************************)

TailCounted == read = seen /\ \A n \in Files \ rotated : seen[n] <= Len(log[n])

LEMMA PollMissesNothing ==
    ASSUME TailInv, TailCounted, NothingMissed, NEW unreadable \in SUBSET present, Poll(unreadable)
    PROVE  TailCounted' /\ NothingMissed'
<1> DEFINE loaded == TextFiles(unreadable)
<1> USE DEF TailInv, TailCounted
<1>1. /\ UNCHANGED log
      /\ printed' = [n \in Files |-> printed[n] \o IF n \in loaded THEN NewLines(n) ELSE <<>>]
      /\ seen' = [n \in Files |-> IF n \in loaded THEN Len(log[n]) ELSE seen[n]]
      /\ read' = [n \in Files |-> IF n \in loaded THEN Len(log[n]) ELSE read[n]]
      /\ skippable' = skippable \cup UNION {Skippable(n) : n \in loaded}
      /\ rotated' = rotated \ loaded
  BY DEF Poll, SeenAfter
<1>2. TailCounted'
  BY <1>1 DEF FileFits
<1>3. ASSUME NEW n \in Files, n \notin rotated', NEW i \in DOMAIN log[n], i <= read'[n]
      PROVE  \/ log[n][i] \in skippable'
             \/ \E j \in DOMAIN printed'[n] : printed'[n][j] = log[n][i]
  <2>1. CASE n \notin loaded
    <3>1. n \notin rotated /\ i <= read[n] /\ printed'[n] = printed[n]
      BY <1>1, <1>3, <2>1 DEF FileFits
    <3>2. log[n][i] \in skippable \/ \E j \in DOMAIN printed[n] : printed[n][j] = log[n][i]
      BY <3>1 DEF NothingMissed
    <3>3. skippable \subseteq skippable'
      BY <1>1
    <3> QED BY <3>1, <3>2, <3>3
  <2>2. CASE n \in loaded
    <3>1. /\ log[n] \in Seq(Int) /\ printed[n] \in Seq(Int) /\ i \in 1..Len(log[n])
          /\ printed'[n] = printed[n] \o NewLines(n) /\ read[n] = seen[n] /\ seen[n] \in Int
      BY <1>1, <2>2 DEF FileFits
    <3>2. FirstNew(n) \in Nat /\ LinesWanted \in Nat
      BY DEF FirstNew, LinesWanted, FileFits, Unseen
    <3>3. CASE i > FirstNew(n)
      <4>1. /\ NewLines(n) \in Seq(Int) /\ Len(NewLines(n)) = Len(log[n]) - FirstNew(n)
            /\ \A j \in DOMAIN NewLines(n) : NewLines(n)[j] = log[n][FirstNew(n) + j]
        <5>1. log[n] \in Seq(Int) /\ FirstNew(n) \in Nat /\ FirstNew(n) < Len(log[n])
          BY <3>1, <3>2, <3>3
        <5> HIDE DEF TailInv, TailCounted
        <5> QED BY <5>1, RestOfList DEF NewLines
      <4>2. i - FirstNew(n) \in 1..Len(NewLines(n)) /\ FirstNew(n) + (i - FirstNew(n)) = i
        BY <3>1, <3>2, <3>3, <4>1
      <4>3. NewLines(n)[i - FirstNew(n)] = log[n][i]
        BY <4>1, <4>2
      <4>4. /\ Len(printed[n]) + (i - FirstNew(n)) \in DOMAIN printed'[n]
            /\ printed'[n][Len(printed[n]) + (i - FirstNew(n))] = NewLines(n)[i - FirstNew(n)]
        BY <3>1, <4>1, <4>2
      <4> QED BY <4>3, <4>4
    <3>4. CASE i <= FirstNew(n) /\ seen[n] = Unseen
      <4>1. i + LinesWanted <= Len(log[n])
        BY <3>1, <3>2, <3>4 DEF FirstNew
      <4>2. log[n][i] \in Skippable(n)
        BY <3>1, <3>4, <4>1 DEF Skippable
      <4> QED BY <1>1, <2>2, <4>2
    <3>5. CASE i <= FirstNew(n) /\ seen[n] # Unseen
      <4>1. i <= read[n]
        BY <3>1, <3>5 DEF FirstNew
      <4>2. CASE n \in rotated
        <5>1. log[n][i] \in Skippable(n)
          BY <3>1, <3>5, <4>1, <4>2 DEF Skippable
        <5> QED BY <1>1, <2>2, <5>1
      <4>3. CASE n \notin rotated
        <5>1. \/ log[n][i] \in skippable
              \/ \E j \in DOMAIN printed[n] : printed[n][j] = log[n][i]
          BY <4>1, <4>3 DEF NothingMissed
        <5>2. NewLines(n) \in Seq(Int)
          BY <3>1, <3>2 DEF NewLines
        <5>3. \A j \in DOMAIN printed[n] : j \in DOMAIN printed'[n] /\ printed'[n][j] = printed[n][j]
          BY <3>1, <5>2
        <5> QED BY <1>1, <5>1, <5>3
      <4> QED BY <4>2, <4>3
    <3> QED BY <3>1, <3>2, <3>3, <3>4, <3>5
  <2> QED BY <2>1, <2>2
<1>4. NothingMissed'
  <2> SUFFICES ASSUME NEW n \in Files \ rotated', NEW i \in DOMAIN log[n], i <= read'[n]
               PROVE  \/ log[n][i] \in skippable'
                      \/ \E j \in DOMAIN printed'[n] : printed'[n][j] = log[n][i]
    <3>1. log' = log
      BY <1>1
    <3> HIDE DEF TailInv, TailCounted
    <3> QED BY <3>1 DEF NothingMissed
  <2> QED BY <1>3
<1> QED BY <1>2, <1>4

\* The device does not change what was printed of the lines it keeps.
LEMMA DeviceMissesNothing ==
    ASSUME TailInv, TailCounted, NothingMissed, NEW n \in Files, WriteLine(n) \/ Rotate(n)
    PROVE  TailCounted' /\ NothingMissed'
<1> USE DEF TailInv, TailCounted
<1>1. UNCHANGED <<seen, printed, read, skippable>> /\ rotated \subseteq rotated'
  BY DEF WriteLine, Rotate, reader
<1>2. ASSUME NEW m \in Files, m \notin rotated'
      PROVE  /\ seen[m] <= Len(log'[m])
             /\ \A i \in DOMAIN log'[m] : i <= read[m] => i \in DOMAIN log[m] /\ log'[m][i] = log[m][i]
  <2>1. /\ log[m] \in Seq(Int) /\ written \in Nat /\ seen[m] <= Len(log[m]) /\ seen[m] \in Int
        /\ read[m] = seen[m]
    BY <1>1, <1>2 DEF FileFits
  <2>2. log'[m] = log[m] \/ log'[m] = Append(log[m], written + 1)
    BY <1>2 DEF WriteLine, Rotate
  <2>3. CASE log'[m] = log[m]
    BY <2>1, <2>3
  <2>4. CASE log'[m] = Append(log[m], written + 1)
    <3>1. /\ Len(log'[m]) = Len(log[m]) + 1 /\ DOMAIN log'[m] = 1..(Len(log[m]) + 1)
          /\ \A i \in 1..Len(log[m]) : log'[m][i] = log[m][i]
      BY <2>1, <2>4
    <3>2. Len(log[m]) \in Nat /\ DOMAIN log[m] = 1..Len(log[m])
      BY <2>1
    <3>3. \A i \in DOMAIN log'[m] : i <= read[m] => i \in 1..Len(log[m])
      BY <2>1, <3>1, <3>2
    <3> QED BY <2>1, <3>1, <3>2, <3>3
  <2> QED BY <2>2, <2>3, <2>4
<1>3. TailCounted'
  BY <1>1, <1>2
<1>4. NothingMissed'
  BY <1>1, <1>2 DEF NothingMissed
<1> QED BY <1>3, <1>4

\* A line that a download held is printed, unless it was history when its file was first
\* read or a rotation wrote it over lines already seen.
THEOREM NoLineIsMissed == TailSpec => []NothingMissed
<1>1. TailInit => TailInv
  BY InitialTail
<1>2. TailInit => TailCounted /\ NothingMissed
  <2> SUFFICES ASSUME TailInit PROVE TailCounted /\ NothingMissed
    OBVIOUS
  <2>1. \A n \in Files : log[n] = <<>> /\ seen[n] = -1
    BY DEF TailInit, Unseen
  <2>2. read = seen
    BY DEF TailInit
  <2> QED BY <2>1, <2>2 DEF TailCounted, NothingMissed
<1>3. TailInv /\ TailCounted /\ NothingMissed /\ [TailNext]_tailVars => TailCounted' /\ NothingMissed'
  <2> SUFFICES ASSUME TailInv, TailCounted, NothingMissed, [TailNext]_tailVars
               PROVE  TailCounted' /\ NothingMissed'
    OBVIOUS
  <2>1. ASSUME NEW n \in Files, WriteLine(n) \/ Rotate(n) PROVE TailCounted' /\ NothingMissed'
    BY <2>1, DeviceMissesNothing
  <2>2. ASSUME NEW unreadable \in SUBSET present, Poll(unreadable)
        PROVE  TailCounted' /\ NothingMissed'
    BY <2>2, PollMissesNothing
  <2>3. ASSUME UNCHANGED <<log, seen, printed, rotated, read, skippable>>
        PROVE  TailCounted' /\ NothingMissed'
    BY <2>3 DEF TailCounted, NothingMissed
  <2>4. ASSUME NEW n \in Files, CreateFile(n) PROVE TailCounted' /\ NothingMissed'
    BY <2>3, <2>4 DEF CreateFile, reader
  <2>5. CASE DownloadFails
    BY <2>3, <2>5 DEF DownloadFails, device, reader
  <2>6. CASE UNCHANGED tailVars
    BY <2>3, <2>6 DEF tailVars
  <2> QED BY <2>1, <2>2, <2>3, <2>4, <2>5, <2>6 DEF TailNext
<1> QED BY <1>1, <1>2, <1>3, TailStep, PTL DEF TailSpec

-----------------------------------------------------------------------------
(***************************************************************************)
(* Types of the parts whose invariants above need less.                    *)
(***************************************************************************)

\* The variables of the monitor that are not of the wire.
MonitorShape ==
    /\ mon \in Working \cup {"idle", "reading", "over", "dropped"}
    /\ process \in {"none", "running", "exited"} /\ told \in {"none", "cut", "term", "kill"}
    /\ handle \in BOOLEAN /\ password \in BOOLEAN /\ link \in BOOLEAN
    /\ files \subseteq {"directory", "config", "accounts"}
    /\ starts \in Nat

LEMMA MonitorStepShape == MonitorShape /\ [MonitorNext]_monVars => MonitorShape'
<1> SUFFICES ASSUME MonitorShape, [MonitorNext]_monVars PROVE MonitorShape'
  OBVIOUS
<1> USE DEF MonitorShape, Working, child, disk
<1>1. CASE StartMonitor
  <2>1. /\ mon' \in {"closing", "over", "writing"} /\ files' \in {files, {"directory"}}
        /\ starts' = starts + 1 /\ UNCHANGED <<process, told, handle, password, link>>
    BY <1>1 DEF StartMonitor
  <2> QED BY <2>1
<1>2. CASE WriteConfig
  BY <1>2 DEF WriteConfig
<1>3. CASE Spawn
  BY <1>3 DEF Spawn
<1>4. CASE Dial
  BY <1>4 DEF Dial
<1>5. CASE Receive
  BY <1>5 DEF Receive, ReceiveInCommand, ReceiveInEvents
<1>6. CASE YieldKept
  BY <1>6 DEF YieldKept
<1>7. CASE RecvTimesOut
  BY <1>7 DEF RecvTimesOut
<1>8. CASE ControlClosed
  BY <1>8 DEF ControlClosed
<1>9. CASE StopMonitor
  BY <1>9 DEF StopMonitor
<1>10. CASE CloseMonitor
  BY <1>10 DEF CloseMonitor, Erased, Unheard
<1>11. CASE ProcessReaped
  BY <1>11 DEF ProcessReaped, Erased, Unheard
<1>12. CASE WaitTimesOut
  BY <1>12 DEF WaitTimesOut
<1>13. CASE CloseInterrupted
  BY <1>13 DEF CloseInterrupted, Unheard
<1>14. CASE Dropped
  BY <1>14 DEF Dropped
<1>15. CASE BaresipExits
  BY <1>15 DEF BaresipExits
<1>16. CASE BaresipSends
  BY <1>16 DEF BaresipSends
<1>17. CASE UNCHANGED monVars
  BY <1>17 DEF monVars
<1> QED BY <1>1, <1>2, <1>3, <1>4, <1>5, <1>6, <1>7, <1>8, <1>9, <1>10, <1>11, <1>12, <1>13,
           <1>14, <1>15, <1>16, <1>17 DEF MonitorNext, StartStep, ReadStep, CloseStep

LEMMA ListOfNumbers ==
    ASSUME NEW s \in Seq(Int), \A i \in 1..Len(s) : s[i] \in Nat
    PROVE  s \in Seq(Nat)
OBVIOUS

\* What is told and what is kept are the numbers of events, as they come in order.
LEMMA MonitorTypes == MonitorShape /\ WireInv => MonitorTypeOK
<1> SUFFICES ASSUME MonitorShape, WireInv PROVE MonitorTypeOK
  OBVIOUS
<1>1. given \in Seq(Int) /\ kept \in Seq(Int) /\ EventsInOrder
  BY DEF WireInv, WireType
<1>2. \A i \in 1..Len(given) : given[i] \in Nat
  BY <1>1 DEF EventsInOrder
<1>3. \A i \in 1..Len(kept) : kept[i] \in Nat
  <2> SUFFICES ASSUME NEW i \in 1..Len(kept) PROVE kept[i] \in Nat
    OBVIOUS
  <2>1. (given \o kept)[Len(given) + i] = kept[i] /\ Len(given) + i \in 1..Len(given \o kept)
    BY <1>1
  <2> QED BY <1>1, <2>1 DEF EventsInOrder
<1>4. given \in Seq(Nat) /\ kept \in Seq(Nat)
  BY <1>1, <1>2, <1>3, ListOfNumbers
<1> QED BY <1>4 DEF MonitorShape, MonitorTypeOK, WireInv, WireType

LEMMA MoreNumbers ==
    ASSUME NEW m \in Nat, NEW n \in Nat, m <= n, NEW s \in Seq(1..m)
    PROVE  s \in Seq(1..n)
OBVIOUS

LEMMA EndOfNumbers ==
    ASSUME NEW m \in Nat, NEW s \in Seq(1..m), NEW i \in Nat
    PROVE  SubSeq(s, i + 1, Len(s)) \in Seq(1..m)
OBVIOUS

LEMMA OneLineMore ==
    ASSUME NEW S, NEW s \in Seq(S), NEW e \in S
    PROVE  Append(s, e) \in Seq(S) /\ Len(Append(s, e)) = Len(s) + 1
OBVIOUS

LEMMA MoreLines ==
    ASSUME NEW S, NEW s \in Seq(S), NEW t \in Seq(S)
    PROVE  s \o t \in Seq(S) /\ s \o <<>> \in Seq(S)
OBVIOUS

TailShape ==
    /\ tail \in {"start", "following", "over"} /\ history \in History
    /\ present \subseteq Files /\ rotated \subseteq Files /\ written \in 0 .. MaxLines
    /\ log \in [Files -> Seq(1 .. written)] /\ printed \in [Files -> Seq(1 .. written)]
    /\ seen \in [Files -> Unseen .. written] /\ read \in [Files -> Unseen .. written]
    /\ \A n \in Files : Len(log[n]) <= written
    /\ skippable \subseteq 1 .. written

LEMMA TailStepShape == TailShape /\ [TailNext]_tailVars => TailShape'
<1> SUFFICES ASSUME TailShape, [TailNext]_tailVars PROVE TailShape'
  OBVIOUS
<1> USE TailBounds DEF TailShape
<1>1. ASSUME NEW n \in Files, WriteLine(n) PROVE TailShape'
  <2>1. /\ written < MaxLines /\ written' = written + 1
        /\ log' = [log EXCEPT ![n] = Append(@, written + 1)]
        /\ UNCHANGED <<tail, history, present, rotated, seen, printed, read, skippable>>
    BY <1>1 DEF WriteLine, reader
  <2>2. \A m \in Files : log[m] \in Seq(1 .. written') /\ printed[m] \in Seq(1 .. written')
    BY <2>1, MoreNumbers
  <2>3. \A m \in Files : log'[m] \in Seq(1 .. written') /\ Len(log'[m]) <= written'
    <3> SUFFICES ASSUME NEW m \in Files
                 PROVE  log'[m] \in Seq(1 .. written') /\ Len(log'[m]) <= written'
      OBVIOUS
    <3>1. CASE m # n
      <4>1. log'[m] = log[m]
        BY <2>1, <3>1
      <4> QED BY <2>1, <2>2, <4>1
    <3>2. CASE m = n
      <4>1. log'[m] = Append(log[n], written')
        BY <2>1, <3>2
      <4>2. written' \in 1 .. written' /\ log[n] \in Seq(1 .. written')
        BY <2>1, <2>2
      <4>3. /\ Append(log[n], written') \in Seq(1 .. written')
            /\ Len(Append(log[n], written')) = Len(log[n]) + 1
        BY <4>2, OneLineMore
      <4>4. Len(log[n]) <= written
        OBVIOUS
      <4>5. log'[m] \in Seq(1 .. written')
        BY <4>1, <4>3
      <4>6. Len(log'[m]) = Len(log[n]) + 1 /\ Len(log[n]) \in Nat
        BY <4>1, <4>2, <4>3
      <4> QED BY ONLY <2>1, <4>4, <4>5, <4>6, written \in Int
    <3> QED BY <3>1, <3>2
  <2>4. log' \in [Files -> Seq(1 .. written')] /\ printed' \in [Files -> Seq(1 .. written')]
    BY <2>1, <2>2, <2>3
  <2>5. seen' \in [Files -> Unseen .. written'] /\ read' \in [Files -> Unseen .. written']
    BY <2>1 DEF Unseen
  <2> QED BY <2>1, <2>3, <2>4, <2>5
<1>2. ASSUME NEW n \in Files, Rotate(n) PROVE TailShape'
  BY <1>2 DEF Rotate, reader
<1>3. ASSUME NEW unreadable \in SUBSET present, Poll(unreadable) PROVE TailShape'
  <2> DEFINE loaded == TextFiles(unreadable)
  <2>1. loaded \subseteq Files
    BY DEF TextFiles
  <2>2. /\ tail' = "following" /\ rotated' = rotated \ loaded
        /\ seen' = [n \in Files |-> IF n \in loaded THEN Len(log[n]) ELSE seen[n]]
        /\ read' = [n \in Files |-> IF n \in loaded THEN Len(log[n]) ELSE read[n]]
        /\ printed' = [n \in Files |-> printed[n] \o IF n \in loaded THEN NewLines(n) ELSE <<>>]
        /\ skippable' = skippable \cup UNION {Skippable(n) : n \in loaded}
        /\ UNCHANGED <<history, log, present, written>>
    BY <1>3 DEF Poll, SeenAfter
  <2> HIDE DEF loaded
  <2>3. \A n \in Files : FirstNew(n) \in Nat
    BY DEF FirstNew, LinesWanted, Unseen
  <2>4. \A n \in Files : NewLines(n) \in Seq(1 .. written)
    BY <2>3, EndOfNumbers DEF NewLines
  <2>5. printed' \in [Files -> Seq(1 .. written)]
    <3>1. ASSUME NEW n \in Files
          PROVE  (printed[n] \o IF n \in loaded THEN NewLines(n) ELSE <<>>) \in Seq(1 .. written)
      <4>1. printed[n] \in Seq(1 .. written) /\ NewLines(n) \in Seq(1 .. written)
        BY <2>4
      <4>2. CASE n \in loaded
        BY <4>1, <4>2, MoreLines
      <4>3. CASE n \notin loaded
        BY <4>1, <4>3, MoreLines
      <4> QED BY <4>2, <4>3
    <3> QED BY <2>2, <3>1
  <2>6. \A n \in Files : Skippable(n) \subseteq 1 .. written
    BY DEF Skippable
  <2>7. seen' \in [Files -> Unseen .. written] /\ read' \in [Files -> Unseen .. written]
    BY <2>2 DEF Unseen
  <2> QED BY <2>1, <2>2, <2>5, <2>6, <2>7
<1>4. ASSUME NEW n \in Files, CreateFile(n) PROVE TailShape'
  BY <1>4 DEF CreateFile, reader
<1>5. CASE DownloadFails
  BY <1>5 DEF DownloadFails, device, reader
<1>6. CASE UNCHANGED tailVars
  BY <1>6 DEF tailVars
<1> QED BY <1>1, <1>2, <1>3, <1>4, <1>5, <1>6 DEF TailNext

-----------------------------------------------------------------------------
(***************************************************************************)
(* The commands.  What a command may have done follows from the order of   *)
(* its steps (Sound): it finds its device before it calls it, asks before  *)
(* it erases, turns back only where nothing has been changed yet, and has  *)
(* its data before it opens a file.                                        *)
(***************************************************************************)

Finding == {"detect", "tks"}
Calling == {"call", "wait"}
Fetching == {"logfile", "backup_save", "get_ui_configuration"}

FindsFirst(p) == \A i \in 1..Len(p) : p[i].do \in Calling =>
                     \E j \in 1..Len(p) : j < i /\ p[j].do \in Finding
FindsOnce(p) == \A i, j \in 1..Len(p) : p[i].do \in Finding /\ j < i => p[j].do \in {"ask", "input"}
AsksFirst(p) == \A i \in 1..Len(p) : p[i].do \in Calling /\ p[i].op \in Erasing =>
                     \E j \in 1..Len(p) : j < i /\ p[j].do = "ask"
GoesThrough(p) == \A i, j \in 1..Len(p) :
                     p[i].do \in Calling /\ p[i].op \notin Reads /\ i < j => p[j].do \in {"wait", "save"}
FetchesFirst(p) == \A i \in 1..Len(p) : p[i].do = "save" =>
                     /\ i = Len(p)
                     /\ \E j \in 1..Len(p) : j < i /\ p[j].do = "call" /\ p[j].op \in Fetching

Sound(p) ==
    /\ Len(p) \in Nat /\ FindsFirst(p) /\ FindsOnce(p)
    /\ AsksFirst(p) /\ GoesThrough(p) /\ FetchesFirst(p)
AllSound(commands) == \A e \in commands : Sound(e.steps)

LEMMA EveryProgramIsSound == AllSound(Listed)
<1>1. AllSound(InfoCommands)
  <2> USE DEF Sound, FindsFirst, FindsOnce, AsksFirst, GoesThrough, FetchesFirst, Finding, Calling, Fetching,
            Reads, Erasing, SharedOps, Detect, TksLogin, Call, Input, Need, Ask, Wait, Save,
            GdsGroup
  <2>1. Sound(<<Detect>>)
    OBVIOUS
  <2>2. Sound(<<Detect, Call("device_info")>>)
    OBVIOUS
  <2> HIDE DEF Sound, FindsFirst, FindsOnce, AsksFirst, GoesThrough, FetchesFirst, Finding, Calling, Fetching,
            Reads, Erasing, SharedOps, Detect, TksLogin, Call, Input, Need, Ask, Wait, Save,
            GdsGroup
  <2> QED BY <2>1, <2>2 DEF AllSound, InfoCommands, Runs
<1>2. AllSound(SettingCommands)
  <2> USE DEF Sound, FindsFirst, FindsOnce, AsksFirst, GoesThrough, FetchesFirst, Finding, Calling, Fetching,
            Reads, Erasing, SharedOps, Detect, TksLogin, Call, Input, Need, Ask, Wait, Save,
            GdsGroup
  <2>1. Sound(<<Detect, Call("diagnostic_page")>>)
    OBVIOUS
  <2>2. Sound(<<Input, Detect, Call("set_ntp")>>)
    OBVIOUS
  <2>3. Sound(<<Detect, Call("ntp_info")>>)
    OBVIOUS
  <2>4. Sound(<<Input, Detect, Call("device_info"), Input, Call("set_ip")>>)
    OBVIOUS
  <2>5. Sound(<<Detect, Call("network_info")>>)
    OBVIOUS
  <2> HIDE DEF Sound, FindsFirst, FindsOnce, AsksFirst, GoesThrough, FetchesFirst, Finding, Calling, Fetching,
            Reads, Erasing, SharedOps, Detect, TksLogin, Call, Input, Need, Ask, Wait, Save,
            GdsGroup
  <2> QED BY <2>1, <2>2, <2>3, <2>4, <2>5 DEF AllSound, SettingCommands, Runs
<1>3. AllSound(FirmwareCommands)
  <2> USE DEF Sound, FindsFirst, FindsOnce, AsksFirst, GoesThrough, FetchesFirst, Finding, Calling, Fetching,
            Reads, Erasing, SharedOps, Detect, TksLogin, Call, Input, Need, Ask, Wait, Save,
            GdsGroup
  <2>1. Sound(<<Detect, Call("check_update")>>)
    OBVIOUS
  <2>2. Sound(<<Input, Detect, Call("install_firmware"), Wait("wait_for_completion")>>)
    OBVIOUS
  <2>3. Sound(<<Detect, Call("trigger_online_update"), Wait("wait_for_completion")>>)
    OBVIOUS
  <2>4. Sound(<<Detect, Call("commissioning_test")>>)
    OBVIOUS
  <2>5. Sound(<<Detect, Call("enable_ssh")>>)
    OBVIOUS
  <2>6. Sound(<<Detect, Call("disable_ssh")>>)
    OBVIOUS
  <2> HIDE DEF Sound, FindsFirst, FindsOnce, AsksFirst, GoesThrough, FetchesFirst, Finding, Calling, Fetching,
            Reads, Erasing, SharedOps, Detect, TksLogin, Call, Input, Need, Ask, Wait, Save,
            GdsGroup
  <2> QED BY <2>1, <2>2, <2>3, <2>4, <2>5, <2>6 DEF AllSound, FirmwareCommands, Runs
<1>4. AllSound(TksConfigure)
  <2> USE DEF Sound, FindsFirst, FindsOnce, AsksFirst, GoesThrough, FetchesFirst, Finding, Calling, Fetching,
            Reads, Erasing, SharedOps, Detect, TksLogin, Call, Input, Need, Ask, Wait, Save,
            GdsGroup
  <2>1. Sound(<<Input, Detect, Need({"g1"}), Call("configure_tks")>>)
    OBVIOUS
  <2> HIDE DEF Sound, FindsFirst, FindsOnce, AsksFirst, GoesThrough, FetchesFirst, Finding, Calling, Fetching,
            Reads, Erasing, SharedOps, Detect, TksLogin, Call, Input, Need, Ask, Wait, Save,
            GdsGroup
  <2> QED BY <2>1 DEF AllSound, TksConfigure, Runs
<1>5. AllSound(WeatherSet)
  <2> USE DEF Sound, FindsFirst, FindsOnce, AsksFirst, GoesThrough, FetchesFirst, Finding, Calling, Fetching,
            Reads, Erasing, SharedOps, Detect, TksLogin, Call, Input, Need, Ask, Wait, Save,
            GdsGroup
  <2>1. Sound(<<Input, Detect, Need({"g1"}), Input, Call("set_app_value")>>)
    OBVIOUS
  <2> HIDE DEF Sound, FindsFirst, FindsOnce, AsksFirst, GoesThrough, FetchesFirst, Finding, Calling, Fetching,
            Reads, Erasing, SharedOps, Detect, TksLogin, Call, Input, Need, Ask, Wait, Save,
            GdsGroup
  <2> QED BY <2>1 DEF AllSound, WeatherSet, Runs
<1>6. AllSound(LifecycleCommands)
  <2> USE DEF Sound, FindsFirst, FindsOnce, AsksFirst, GoesThrough, FetchesFirst, Finding, Calling, Fetching,
            Reads, Erasing, SharedOps, Detect, TksLogin, Call, Input, Need, Ask, Wait, Save,
            GdsGroup
  <2>1. Sound(<<Detect, Call("reboot")>>)
    OBVIOUS
  <2>2. Sound(<<Ask, Detect, Call("factory_reset")>>)
    OBVIOUS
  <2> HIDE DEF Sound, FindsFirst, FindsOnce, AsksFirst, GoesThrough, FetchesFirst, Finding, Calling, Fetching,
            Reads, Erasing, SharedOps, Detect, TksLogin, Call, Input, Need, Ask, Wait, Save,
            GdsGroup
  <2> QED BY <2>1, <2>2 DEF AllSound, LifecycleCommands, Runs
<1>7. AllSound(TksCommands)
  <2> USE DEF Sound, FindsFirst, FindsOnce, AsksFirst, GoesThrough, FetchesFirst, Finding, Calling, Fetching,
            Reads, Erasing, SharedOps, Detect, TksLogin, Call, Input, Need, Ask, Wait, Save,
            GdsGroup
  <2>1. Sound(<<TksLogin, Call("activate_web")>>)
    OBVIOUS
  <2>2. Sound(<<TksLogin, Call("status")>>)
    OBVIOUS
  <2>3. Sound(<<TksLogin, Call("backup_save"), Save>>)
    OBVIOUS
  <2>4. Sound(<<Input, Ask, TksLogin, Call("backup_restore")>>)
    OBVIOUS
  <2>5. Sound(<<Input, Ask, TksLogin, Call("firmware_update")>>)
    OBVIOUS
  <2>6. Sound(<<TksLogin, Call("raw_device_info")>>)
    OBVIOUS
  <2> HIDE DEF Sound, FindsFirst, FindsOnce, AsksFirst, GoesThrough, FetchesFirst, Finding, Calling, Fetching,
            Reads, Erasing, SharedOps, Detect, TksLogin, Call, Input, Need, Ask, Wait, Save,
            GdsGroup
  <2> QED BY <2>1, <2>2, <2>3, <2>4, <2>5, <2>6 DEF AllSound, TksCommands, Runs
<1>8. AllSound(SipCommands)
  <2> USE DEF Sound, FindsFirst, FindsOnce, AsksFirst, GoesThrough, FetchesFirst, Finding, Calling, Fetching,
            Reads, Erasing, SharedOps, Detect, TksLogin, Call, Input, Need, Ask, Wait, Save,
            GdsGroup
  <2>1. Sound(<<TksLogin, Call("sip_clients")>>)
    OBVIOUS
  <2>2. Sound(<<Input, TksLogin, Call("create_sip_client")>>)
    OBVIOUS
  <2>3. Sound(<<Ask, TksLogin, Call("delete_sip_client")>>)
    OBVIOUS
  <2>4. Sound(<<Input, TksLogin, Call("register")>>)
    OBVIOUS
  <2> HIDE DEF Sound, FindsFirst, FindsOnce, AsksFirst, GoesThrough, FetchesFirst, Finding, Calling, Fetching,
            Reads, Erasing, SharedOps, Detect, TksLogin, Call, Input, Need, Ask, Wait, Save,
            GdsGroup
  <2> QED BY <2>1, <2>2, <2>3, <2>4 DEF AllSound, SipCommands, Runs
<1>9. AllSound(LogCommands)
  <2> USE DEF Sound, FindsFirst, FindsOnce, AsksFirst, GoesThrough, FetchesFirst, Finding, Calling, Fetching,
            Reads, Erasing, SharedOps, Detect, TksLogin, Call, Input, Need, Ask, Wait, Save,
            GdsGroup
  <2>1. Sound(<<Detect, Call("logfile"), Save>>)
    OBVIOUS
  <2> HIDE DEF Sound, FindsFirst, FindsOnce, AsksFirst, GoesThrough, FetchesFirst, Finding, Calling, Fetching,
            Reads, Erasing, SharedOps, Detect, TksLogin, Call, Input, Need, Ask, Wait, Save,
            GdsGroup
  <2> QED BY <2>1 DEF AllSound, LogCommands, Runs
<1>10. AllSound(LoggingCommands)
  <2> USE DEF Sound, FindsFirst, FindsOnce, AsksFirst, GoesThrough, FetchesFirst, Finding, Calling, Fetching,
            Reads, Erasing, SharedOps, Detect, TksLogin, Call, Input, Need, Ask, Wait, Save,
            GdsGroup
  <2>1. Sound(<<Detect, Call("set_logging_severity")>>)
    OBVIOUS
  <2>2. Sound(<<Detect, Call("get_logging_severity")>>)
    OBVIOUS
  <2> HIDE DEF Sound, FindsFirst, FindsOnce, AsksFirst, GoesThrough, FetchesFirst, Finding, Calling, Fetching,
            Reads, Erasing, SharedOps, Detect, TksLogin, Call, Input, Need, Ask, Wait, Save,
            GdsGroup
  <2> QED BY <2>1, <2>2 DEF AllSound, LoggingCommands, Runs
<1>11. AllSound(ProgramCommands)
  <2> USE DEF Sound, FindsFirst, FindsOnce, AsksFirst, GoesThrough, FetchesFirst, Finding, Calling, Fetching,
            Reads, Erasing, SharedOps, Detect, TksLogin, Call, Input, Need, Ask, Wait, Save,
            GdsGroup
  <2>1. Sound(<<Detect, Need({"x1"}), Call("get_ui_configuration"), Save>>)
    OBVIOUS
  <2>2. Sound(<<Input, Ask, Input, Detect, Need({"x1"}), Call("set_ui_configuration")>>)
    OBVIOUS
  <2> HIDE DEF Sound, FindsFirst, FindsOnce, AsksFirst, GoesThrough, FetchesFirst, Finding, Calling, Fetching,
            Reads, Erasing, SharedOps, Detect, TksLogin, Call, Input, Need, Ask, Wait, Save,
            GdsGroup
  <2> QED BY <2>1, <2>2 DEF AllSound, ProgramCommands, Runs
<1>12. AllSound(GdsCommands)
  <2> USE DEF Sound, FindsFirst, FindsOnce, AsksFirst, GoesThrough, FetchesFirst, Finding, Calling, Fetching,
            Reads, Erasing, SharedOps, Detect, TksLogin, Call, Input, Need, Ask, Wait, Save,
            GdsGroup, GdsCommand
  <2>1. Sound(GdsCommand(<<Call("process_view")>>))
    OBVIOUS
  <2>2. Sound(GdsCommand(<<Call("device_config")>>))
    OBVIOUS
  <2>3. Sound(GdsCommand(<<Input, Call("set_device_config")>>))
    OBVIOUS
  <2>4. Sound(GdsCommand(<<Input, Call("app_value")>>))
    OBVIOUS
  <2>5. Sound(GdsCommand(<<Input, Call("set_app_value")>>))
    OBVIOUS
  <2>6. Sound(GdsCommand(<<Input, Call("set_location")>>))
    OBVIOUS
  <2>7. Sound(GdsCommand(<<Call("tks_status")>>))
    OBVIOUS
  <2>8. Sound(GdsCommand(<<Input, Need({"g1"}), Call("configure_tks")>>))
    OBVIOUS
  <2>9. Sound(GdsCommand(<<Call("listen")>>))
    OBVIOUS
  <2>10. Sound(GdsCommand(<<Call("restart")>>))
    OBVIOUS
  <2>11. Sound(GdsCommand(<<Ask, Call("gds_factory_reset")>>))
    OBVIOUS
  <2> HIDE DEF Sound, FindsFirst, FindsOnce, AsksFirst, GoesThrough, FetchesFirst, Finding, Calling, Fetching,
            Reads, Erasing, SharedOps, Detect, TksLogin, Call, Input, Need, Ask, Wait, Save,
            GdsGroup, GdsCommand
  <2> QED BY <2>1, <2>2, <2>3, <2>4, <2>5, <2>6, <2>7, <2>8, <2>9, <2>10, <2>11 DEF AllSound, GdsCommands, Runs
<1> QED BY <1>1, <1>2, <1>3, <1>4, <1>5, <1>6, <1>7, <1>8, <1>9, <1>10, <1>11, <1>12 DEF AllSound, Listed

LEMMA CommandsAreSound == \A c \in DOMAIN Commands : Sound(Commands[c])
<1> SUFFICES ASSUME NEW e \in Listed
             PROVE  Sound((CHOOSE x \in Listed : x.path = e.path).steps)
  BY DEF Commands
<1>1. (CHOOSE x \in Listed : x.path = e.path) \in Listed
  OBVIOUS
<1> QED BY <1>1, EveryProgramIsSound DEF AllSound

-----------------------------------------------------------------------------
(***************************************************************************)
(* The declared families.  A command fits its declaration (Fits) when no   *)
(* step turns a declared family back, and one turns every other family     *)
(* back before anything but a reading call.                                *)
(***************************************************************************)

Blocks(s, f) ==
    \/ s.do = "call" /\ s.op \notin Facade[f]
    \/ s.do = "need" /\ f \notin s.families
    \/ s.do = "tks" /\ f # "tks-ip"

TurnsBack(p, f) == \E k \in 1..Len(p) :
    /\ Blocks(p[k], f)
    /\ \A j \in 1..Len(p) : /\ j <= k => p[j].do # "wait"
                            /\ j < k /\ p[j].do = "call" => p[j].op \in Reads
LetsThrough(p, f) == \A k \in 1..Len(p) : ~Blocks(p[k], f)
Suits(p, families) == \A f \in Families : IF f \in families THEN LetsThrough(p, f) ELSE TurnsBack(p, f)

\* The exception that SupportedAsDeclared names.
Excepted(path) == IF path = <<"firmware", "upgrade", "--online">> THEN {"tks-ip"} ELSE {}
Fits(path, p) == Suits(p, Declared(path) \ Excepted(path))
AllFit(commands) == \A e \in commands : Fits(e.path, e.steps)

Nearest(e, path) ==
    /\ e \in PathSupport /\ Covers(e, path)
    /\ \A x \in PathSupport : Covers(x, path) => x = e \/ Len(x.path) < Len(e.path)

LEMMA DeclaredIsNearest ==
    ASSUME NEW path, NEW e, Nearest(e, path)
    PROVE  Declared(path) = e.families
<1> DEFINE entries == {x \in PathSupport : Covers(x, path)}
           best == CHOOSE y \in entries : \A x \in entries : Len(x.path) <= Len(y.path)
<1>1. \A x \in PathSupport : Len(x.path) \in Nat
  BY DEF PathSupport, For
<1>2. e \in entries /\ \A x \in entries : Len(x.path) <= Len(e.path)
  BY <1>1 DEF Nearest
<1>3. best \in entries /\ \A x \in entries : Len(x.path) <= Len(best.path)
  BY <1>2
<1>4. best = e
  BY <1>1, <1>2, <1>3 DEF Nearest
<1> QED BY <1>4 DEF Declared

LEMMA NearestFits ==
    ASSUME NEW path, NEW group, NEW families, Nearest(For(group, families), path), NEW p,
           Suits(p, families \ Excepted(path))
    PROVE  Fits(path, p)
BY DeclaredIsNearest DEF Fits, For

LEMMA EveryProgramFits == AllFit(Listed)
<1>1. AllFit(InfoCommands)
  <2>1. Nearest(For(<<"device">>, Families), <<"device", "detect">>)
    BY DEF Nearest, Covers, For, PathSupport
  <2>2. Nearest(For(<<"device">>, Families), <<"device", "info">>)
    BY DEF Nearest, Covers, For, PathSupport
  <2> USE DEF Suits, TurnsBack, LetsThrough, Blocks, Facade, Families, Detect, TksLogin, Call, Input,
            Need, Ask, Wait, Save, GdsGroup,
            G1Facade, X1Facade, TksIpFacade, SharedOps, ApiOps, GdsOps, TksOps, Reads, G1X1, Excepted
  <2>3. Suits(<<Detect>>, Families \ Excepted(<<"device", "detect">>))
    OBVIOUS
  <2>4. Suits(<<Detect, Call("device_info")>>, Families \ Excepted(<<"device", "info">>))
    OBVIOUS
  <2> HIDE DEF Suits, TurnsBack, LetsThrough, Blocks, Facade, Families, Detect, TksLogin, Call, Input,
            Need, Ask, Wait, Save, GdsGroup,
            G1Facade, X1Facade, TksIpFacade, SharedOps, ApiOps, GdsOps, TksOps, Reads, G1X1, Excepted
  <2>5. Fits(<<"device", "detect">>, <<Detect>>)
    BY <2>1, <2>3, NearestFits
  <2>6. Fits(<<"device", "info">>, <<Detect, Call("device_info")>>)
    BY <2>2, <2>4, NearestFits
  <2> QED BY <2>5, <2>6 DEF AllFit, Runs, InfoCommands
<1>2. AllFit(SettingCommands)
  <2>1. Nearest(For(<<"device">>, Families), <<"device", "diagnostics">>)
    BY DEF Nearest, Covers, For, PathSupport
  <2>2. Nearest(For(<<"ntp", "set">>, G1X1), <<"ntp", "set">>)
    BY DEF Nearest, Covers, For, PathSupport
  <2>3. Nearest(For(<<"ntp">>, Families), <<"ntp", "get">>)
    BY DEF Nearest, Covers, For, PathSupport
  <2>4. Nearest(For(<<"network", "set">>, G1X1), <<"network", "set">>)
    BY DEF Nearest, Covers, For, PathSupport
  <2>5. Nearest(For(<<"network">>, Families), <<"network", "get">>)
    BY DEF Nearest, Covers, For, PathSupport
  <2> USE DEF Suits, TurnsBack, LetsThrough, Blocks, Facade, Families, Detect, TksLogin, Call, Input,
            Need, Ask, Wait, Save, GdsGroup,
            G1Facade, X1Facade, TksIpFacade, SharedOps, ApiOps, GdsOps, TksOps, Reads, G1X1, Excepted
  <2>6. Suits(<<Detect, Call("diagnostic_page")>>, Families \ Excepted(<<"device", "diagnostics">>))
    OBVIOUS
  <2>7. Suits(<<Input, Detect, Call("set_ntp")>>, G1X1 \ Excepted(<<"ntp", "set">>))
    OBVIOUS
  <2>8. Suits(<<Detect, Call("ntp_info")>>, Families \ Excepted(<<"ntp", "get">>))
    OBVIOUS
  <2>9. Suits(<<Input, Detect, Call("device_info"), Input, Call("set_ip")>>, G1X1 \ Excepted(<<"network", "set">>))
    OBVIOUS
  <2>10. Suits(<<Detect, Call("network_info")>>, Families \ Excepted(<<"network", "get">>))
    OBVIOUS
  <2> HIDE DEF Suits, TurnsBack, LetsThrough, Blocks, Facade, Families, Detect, TksLogin, Call, Input,
            Need, Ask, Wait, Save, GdsGroup,
            G1Facade, X1Facade, TksIpFacade, SharedOps, ApiOps, GdsOps, TksOps, Reads, G1X1, Excepted
  <2>11. Fits(<<"device", "diagnostics">>, <<Detect, Call("diagnostic_page")>>)
    BY <2>1, <2>6, NearestFits
  <2>12. Fits(<<"ntp", "set">>, <<Input, Detect, Call("set_ntp")>>)
    BY <2>2, <2>7, NearestFits
  <2>13. Fits(<<"ntp", "get">>, <<Detect, Call("ntp_info")>>)
    BY <2>3, <2>8, NearestFits
  <2>14. Fits(<<"network", "set">>, <<Input, Detect, Call("device_info"), Input, Call("set_ip")>>)
    BY <2>4, <2>9, NearestFits
  <2>15. Fits(<<"network", "get">>, <<Detect, Call("network_info")>>)
    BY <2>5, <2>10, NearestFits
  <2> QED BY <2>11, <2>12, <2>13, <2>14, <2>15 DEF AllFit, Runs, SettingCommands
<1>3. AllFit(FirmwareCommands)
  <2>1. Nearest(For(<<"firmware", "check">>, G1X1), <<"firmware", "check">>)
    BY DEF Nearest, Covers, For, PathSupport
  <2>2. Nearest(For(<<"firmware">>, Families), <<"firmware", "upgrade", "--file">>)
    BY DEF Nearest, Covers, For, PathSupport
  <2>3. Nearest(For(<<"firmware">>, Families), <<"firmware", "upgrade", "--online">>)
    BY DEF Nearest, Covers, For, PathSupport
  <2>4. Nearest(For(<<"device", "commissioning-test">>, G1X1), <<"device", "commissioning-test">>)
    BY DEF Nearest, Covers, For, PathSupport
  <2>5. Nearest(For(<<"ssh">>, G1X1), <<"ssh", "enable">>)
    BY DEF Nearest, Covers, For, PathSupport
  <2>6. Nearest(For(<<"ssh">>, G1X1), <<"ssh", "disable">>)
    BY DEF Nearest, Covers, For, PathSupport
  <2> USE DEF Suits, TurnsBack, LetsThrough, Blocks, Facade, Families, Detect, TksLogin, Call, Input,
            Need, Ask, Wait, Save, GdsGroup,
            G1Facade, X1Facade, TksIpFacade, SharedOps, ApiOps, GdsOps, TksOps, Reads, G1X1, Excepted
  <2>7. Suits(<<Detect, Call("check_update")>>, G1X1 \ Excepted(<<"firmware", "check">>))
    OBVIOUS
  <2>8. Suits(<<Input, Detect, Call("install_firmware"), Wait("wait_for_completion")>>, Families \ Excepted(<<"firmware", "upgrade", "--file">>))
    OBVIOUS
  <2>9. Suits(<<Detect, Call("trigger_online_update"), Wait("wait_for_completion")>>, Families \ Excepted(<<"firmware", "upgrade", "--online">>))
    OBVIOUS
  <2>10. Suits(<<Detect, Call("commissioning_test")>>, G1X1 \ Excepted(<<"device", "commissioning-test">>))
    OBVIOUS
  <2>11. Suits(<<Detect, Call("enable_ssh")>>, G1X1 \ Excepted(<<"ssh", "enable">>))
    OBVIOUS
  <2>12. Suits(<<Detect, Call("disable_ssh")>>, G1X1 \ Excepted(<<"ssh", "disable">>))
    OBVIOUS
  <2> HIDE DEF Suits, TurnsBack, LetsThrough, Blocks, Facade, Families, Detect, TksLogin, Call, Input,
            Need, Ask, Wait, Save, GdsGroup,
            G1Facade, X1Facade, TksIpFacade, SharedOps, ApiOps, GdsOps, TksOps, Reads, G1X1, Excepted
  <2>13. Fits(<<"firmware", "check">>, <<Detect, Call("check_update")>>)
    BY <2>1, <2>7, NearestFits
  <2>14. Fits(<<"firmware", "upgrade", "--file">>, <<Input, Detect, Call("install_firmware"), Wait("wait_for_completion")>>)
    BY <2>2, <2>8, NearestFits
  <2>15. Fits(<<"firmware", "upgrade", "--online">>, <<Detect, Call("trigger_online_update"), Wait("wait_for_completion")>>)
    BY <2>3, <2>9, NearestFits
  <2>16. Fits(<<"device", "commissioning-test">>, <<Detect, Call("commissioning_test")>>)
    BY <2>4, <2>10, NearestFits
  <2>17. Fits(<<"ssh", "enable">>, <<Detect, Call("enable_ssh")>>)
    BY <2>5, <2>11, NearestFits
  <2>18. Fits(<<"ssh", "disable">>, <<Detect, Call("disable_ssh")>>)
    BY <2>6, <2>12, NearestFits
  <2> QED BY <2>13, <2>14, <2>15, <2>16, <2>17, <2>18 DEF AllFit, Runs, FirmwareCommands
<1>4. AllFit(TksConfigure)
  <2>1. Nearest(For(<<"tks", "configure">>, {"g1"}), <<"tks", "configure">>)
    BY DEF Nearest, Covers, For, PathSupport
  <2> USE DEF Suits, TurnsBack, LetsThrough, Blocks, Facade, Families, Detect, TksLogin, Call, Input,
            Need, Ask, Wait, Save, GdsGroup,
            G1Facade, X1Facade, TksIpFacade, SharedOps, ApiOps, GdsOps, TksOps, Reads, G1X1, Excepted
  <2>2. Suits(<<Input, Detect, Need({"g1"}), Call("configure_tks")>>, {"g1"} \ Excepted(<<"tks", "configure">>))
    OBVIOUS
  <2> HIDE DEF Suits, TurnsBack, LetsThrough, Blocks, Facade, Families, Detect, TksLogin, Call, Input,
            Need, Ask, Wait, Save, GdsGroup,
            G1Facade, X1Facade, TksIpFacade, SharedOps, ApiOps, GdsOps, TksOps, Reads, G1X1, Excepted
  <2>3. Fits(<<"tks", "configure">>, <<Input, Detect, Need({"g1"}), Call("configure_tks")>>)
    BY <2>1, <2>2, NearestFits
  <2> QED BY <2>3 DEF AllFit, Runs, TksConfigure
<1>5. AllFit(WeatherSet)
  <2>1. Nearest(For(<<"weather">>, {"g1"}), <<"weather", "set">>)
    BY DEF Nearest, Covers, For, PathSupport
  <2> USE DEF Suits, TurnsBack, LetsThrough, Blocks, Facade, Families, Detect, TksLogin, Call, Input,
            Need, Ask, Wait, Save, GdsGroup,
            G1Facade, X1Facade, TksIpFacade, SharedOps, ApiOps, GdsOps, TksOps, Reads, G1X1, Excepted
  <2>2. Suits(<<Input, Detect, Need({"g1"}), Input, Call("set_app_value")>>, {"g1"} \ Excepted(<<"weather", "set">>))
    OBVIOUS
  <2> HIDE DEF Suits, TurnsBack, LetsThrough, Blocks, Facade, Families, Detect, TksLogin, Call, Input,
            Need, Ask, Wait, Save, GdsGroup,
            G1Facade, X1Facade, TksIpFacade, SharedOps, ApiOps, GdsOps, TksOps, Reads, G1X1, Excepted
  <2>3. Fits(<<"weather", "set">>, <<Input, Detect, Need({"g1"}), Input, Call("set_app_value")>>)
    BY <2>1, <2>2, NearestFits
  <2> QED BY <2>3 DEF AllFit, Runs, WeatherSet
<1>6. AllFit(LifecycleCommands)
  <2>1. Nearest(For(<<"device", "restart">>, G1X1), <<"device", "restart">>)
    BY DEF Nearest, Covers, For, PathSupport
  <2>2. Nearest(For(<<"device", "factory-reset">>, G1X1), <<"device", "factory-reset">>)
    BY DEF Nearest, Covers, For, PathSupport
  <2> USE DEF Suits, TurnsBack, LetsThrough, Blocks, Facade, Families, Detect, TksLogin, Call, Input,
            Need, Ask, Wait, Save, GdsGroup,
            G1Facade, X1Facade, TksIpFacade, SharedOps, ApiOps, GdsOps, TksOps, Reads, G1X1, Excepted
  <2>3. Suits(<<Detect, Call("reboot")>>, G1X1 \ Excepted(<<"device", "restart">>))
    OBVIOUS
  <2>4. Suits(<<Ask, Detect, Call("factory_reset")>>, G1X1 \ Excepted(<<"device", "factory-reset">>))
    OBVIOUS
  <2> HIDE DEF Suits, TurnsBack, LetsThrough, Blocks, Facade, Families, Detect, TksLogin, Call, Input,
            Need, Ask, Wait, Save, GdsGroup,
            G1Facade, X1Facade, TksIpFacade, SharedOps, ApiOps, GdsOps, TksOps, Reads, G1X1, Excepted
  <2>5. Fits(<<"device", "restart">>, <<Detect, Call("reboot")>>)
    BY <2>1, <2>3, NearestFits
  <2>6. Fits(<<"device", "factory-reset">>, <<Ask, Detect, Call("factory_reset")>>)
    BY <2>2, <2>4, NearestFits
  <2> QED BY <2>5, <2>6 DEF AllFit, Runs, LifecycleCommands
<1>7. AllFit(TksCommands)
  <2>1. Nearest(For(<<"tks", "activate">>, {"tks-ip"}), <<"tks", "activate">>)
    BY DEF Nearest, Covers, For, PathSupport
  <2>2. Nearest(For(<<"tks", "status">>, {"tks-ip"}), <<"tks", "status">>)
    BY DEF Nearest, Covers, For, PathSupport
  <2>3. Nearest(For(<<"tks", "backup">>, {"tks-ip"}), <<"tks", "backup", "save">>)
    BY DEF Nearest, Covers, For, PathSupport
  <2>4. Nearest(For(<<"tks", "backup">>, {"tks-ip"}), <<"tks", "backup", "restore">>)
    BY DEF Nearest, Covers, For, PathSupport
  <2>5. Nearest(For(<<"tks", "firmware">>, {"tks-ip"}), <<"tks", "firmware", "update">>)
    BY DEF Nearest, Covers, For, PathSupport
  <2>6. Nearest(For(<<"tks", "info">>, {"tks-ip"}), <<"tks", "info">>)
    BY DEF Nearest, Covers, For, PathSupport
  <2> USE DEF Suits, TurnsBack, LetsThrough, Blocks, Facade, Families, Detect, TksLogin, Call, Input,
            Need, Ask, Wait, Save, GdsGroup,
            G1Facade, X1Facade, TksIpFacade, SharedOps, ApiOps, GdsOps, TksOps, Reads, G1X1, Excepted
  <2>7. Suits(<<TksLogin, Call("activate_web")>>, {"tks-ip"} \ Excepted(<<"tks", "activate">>))
    OBVIOUS
  <2>8. Suits(<<TksLogin, Call("status")>>, {"tks-ip"} \ Excepted(<<"tks", "status">>))
    OBVIOUS
  <2>9. Suits(<<TksLogin, Call("backup_save"), Save>>, {"tks-ip"} \ Excepted(<<"tks", "backup", "save">>))
    OBVIOUS
  <2>10. Suits(<<Input, Ask, TksLogin, Call("backup_restore")>>, {"tks-ip"} \ Excepted(<<"tks", "backup", "restore">>))
    OBVIOUS
  <2>11. Suits(<<Input, Ask, TksLogin, Call("firmware_update")>>, {"tks-ip"} \ Excepted(<<"tks", "firmware", "update">>))
    OBVIOUS
  <2>12. Suits(<<TksLogin, Call("raw_device_info")>>, {"tks-ip"} \ Excepted(<<"tks", "info">>))
    OBVIOUS
  <2> HIDE DEF Suits, TurnsBack, LetsThrough, Blocks, Facade, Families, Detect, TksLogin, Call, Input,
            Need, Ask, Wait, Save, GdsGroup,
            G1Facade, X1Facade, TksIpFacade, SharedOps, ApiOps, GdsOps, TksOps, Reads, G1X1, Excepted
  <2>13. Fits(<<"tks", "activate">>, <<TksLogin, Call("activate_web")>>)
    BY <2>1, <2>7, NearestFits
  <2>14. Fits(<<"tks", "status">>, <<TksLogin, Call("status")>>)
    BY <2>2, <2>8, NearestFits
  <2>15. Fits(<<"tks", "backup", "save">>, <<TksLogin, Call("backup_save"), Save>>)
    BY <2>3, <2>9, NearestFits
  <2>16. Fits(<<"tks", "backup", "restore">>, <<Input, Ask, TksLogin, Call("backup_restore")>>)
    BY <2>4, <2>10, NearestFits
  <2>17. Fits(<<"tks", "firmware", "update">>, <<Input, Ask, TksLogin, Call("firmware_update")>>)
    BY <2>5, <2>11, NearestFits
  <2>18. Fits(<<"tks", "info">>, <<TksLogin, Call("raw_device_info")>>)
    BY <2>6, <2>12, NearestFits
  <2> QED BY <2>13, <2>14, <2>15, <2>16, <2>17, <2>18 DEF AllFit, Runs, TksCommands
<1>8. AllFit(SipCommands)
  <2>1. Nearest(For(<<"tks", "sip">>, {"tks-ip"}), <<"tks", "sip", "info">>)
    BY DEF Nearest, Covers, For, PathSupport
  <2>2. Nearest(For(<<"tks", "sip">>, {"tks-ip"}), <<"tks", "sip", "users", "add">>)
    BY DEF Nearest, Covers, For, PathSupport
  <2>3. Nearest(For(<<"tks", "sip">>, {"tks-ip"}), <<"tks", "sip", "users", "delete">>)
    BY DEF Nearest, Covers, For, PathSupport
  <2>4. Nearest(For(<<"tks", "sip">>, {"tks-ip"}), <<"tks", "sip", "monitor">>)
    BY DEF Nearest, Covers, For, PathSupport
  <2> USE DEF Suits, TurnsBack, LetsThrough, Blocks, Facade, Families, Detect, TksLogin, Call, Input,
            Need, Ask, Wait, Save, GdsGroup,
            G1Facade, X1Facade, TksIpFacade, SharedOps, ApiOps, GdsOps, TksOps, Reads, G1X1, Excepted
  <2>5. Suits(<<TksLogin, Call("sip_clients")>>, {"tks-ip"} \ Excepted(<<"tks", "sip", "info">>))
    OBVIOUS
  <2>6. Suits(<<Input, TksLogin, Call("create_sip_client")>>, {"tks-ip"} \ Excepted(<<"tks", "sip", "users", "add">>))
    OBVIOUS
  <2>7. Suits(<<Ask, TksLogin, Call("delete_sip_client")>>, {"tks-ip"} \ Excepted(<<"tks", "sip", "users", "delete">>))
    OBVIOUS
  <2>8. Suits(<<Input, TksLogin, Call("register")>>, {"tks-ip"} \ Excepted(<<"tks", "sip", "monitor">>))
    OBVIOUS
  <2> HIDE DEF Suits, TurnsBack, LetsThrough, Blocks, Facade, Families, Detect, TksLogin, Call, Input,
            Need, Ask, Wait, Save, GdsGroup,
            G1Facade, X1Facade, TksIpFacade, SharedOps, ApiOps, GdsOps, TksOps, Reads, G1X1, Excepted
  <2>9. Fits(<<"tks", "sip", "info">>, <<TksLogin, Call("sip_clients")>>)
    BY <2>1, <2>5, NearestFits
  <2>10. Fits(<<"tks", "sip", "users", "add">>, <<Input, TksLogin, Call("create_sip_client")>>)
    BY <2>2, <2>6, NearestFits
  <2>11. Fits(<<"tks", "sip", "users", "delete">>, <<Ask, TksLogin, Call("delete_sip_client")>>)
    BY <2>3, <2>7, NearestFits
  <2>12. Fits(<<"tks", "sip", "monitor">>, <<Input, TksLogin, Call("register")>>)
    BY <2>4, <2>8, NearestFits
  <2> QED BY <2>9, <2>10, <2>11, <2>12 DEF AllFit, Runs, SipCommands
<1>9. AllFit(LogCommands)
  <2>1. Nearest(For(<<"logs">>, Families), <<"logs", "pull">>)
    BY DEF Nearest, Covers, For, PathSupport
  <2> USE DEF Suits, TurnsBack, LetsThrough, Blocks, Facade, Families, Detect, TksLogin, Call, Input,
            Need, Ask, Wait, Save, GdsGroup,
            G1Facade, X1Facade, TksIpFacade, SharedOps, ApiOps, GdsOps, TksOps, Reads, G1X1, Excepted
  <2>2. Suits(<<Detect, Call("logfile"), Save>>, Families \ Excepted(<<"logs", "pull">>))
    OBVIOUS
  <2> HIDE DEF Suits, TurnsBack, LetsThrough, Blocks, Facade, Families, Detect, TksLogin, Call, Input,
            Need, Ask, Wait, Save, GdsGroup,
            G1Facade, X1Facade, TksIpFacade, SharedOps, ApiOps, GdsOps, TksOps, Reads, G1X1, Excepted
  <2>3. Fits(<<"logs", "pull">>, <<Detect, Call("logfile"), Save>>)
    BY <2>1, <2>2, NearestFits
  <2> QED BY <2>3 DEF AllFit, Runs, LogCommands
<1>10. AllFit(LoggingCommands)
  <2>1. Nearest(For(<<"logging">>, G1X1), <<"logging", "set">>)
    BY DEF Nearest, Covers, For, PathSupport
  <2>2. Nearest(For(<<"logging">>, G1X1), <<"logging", "get">>)
    BY DEF Nearest, Covers, For, PathSupport
  <2> USE DEF Suits, TurnsBack, LetsThrough, Blocks, Facade, Families, Detect, TksLogin, Call, Input,
            Need, Ask, Wait, Save, GdsGroup,
            G1Facade, X1Facade, TksIpFacade, SharedOps, ApiOps, GdsOps, TksOps, Reads, G1X1, Excepted
  <2>3. Suits(<<Detect, Call("set_logging_severity")>>, G1X1 \ Excepted(<<"logging", "set">>))
    OBVIOUS
  <2>4. Suits(<<Detect, Call("get_logging_severity")>>, G1X1 \ Excepted(<<"logging", "get">>))
    OBVIOUS
  <2> HIDE DEF Suits, TurnsBack, LetsThrough, Blocks, Facade, Families, Detect, TksLogin, Call, Input,
            Need, Ask, Wait, Save, GdsGroup,
            G1Facade, X1Facade, TksIpFacade, SharedOps, ApiOps, GdsOps, TksOps, Reads, G1X1, Excepted
  <2>5. Fits(<<"logging", "set">>, <<Detect, Call("set_logging_severity")>>)
    BY <2>1, <2>3, NearestFits
  <2>6. Fits(<<"logging", "get">>, <<Detect, Call("get_logging_severity")>>)
    BY <2>2, <2>4, NearestFits
  <2> QED BY <2>5, <2>6 DEF AllFit, Runs, LoggingCommands
<1>11. AllFit(ProgramCommands)
  <2>1. Nearest(For(<<"program">>, {"x1"}), <<"program", "export">>)
    BY DEF Nearest, Covers, For, PathSupport
  <2>2. Nearest(For(<<"program">>, {"x1"}), <<"program", "import">>)
    BY DEF Nearest, Covers, For, PathSupport
  <2> USE DEF Suits, TurnsBack, LetsThrough, Blocks, Facade, Families, Detect, TksLogin, Call, Input,
            Need, Ask, Wait, Save, GdsGroup,
            G1Facade, X1Facade, TksIpFacade, SharedOps, ApiOps, GdsOps, TksOps, Reads, G1X1, Excepted
  <2>3. Suits(<<Detect, Need({"x1"}), Call("get_ui_configuration"), Save>>, {"x1"} \ Excepted(<<"program", "export">>))
    OBVIOUS
  <2>4. Suits(<<Input, Ask, Input, Detect, Need({"x1"}), Call("set_ui_configuration")>>, {"x1"} \ Excepted(<<"program", "import">>))
    OBVIOUS
  <2> HIDE DEF Suits, TurnsBack, LetsThrough, Blocks, Facade, Families, Detect, TksLogin, Call, Input,
            Need, Ask, Wait, Save, GdsGroup,
            G1Facade, X1Facade, TksIpFacade, SharedOps, ApiOps, GdsOps, TksOps, Reads, G1X1, Excepted
  <2>5. Fits(<<"program", "export">>, <<Detect, Need({"x1"}), Call("get_ui_configuration"), Save>>)
    BY <2>1, <2>3, NearestFits
  <2>6. Fits(<<"program", "import">>, <<Input, Ask, Input, Detect, Need({"x1"}), Call("set_ui_configuration")>>)
    BY <2>2, <2>4, NearestFits
  <2> QED BY <2>5, <2>6 DEF AllFit, Runs, ProgramCommands
<1>12. AllFit(GdsCommands)
  <2>1. Nearest(For(<<"gds">>, {"g1"}), <<"gds", "process-view">>)
    BY DEF Nearest, Covers, For, PathSupport
  <2>2. Nearest(For(<<"gds">>, {"g1"}), <<"gds", "device-config">>)
    BY DEF Nearest, Covers, For, PathSupport
  <2>3. Nearest(For(<<"gds">>, {"g1"}), <<"gds", "set-device-config">>)
    BY DEF Nearest, Covers, For, PathSupport
  <2>4. Nearest(For(<<"gds">>, {"g1"}), <<"gds", "app-value", "get">>)
    BY DEF Nearest, Covers, For, PathSupport
  <2>5. Nearest(For(<<"gds">>, {"g1"}), <<"gds", "app-value", "set">>)
    BY DEF Nearest, Covers, For, PathSupport
  <2>6. Nearest(For(<<"gds">>, {"g1"}), <<"gds", "set-location">>)
    BY DEF Nearest, Covers, For, PathSupport
  <2>7. Nearest(For(<<"gds">>, {"g1"}), <<"gds", "tks-status">>)
    BY DEF Nearest, Covers, For, PathSupport
  <2>8. Nearest(For(<<"gds">>, {"g1"}), <<"gds", "configure-tks">>)
    BY DEF Nearest, Covers, For, PathSupport
  <2>9. Nearest(For(<<"gds">>, {"g1"}), <<"gds", "listen">>)
    BY DEF Nearest, Covers, For, PathSupport
  <2>10. Nearest(For(<<"gds">>, {"g1"}), <<"gds", "restart">>)
    BY DEF Nearest, Covers, For, PathSupport
  <2>11. Nearest(For(<<"gds">>, {"g1"}), <<"gds", "factory-reset">>)
    BY DEF Nearest, Covers, For, PathSupport
  <2> USE DEF Suits, TurnsBack, LetsThrough, Blocks, Facade, Families, Detect, TksLogin, Call, Input,
            Need, Ask, Wait, Save, GdsGroup, GdsCommand,
            G1Facade, X1Facade, TksIpFacade, SharedOps, ApiOps, GdsOps, TksOps, Reads, G1X1, Excepted
  <2>12. Suits(GdsCommand(<<Call("process_view")>>), {"g1"} \ Excepted(<<"gds", "process-view">>))
    OBVIOUS
  <2>13. Suits(GdsCommand(<<Call("device_config")>>), {"g1"} \ Excepted(<<"gds", "device-config">>))
    OBVIOUS
  <2>14. Suits(GdsCommand(<<Input, Call("set_device_config")>>), {"g1"} \ Excepted(<<"gds", "set-device-config">>))
    OBVIOUS
  <2>15. Suits(GdsCommand(<<Input, Call("app_value")>>), {"g1"} \ Excepted(<<"gds", "app-value", "get">>))
    OBVIOUS
  <2>16. Suits(GdsCommand(<<Input, Call("set_app_value")>>), {"g1"} \ Excepted(<<"gds", "app-value", "set">>))
    OBVIOUS
  <2>17. Suits(GdsCommand(<<Input, Call("set_location")>>), {"g1"} \ Excepted(<<"gds", "set-location">>))
    OBVIOUS
  <2>18. Suits(GdsCommand(<<Call("tks_status")>>), {"g1"} \ Excepted(<<"gds", "tks-status">>))
    OBVIOUS
  <2>19. Suits(GdsCommand(<<Input, Need({"g1"}), Call("configure_tks")>>), {"g1"} \ Excepted(<<"gds", "configure-tks">>))
    OBVIOUS
  <2>20. Suits(GdsCommand(<<Call("listen")>>), {"g1"} \ Excepted(<<"gds", "listen">>))
    OBVIOUS
  <2>21. Suits(GdsCommand(<<Call("restart")>>), {"g1"} \ Excepted(<<"gds", "restart">>))
    OBVIOUS
  <2>22. Suits(GdsCommand(<<Ask, Call("gds_factory_reset")>>), {"g1"} \ Excepted(<<"gds", "factory-reset">>))
    OBVIOUS
  <2> HIDE DEF Suits, TurnsBack, LetsThrough, Blocks, Facade, Families, Detect, TksLogin, Call, Input,
            Need, Ask, Wait, Save, GdsGroup, GdsCommand,
            G1Facade, X1Facade, TksIpFacade, SharedOps, ApiOps, GdsOps, TksOps, Reads, G1X1, Excepted
  <2>23. Fits(<<"gds", "process-view">>, GdsCommand(<<Call("process_view")>>))
    BY <2>1, <2>12, NearestFits
  <2>24. Fits(<<"gds", "device-config">>, GdsCommand(<<Call("device_config")>>))
    BY <2>2, <2>13, NearestFits
  <2>25. Fits(<<"gds", "set-device-config">>, GdsCommand(<<Input, Call("set_device_config")>>))
    BY <2>3, <2>14, NearestFits
  <2>26. Fits(<<"gds", "app-value", "get">>, GdsCommand(<<Input, Call("app_value")>>))
    BY <2>4, <2>15, NearestFits
  <2>27. Fits(<<"gds", "app-value", "set">>, GdsCommand(<<Input, Call("set_app_value")>>))
    BY <2>5, <2>16, NearestFits
  <2>28. Fits(<<"gds", "set-location">>, GdsCommand(<<Input, Call("set_location")>>))
    BY <2>6, <2>17, NearestFits
  <2>29. Fits(<<"gds", "tks-status">>, GdsCommand(<<Call("tks_status")>>))
    BY <2>7, <2>18, NearestFits
  <2>30. Fits(<<"gds", "configure-tks">>, GdsCommand(<<Input, Need({"g1"}), Call("configure_tks")>>))
    BY <2>8, <2>19, NearestFits
  <2>31. Fits(<<"gds", "listen">>, GdsCommand(<<Call("listen")>>))
    BY <2>9, <2>20, NearestFits
  <2>32. Fits(<<"gds", "restart">>, GdsCommand(<<Call("restart")>>))
    BY <2>10, <2>21, NearestFits
  <2>33. Fits(<<"gds", "factory-reset">>, GdsCommand(<<Ask, Call("gds_factory_reset")>>))
    BY <2>11, <2>22, NearestFits
  <2> QED BY <2>23, <2>24, <2>25, <2>26, <2>27, <2>28, <2>29, <2>30, <2>31, <2>32, <2>33 DEF AllFit, Runs, GdsCommands
<1> QED BY <1>1, <1>2, <1>3, <1>4, <1>5, <1>6, <1>7, <1>8, <1>9, <1>10, <1>11, <1>12 DEF AllFit, Listed

LEMMA CommandsFit == \A c \in DOMAIN Commands : Fits(c, Commands[c])
<1> SUFFICES ASSUME NEW c \in {e.path : e \in Listed}
             PROVE  Fits(c, (CHOOSE x \in Listed : x.path = c).steps)
  BY DEF Commands
<1>1. (CHOOSE x \in Listed : x.path = c) \in Listed /\ (CHOOSE x \in Listed : x.path = c).path = c
  OBVIOUS
<1> QED BY <1>1, EveryProgramFits DEF AllFit

-----------------------------------------------------------------------------
(* A command that runs *)

\* Step j has been taken, or is the one at which the command failed.
Reached(j) == j \in 1..Len(Program) /\ (j < stage \/ (j = stage /\ cli = "failed"))
Turning == {"aborted", "invalid", "refused", "unsupported"}

\* What is known of the steps that were taken.
CliInv ==
    /\ CliTypeOK
    /\ \A j \in 1..Len(Program) : j < stage =>
         /\ Program[j].do \in Finding => family \in Families
         /\ Program[j].do = "ask" => consent
         /\ Program[j].do = "call" => Program[j].op \in called
    /\ \A op \in called : \E j \in 1..Len(Program) :
         Reached(j) /\ Program[j].do \in Calling /\ Program[j].op = op
    /\ file => \E j \in 1..Len(Program) : Reached(j) /\ Program[j].do = "save"
    /\ cli \in Turning => /\ stage <= Len(Program)
                          /\ Program[stage].do \notin {"wait", "save"}

\* What a step that is taken does, and what a command does that ends at one.
StepTaken ==
    /\ stage <= Len(Program) /\ cli = "running" /\ cli' = cli
    /\ command' = command /\ stage' = stage + 1
    /\ IF Program[stage].do \in Finding THEN family' \in Families ELSE family' = family
    /\ consent' = consent \/ consent' = TRUE
    /\ Program[stage].do = "ask" => consent' = TRUE
    /\ IF Program[stage].do \in Calling
       THEN /\ Program[stage].op \in UNION {Facade[f] : f \in Families}
            /\ called' = called \cup {Program[stage].op}
       ELSE called' = called
    /\ file' = file \/ (file' = TRUE /\ Program[stage].do = "save")

StoppedHere ==
    /\ cli = "running" /\ command' = command /\ stage' = stage
    /\ cli' \in {"done", "aborted", "invalid", "refused", "unsupported", "failed"}
    /\ family' = family /\ consent' = consent
    /\ cli' \in Turning => stage <= Len(Program) /\ Program[stage].do \notin {"wait", "save"}
    /\ \/ called' = called
       \/ /\ cli' = "failed" /\ stage <= Len(Program) /\ Program[stage].do \in Calling
          /\ Program[stage].op \in UNION {Facade[f] : f \in Families}
          /\ called' = called \cup {Program[stage].op}
    /\ \/ file' = file
       \/ /\ cli' = "failed" /\ stage <= Len(Program) /\ Program[stage].do = "save"
          /\ file' \in BOOLEAN

LEMMA CliGoesOn ==
    ASSUME CliInv, Sound(Program), StepTaken
    PROVE  CliInv'
<1>1. /\ Len(Program) \in Nat /\ stage \in 1..Len(Program) /\ stage' = stage + 1
      /\ cli = "running" /\ cli' = "running" /\ Program' = Program /\ stage \in Nat
  BY DEF Program, Sound, CliInv, CliTypeOK, StepTaken
<1>2. CliTypeOK'
  <2>1. CliTypeOK
    BY DEF CliInv
  <2>2. cli' \in {"running", "done"} /\ command' \in DOMAIN Commands /\ stage' \in 1 .. Len(Program') + 1
    BY <1>1, <2>1 DEF CliTypeOK, StepTaken
  <2>3. family' \in Families \cup {"unknown"}
    BY <2>1 DEF CliTypeOK, StepTaken
  <2>4. consent' \in BOOLEAN /\ file' \in BOOLEAN
    BY <2>1 DEF CliTypeOK, StepTaken
  <2>5. called' \subseteq UNION {Facade[f] : f \in Families}
    BY <2>1 DEF CliTypeOK, StepTaken
  <2> QED BY <2>2, <2>3, <2>4, <2>5 DEF CliTypeOK
<1>3. \A j \in 1..Len(Program) : j < stage' =>
         /\ Program[j].do \in Finding => family' \in Families
         /\ Program[j].do = "ask" => consent'
         /\ Program[j].do = "call" => Program[j].op \in called'
  <2> SUFFICES ASSUME NEW j \in 1..Len(Program), j < stage'
               PROVE  /\ Program[j].do \in Finding => family' \in Families
                      /\ Program[j].do = "ask" => consent'
                      /\ Program[j].do = "call" => Program[j].op \in called'
    OBVIOUS
  <2>1. CASE j = stage
    BY <2>1 DEF StepTaken, Calling
  <2>2. CASE j < stage
    BY <2>2 DEF CliInv, StepTaken
  <2> QED BY <1>1, <2>1, <2>2
<1>4. \A j \in 1..Len(Program) : Reached(j) => Reached(j)'
  BY <1>1 DEF Reached
<1>5. \A j \in 1..Len(Program) : j = stage => Reached(j)'
  BY <1>1 DEF Reached
<1>6. \A op \in called' : \E j \in 1..Len(Program) :
         Reached(j)' /\ Program[j].do \in Calling /\ Program[j].op = op
  BY <1>1, <1>4, <1>5 DEF CliInv, StepTaken
<1>7. file' => \E j \in 1..Len(Program) : Reached(j)' /\ Program[j].do = "save"
  BY <1>1, <1>4, <1>5 DEF CliInv, StepTaken
<1>8. cli' \notin Turning
  BY <1>1 DEF Turning
<1> QED BY <1>1, <1>2, <1>3, <1>6, <1>7, <1>8 DEF CliInv

LEMMA CliEnds ==
    ASSUME CliInv, Sound(Program), StoppedHere
    PROVE  CliInv'
<1>1. /\ Len(Program) \in Nat /\ stage \in 1..Len(Program) + 1 /\ stage' = stage
      /\ cli = "running" /\ Program' = Program /\ stage \in Nat
  BY DEF Program, Sound, CliInv, CliTypeOK, StoppedHere
<1>2. CliTypeOK'
  BY <1>1 DEF CliInv, CliTypeOK, StoppedHere
<1>3. \A j \in 1..Len(Program) : Reached(j) => Reached(j)'
  BY <1>1 DEF Reached
<1>4. cli' = "failed" /\ stage <= Len(Program) => Reached(stage)' /\ stage \in 1..Len(Program)
  BY <1>1 DEF Reached
<1>5. \A op \in called' : \E j \in 1..Len(Program) :
         Reached(j)' /\ Program[j].do \in Calling /\ Program[j].op = op
  BY <1>1, <1>3, <1>4 DEF CliInv, StoppedHere
<1>6. file' => \E j \in 1..Len(Program) : Reached(j)' /\ Program[j].do = "save"
  BY <1>1, <1>3, <1>4 DEF CliInv, StoppedHere
<1>7. \A j \in 1..Len(Program) : j < stage' =>
         /\ Program[j].do \in Finding => family' \in Families
         /\ Program[j].do = "ask" => consent'
         /\ Program[j].do = "call" => Program[j].op \in called'
  BY <1>1 DEF CliInv, StoppedHere
<1>8. cli' \in Turning => stage' <= Len(Program) /\ Program[stage'].do \notin {"wait", "save"}
  BY <1>1 DEF StoppedHere
<1> QED BY <1>1, <1>2, <1>5, <1>6, <1>7, <1>8 DEF CliInv

\* A facade that has an operation is that of a device that was found.
LEMMA CalledIsKnown ==
    ASSUME CliInv, Sound(Program), Doing("call") \/ Doing("wait")
    PROVE  family \in Families /\ Facade[family] \subseteq UNION {Facade[f] : f \in Families}
<1>1. stage \in 1..Len(Program) /\ Program[stage].do \in Calling
  BY DEF Doing, Calling, CliInv, CliTypeOK, Sound
<1>2. PICK j \in 1..Len(Program) : j < stage /\ Program[j].do \in Finding
  BY <1>1 DEF Sound, FindsFirst
<1>3. family \in Families
  BY <1>2 DEF CliInv
<1> QED BY <1>3

\* What a step does with the family: it does not block the one that is found, and one at
\* which the command stops as unsupported blocks it.
StepSuits ==
    /\ StepTaken
    /\ family' \in Families => ~Blocks(Program[stage], family')
    /\ Program[stage].do \in Calling => Program[stage].op \in Facade[family]

StopSuits ==
    /\ StoppedHere
    /\ family \in Families /\ cli' = "unsupported" =>
         stage <= Len(Program) /\ Blocks(Program[stage], family)
    /\ cli' = "done" => stage > Len(Program) \/ Program[stage].do = "wait"
    /\ called' \subseteq called \cup {op \in {Program[stage].op} : op \in Facade[family]}

LEMMA StepsSuit ==
    ASSUME CliInv, Sound(Program), CliNext
    PROVE  StepSuits \/ StopSuits
<1> USE DEF Doing, Proceed, EndWith, Finding, Calling, Turning, StepTaken, StoppedHere,
            StepSuits, StopSuits, Blocks
<1>1. CASE Confirm
  BY <1>1 DEF Confirm
<1>2. CASE ReadInput
  BY <1>2 DEF ReadInput
<1>3. CASE FindTarget
  BY <1>3 DEF FindTarget, Families
<1>4. CASE CheckFamily
  BY <1>4 DEF CheckFamily
<1>5. CASE CallDevice
  BY <1>5, CalledIsKnown DEF CallDevice
<1>6. CASE WaitForDevice
  BY <1>6, CalledIsKnown DEF WaitForDevice
<1>7. CASE SaveFile
  BY <1>7 DEF SaveFile
<1>8. CASE Finish
  BY <1>8 DEF Finish
<1> QED BY <1>1, <1>2, <1>3, <1>4, <1>5, <1>6, <1>7, <1>8 DEF CliNext

LEMMA CliStep == CliInv /\ [CliNext]_cliVars => CliInv'
<1> SUFFICES ASSUME CliInv, [CliNext]_cliVars PROVE CliInv'
  OBVIOUS
<1>1. Sound(Program)
  BY CommandsAreSound DEF CliInv, CliTypeOK, Program
<1>2. CASE CliNext
  BY <1>1, <1>2, StepsSuit, CliGoesOn, CliEnds DEF StepSuits, StopSuits
<1>3. CASE UNCHANGED cliVars
  BY <1>3 DEF cliVars, CliInv, CliTypeOK, Reached, Program
<1> QED BY <1>2, <1>3

LEMMA CliInvHolds == CliSpec => []CliInv
<1>1. CliInit => CliInv
  <2> SUFFICES ASSUME CliInit PROVE CliInv
    OBVIOUS
  <2>1. Len(Program) \in Nat
    BY CommandsAreSound DEF CliInit, Program, Sound
  <2>2. CliTypeOK
    <3>1. called \subseteq UNION {Facade[f] : f \in Families}
      BY DEF CliInit
    <3>2. consent \in BOOLEAN /\ file \in BOOLEAN
      BY DEF CliInit
    <3>3. stage \in 1 .. Len(Program) + 1
      BY <2>1 DEF CliInit
    <3> QED BY <3>1, <3>2, <3>3 DEF CliInit, CliTypeOK
  <2>3. cli \notin Turning /\ called = {} /\ ~file /\ stage = 1
    BY DEF CliInit, Turning
  <2> QED BY <2>2, <2>3 DEF CliInv
<1> QED BY <1>1, CliStep, PTL DEF CliSpec

\* Nothing that erases or overwrites what a device holds is sent before the user agreed,
\* and a command that is turned back has changed neither the device nor a file.
THEOREM NothingIsErasedUnasked == CliSpec => []UntouchedUnlessAgreed
<1>1. CliInv => UntouchedUnlessAgreed
  <2> SUFFICES ASSUME CliInv PROVE UntouchedUnlessAgreed
    OBVIOUS
  <2>1. Sound(Program)
    BY CommandsAreSound DEF CliInv, CliTypeOK, Program
  <2>2. \A j \in 1..Len(Program) : Reached(j) => j <= stage /\ (cli \in Turning => j < stage)
    BY <2>1 DEF Reached, Turning, Sound, CliInv, CliTypeOK
  <2>3. ASSUME NEW op \in called, op \in Erasing PROVE consent
    <3>1. PICK j \in 1..Len(Program) : Reached(j) /\ Program[j].do \in Calling /\ Program[j].op = op
      BY DEF CliInv
    <3>2. PICK k \in 1..Len(Program) : k < j /\ Program[k].do = "ask"
      BY <2>1, <2>3, <3>1 DEF Sound, AsksFirst
    <3>3. k < stage
      BY <2>1, <2>2, <3>1, <3>2 DEF Sound, CliInv, CliTypeOK
    <3> QED BY <3>2, <3>3 DEF CliInv
  <2>4. ASSUME cli \in Turning PROVE called \subseteq Reads /\ ~file
    <3>1. /\ stage \in 1..Len(Program) /\ Program[stage].do \notin {"wait", "save"}
          /\ Len(Program) \in Nat
      BY <2>1, <2>4 DEF CliInv, CliTypeOK, Sound
    <3>2. \A j \in 1..Len(Program) : Reached(j) => j < stage
      BY <2>2, <2>4
    <3>3. called \subseteq Reads
      BY <2>1, <3>1, <3>2 DEF CliInv, Sound, GoesThrough
    <3>4. ~file
      BY <2>1, <3>1, <3>2 DEF CliInv, Sound, FetchesFirst
    <3> QED BY <3>3, <3>4
  <2>5. ASSUME file PROVE \E op \in called : op \in Fetching
    <3>1. PICK j \in 1..Len(Program) : Reached(j) /\ Program[j].do = "save"
      BY <2>5 DEF CliInv
    <3>2. PICK k \in 1..Len(Program) : k < j /\ Program[k].do = "call" /\ Program[k].op \in Fetching
      BY <2>1, <3>1 DEF Sound, FetchesFirst
    <3>3. k < stage
      BY <2>1, <2>2, <3>1, <3>2 DEF Sound, CliInv, CliTypeOK
    <3> QED BY <3>2, <3>3 DEF CliInv
  <2> QED BY <2>3, <2>4, <2>5 DEF UntouchedUnlessAgreed, Turning, Fetching
<1> QED BY <1>1, CliInvHolds, PTL

\* What is known of the family.
FamilyInv ==
    family \in Families =>
        /\ \A j \in 1..Len(Program) : j < stage => ~Blocks(Program[j], family)
        /\ called \subseteq Facade[family]
        /\ cli = "unsupported" => stage <= Len(Program) /\ Blocks(Program[stage], family)
        /\ cli = "done" => stage > Len(Program) \/ Program[stage].do = "wait"

LEMMA FamilyStep ==
    ASSUME CliInv, Sound(Program), FamilyInv, StepSuits \/ StopSuits
    PROVE  FamilyInv'
<1>1. /\ Len(Program) \in Nat /\ stage \in 1..Len(Program) + 1 /\ stage \in Nat /\ Program' = Program
      /\ cli = "running"
  BY DEF CliInv, CliTypeOK, Sound, Program, StepSuits, StopSuits, StepTaken, StoppedHere
<1>2. CASE StopSuits
  BY <1>1, <1>2 DEF StopSuits, StoppedHere, FamilyInv
<1>3. CASE StepSuits /\ Program[stage].do \notin Finding
  BY <1>1, <1>3 DEF StepSuits, StepTaken, FamilyInv
<1>4. CASE StepSuits /\ Program[stage].do \in Finding
  <2>1. stage \in 1..Len(Program) /\ stage' = stage + 1 /\ called' = called /\ cli' = "running"
    BY <1>1, <1>4 DEF StepSuits, StepTaken, Finding, Calling
  <2>2. \A j \in 1..Len(Program) : j < stage => Program[j].do \in {"ask", "input"}
    BY <1>4, <2>1 DEF Sound, FindsOnce
  <2>3. \A j \in 1..Len(Program) : j < stage => ~Blocks(Program[j], family')
    BY <2>2 DEF Blocks
  <2>4. called = {}
    BY <1>1, <2>2 DEF CliInv, Reached, Calling
  <2> QED BY <1>1, <1>4, <2>1, <2>3, <2>4 DEF StepSuits, FamilyInv
<1> QED BY <1>2, <1>3, <1>4

\* On a family that is not declared for a command, no operation that changes the device is
\* called and the command does not end well; on a declared one it is not refused as
\* unsupported, but for firmware upgrade --online on TKS-IP.
THEOREM DeclaredIsSupported == CliSpec => []SupportedAsDeclared
<1>1. CliInit => FamilyInv
  BY DEF CliInit, FamilyInv, Families
<1>2. CliInv /\ FamilyInv /\ [CliNext]_cliVars => FamilyInv'
  <2> SUFFICES ASSUME CliInv, FamilyInv, [CliNext]_cliVars PROVE FamilyInv'
    OBVIOUS
  <2>1. Sound(Program)
    BY CommandsAreSound DEF CliInv, CliTypeOK, Program
  <2>2. CASE CliNext
    BY <2>1, <2>2, StepsSuit, FamilyStep
  <2>3. CASE UNCHANGED cliVars
    BY <2>3 DEF cliVars, FamilyInv, Program
  <2> QED BY <2>2, <2>3
<1>3. CliInv /\ FamilyInv => SupportedAsDeclared
  <2> SUFFICES ASSUME CliInv, FamilyInv, family # "unknown" PROVE SupportedAsDeclared
    BY DEF SupportedAsDeclared
  <2>1. family \in Families /\ command \in DOMAIN Commands
    BY DEF CliInv, CliTypeOK
  <2>2. /\ Len(Program) \in Nat /\ stage \in Nat /\ stage >= 1
        /\ Suits(Program, Declared(command) \ Excepted(command))
    BY <2>1, CommandsAreSound, CommandsFit DEF CliInv, CliTypeOK, Program, Sound, Fits
  <2>3. ASSUME family \notin Declared(command) PROVE cli # "done" /\ called \subseteq Reads
    <3>1. TurnsBack(Program, family)
      BY <2>1, <2>2, <2>3 DEF Suits
    <3>2. PICK k \in 1..Len(Program) :
             /\ Blocks(Program[k], family)
             /\ \A j \in 1..Len(Program) :
                  /\ j <= k => Program[j].do # "wait"
                  /\ j < k /\ Program[j].do = "call" => Program[j].op \in Reads
      BY <3>1 DEF TurnsBack
    <3>3. k >= stage
      BY <2>1, <2>2, <3>2 DEF FamilyInv
    <3>4. cli # "done"
      <4>1. stage \in 1..Len(Program) /\ stage <= k
        BY <2>2, <3>3
      <4>2. Program[stage].do # "wait"
        BY <3>2, <4>1
      <4> QED BY <2>1, <2>2, <4>1, <4>2 DEF FamilyInv
    <3>5. ASSUME NEW op \in called PROVE op \in Reads
      <4>1. PICK j \in 1..Len(Program) : Reached(j) /\ Program[j].do \in Calling /\ Program[j].op = op
        BY <3>5 DEF CliInv
      <4>2. j <= k /\ Program[j].do = "call"
        BY <2>2, <3>2, <3>3, <4>1 DEF Reached, Calling
      <4>3. ~Blocks(Program[j], family)
        BY <2>1, <3>5, <4>1, <4>2 DEF FamilyInv, Blocks
      <4> QED BY <3>2, <4>1, <4>2, <4>3
    <3> QED BY <3>4, <3>5
  <2>4. ASSUME cli = "unsupported", family \in Declared(command)
        PROVE  command = <<"firmware", "upgrade", "--online">> /\ family = "tks-ip"
    <3>1. stage \in 1..Len(Program) /\ Blocks(Program[stage], family)
      BY <2>1, <2>2, <2>4 DEF FamilyInv, CliInv, CliTypeOK
    <3>2. family \in Excepted(command)
      BY <2>1, <2>2, <2>4, <3>1 DEF Suits, LetsThrough
    <3> QED BY <3>2 DEF Excepted
  <2> QED BY <2>3, <2>4 DEF SupportedAsDeclared
<1> QED BY <1>1, <1>2, <1>3, CliInvHolds, PTL DEF CliSpec

-----------------------------------------------------------------------------
(***************************************************************************)
(* Side by side.  A command that is at work does the steps of its part and *)
(* leaves the others alone; the specification that the run checks so       *)
(* implements each part, and what is proved of a part holds of it.         *)
(***************************************************************************)

\* The parts that this module is about, without their fairness.
BootSteppingSpec == BootInit /\ [][BootNext]_bootVars

LEMMA PartsBegin ==
    CommandsInit => /\ MonitorInit /\ StoreInit /\ ApiInit /\ ActInit /\ TailInit /\ BootInit
                    /\ CliInit /\ Init
BY DEF CommandsInit

LEMMA PartsStep ==
    [CommandsNext]_allVars =>
        /\ [MonitorNext]_monVars /\ [StoreNext]_storeVars /\ [ApiNext]_apiVars /\ [ActNext]_actVars
        /\ [TailNext]_tailVars /\ [BootNext]_bootVars /\ [CliNext]_cliVars /\ [Next]_vars
<1> SUFFICES ASSUME [CommandsNext]_allVars
             PROVE  /\ [MonitorNext]_monVars /\ [StoreNext]_storeVars /\ [ApiNext]_apiVars
                    /\ [ActNext]_actVars /\ [TailNext]_tailVars /\ [BootNext]_bootVars
                    /\ [CliNext]_cliVars /\ [Next]_vars
  OBVIOUS
<1>1. CASE UNCHANGED allVars
  BY <1>1 DEF allVars
<1>2. ASSUME NEW part, Only(part)
      PROVE  /\ part # "monitor" => UNCHANGED monVars
             /\ part # "config" => UNCHANGED storeVars
             /\ part # "api" => UNCHANGED apiVars
             /\ part # "activation" => UNCHANGED actVars
             /\ part # "logs" => UNCHANGED tailVars
             /\ part # "bootstrap" => UNCHANGED bootVars
             /\ part # "command" => UNCHANGED cliVars
             /\ part # "web" => UNCHANGED vars
  BY <1>2 DEF Only, Stays
<1>3. CASE CommandsNext
  BY <1>2, <1>3 DEF CommandsNext
<1> QED BY <1>1, <1>3

\* Whatever command runs, it behaves as its part alone does.
THEOREM EveryPartIsItself ==
    CommandsSpec => MonitorSpec /\ StoreSpec /\ ApiSpec /\ ActSpec /\ TailSpec /\ BootSteppingSpec
                    /\ CliSpec /\ Spec
BY PartsBegin, PartsStep, PTL DEF CommandsSpec, MonitorSpec, StoreSpec, ApiSpec, ActSpec, TailSpec,
   BootSteppingSpec, CliSpec, Spec

LEMMA MonitorTypesHold == MonitorSpec => []MonitorTypeOK
<1>1. MonitorInit => MonitorShape
  <2> SUFFICES ASSUME MonitorInit PROVE MonitorShape
    OBVIOUS
  <2>1. mon = "idle" /\ starts = 0 /\ process = "none" /\ told = "none" /\ files = {}
    BY DEF MonitorInit
  <2>2. handle \in BOOLEAN /\ password \in BOOLEAN /\ link \in BOOLEAN
    BY DEF MonitorInit
  <2> QED BY <2>1, <2>2 DEF MonitorShape
<1> QED BY <1>1, MonitorStepShape, WireInvHolds, MonitorTypes, PTL DEF MonitorSpec

LEMMA TailTypesHold == TailSpec => []TailTypeOK
<1>1. TailInit => TailShape
  BY TailBounds DEF TailInit, TailShape, Unseen
<1>2. TailShape => TailTypeOK
  BY DEF TailShape, TailTypeOK
<1> QED BY <1>1, <1>2, TailStepShape, PTL DEF TailSpec

\* Every variable of every part keeps the shape that its declaration says.
THEOREM CommandTypes == CommandsSpec => []CommandsTypeOK
<1>1. ApiInv => ApiTypeOK
  BY DEF ApiInv
<1>2. ActInv => ActTypeOK
  BY DEF ActInv
<1>3. BootInv => BootTypeOK
  BY DEF BootInv
<1>4. CliInv => CliTypeOK
  BY DEF CliInv
<1> QED BY <1>1, <1>2, <1>3, <1>4, EveryPartIsItself, MonitorTypesHold, StoreTypeCorrect, ApiInvHolds,
           ActInvHolds, TailTypesHold, BootInvHolds, CliInvHolds, PTL
        DEF CommandsTypeOK, BootSteppingSpec

-----------------------------------------------------------------------------
(***************************************************************************)
(* How far each command is from its end.  What TLC checks as liveness,     *)
(* EveryCommandEnds and PasswordLeavesDisk, needs besides that a command   *)
(* that can go on does.                                                    *)
(***************************************************************************)

\* Each command of a script takes five exchanges at most; a wait is one.
ExchangesLeft == [basic |-> 4, salt |-> 3, auth |-> 2, again |-> 1, wait |-> 1, over |-> 0]
ApiLeft == IF phase = "over" THEN 0 ELSE 5 * (Len(script) - step) + ExchangesLeft[phase]
ApiLeads == <<step, phase>>' # <<step, phase>> => ApiLeft' \in 0 .. ApiLeft - 1

\* A sleep lasts at least one unit of time, and there is none after the deadline.
TimeLeft == IF clock < Timeout THEN Timeout - clock ELSE 0
ActLeft == CASE act = "idle" -> 3 * Timeout + 5
             [] act = "hooked" -> 3 * Timeout + 4
             [] act = "polling" -> 3 * TimeLeft + 3
             [] act = "answered" -> 3 * TimeLeft + 2
             [] act = "sleeping" -> 3 * TimeLeft + 1
             [] OTHER -> 0
ActLeads == act' # act => ActLeft' \in 0 .. ActLeft - 1

BootOrder == [resolving |-> 6, network |-> 5, tks |-> 4, pulseLow |-> 3, pulseHigh |-> 2,
              weather |-> 1, reported |-> 0, refused |-> 0, aborted |-> 0, escaped |-> 0]
BootLeads == boot' # boot => /\ BootOrder[boot'] < BootOrder[boot]
                             /\ boot' = "aborted" => ~valid
                             /\ boot' = "escaped" => boot \in {"network", "weather"}

\* A call of start() begins anew; whatever else happens leads to the end of close().
MonOrder == [idle |-> 10, writing |-> 9, spawning |-> 8, dialling |-> 7, asking |-> 6,
             reading |-> 5, closing |-> 4, terminating |-> 3, killing |-> 2, over |-> 1,
             dropped |-> 0]
MonLeads == mon' # mon => StartMonitor \/ MonOrder[mon'] < MonOrder[mon]

LEMMA ScriptLeads == ApiInv /\ [ApiNext]_apiVars => [ApiLeads]_apiVars
<1> SUFFICES ASSUME ApiInv, ApiNext PROVE ApiLeads
  BY DEF ApiLeads, apiVars
<1>1. /\ step \in Nat /\ Len(script) \in Nat /\ step <= Len(script)
      /\ phase \in Exchanges => step < Len(script)
      /\ phase = "wait" => step = Len(script)
  BY ScriptsAreLists DEF ApiInv, ApiTypeOK
<1>2. CASE script' = script /\ phase' = "over" /\ phase # "over"
  BY <1>1, <1>2 DEF ApiLeads, ApiLeft, ExchangesLeft, ApiInv, ApiTypeOK, Exchanges
<1>3. ASSUME script' = script, step' = step, phase \in Exchanges, phase' \in Exchanges,
             ExchangesLeft[phase'] < ExchangesLeft[phase]
      PROVE  ApiLeads
  BY <1>1, <1>3 DEF ApiLeads, ApiLeft, ExchangesLeft, Exchanges
<1>4. CASE Executed
  <2>1. phase \in Exchanges /\ script' = script
    BY <1>4 DEF Executed, Sending, Exchanges
  <2>2. CASE phase' = "over"
    BY <1>2, <2>1, <2>2 DEF Exchanges
  <2>3. CASE step' = step + 1 /\ phase' = "basic" /\ step + 1 < Len(script)
    BY <1>1, <2>1, <2>3 DEF ApiLeads, ApiLeft, ExchangesLeft, Exchanges
  <2>4. CASE step' = step + 1 /\ phase' = "wait" /\ ~(step + 1 < Len(script))
    BY <1>1, <2>1, <2>4 DEF ApiLeads, ApiLeft, ExchangesLeft, Exchanges
  <2> QED BY <1>4, <2>2, <2>3, <2>4 DEF Executed, Answered, Fail
<1>5. CASE RefusedBasic \/ SaltGiven \/ Authenticated
  BY <1>3, <1>5 DEF RefusedBasic, SaltGiven, Authenticated, Exchanges, ExchangesLeft
<1>6. CASE ExchangeFails \/ SeenState \/ PollFails \/ WaitEnds
  BY <1>2, <1>6 DEF ExchangeFails, SeenState, PollFails, WaitEnds, Fail
<1>7. CASE JobGoesOn
  BY <1>7 DEF JobGoesOn, ApiLeads
<1> QED BY <1>4, <1>5, <1>6, <1>7 DEF ApiNext, ApiStep

LEMMA ActivationLeads == ActInv /\ [ActNext]_actVars => [ActLeads]_actVars
<1> SUFFICES ASSUME ActInv, ActNext, act' # act PROVE ActLeft' \in 0 .. ActLeft - 1
  BY DEF ActLeads, actVars
<1>1. clock \in Nat /\ Timeout \in Nat \ {0} /\ (act = "sleeping" => clock < Timeout)
  BY TimeAssumption DEF ActInv, ActTypeOK, DeadlineIsKept
<1>2. TimeLeft \in 0..Timeout
  BY <1>1 DEF TimeLeft
<1>3. PICK now \in Nat : clock' = now /\ now >= clock
  <2>1. clock' \in Nat
    BY <1>1, TimeAssumption
       DEF ActNext, ActStep, SendHook, HookReturns, HookLost, AnswerPoll, PollReturns, SleepOn,
           AppStarts, AppStops, PauseUpTo, Least
  <2>2. clock' >= clock
    BY <1>1, TimeAssumption
       DEF ActNext, ActStep, SendHook, HookReturns, HookLost, AnswerPoll, PollReturns, SleepOn,
           AppStarts, AppStops, PauseUpTo, Least
  <2> QED BY <2>1, <2>2
<1>4. TimeLeft' \in 0..TimeLeft
  BY <1>1, <1>3 DEF TimeLeft
<1>5. CASE SendHook \/ HookLost
  <2>1. act = "idle" /\ act' \in {"hooked", "transportError"}
    BY <1>5 DEF SendHook, HookLost
  <2> QED BY <1>1, <2>1 DEF ActLeft
<1>6. CASE HookReturns
  <2>1. act = "hooked" /\ act' \in {"polling", "transportError", "escaped"}
    BY <1>6 DEF HookReturns
  <2> QED BY <1>1, <1>2, <1>4, <2>1 DEF ActLeft
<1>7. CASE AnswerPoll
  <2>1. act = "polling" /\ act' = "answered"
    BY <1>7 DEF AnswerPoll
  <2> QED BY <1>2, <1>4, <2>1 DEF ActLeft
<1>8. CASE PollReturns
  <2>1. act = "answered" /\ act' \in {"sleeping", "timeout", "up", "protocolError", "escaped"}
    BY <1>8 DEF PollReturns, Onward
  <2> QED BY <1>2, <1>4, <2>1 DEF ActLeft
<1>9. CASE SleepOn
  <2>1. act = "sleeping" /\ act' = "polling" /\ clock' = clock + Least(Interval, Timeout - clock)
    BY <1>9 DEF SleepOn, PauseUpTo
  <2>2. now > clock
    BY <1>1, <1>3, <2>1, TimeAssumption DEF Least
  <2>3. TimeLeft' < TimeLeft
    BY <1>1, <1>3, <2>1, <2>2 DEF TimeLeft
  <2> QED BY <1>2, <1>4, <2>1, <2>3 DEF ActLeft
<1>10. CASE AppStarts \/ AppStops
  BY <1>10 DEF AppStarts, AppStops
<1> QED BY <1>5, <1>6, <1>7, <1>8, <1>9, <1>10 DEF ActNext, ActStep

LEMMA BootstrapLeads == [BootNext]_bootVars => [BootLeads]_bootVars
<1> SUFFICES ASSUME BootNext PROVE BootLeads
  BY DEF BootLeads, bootVars
<1>1. ASSUME NEW s \in BootSteps, NEW how, boot = s, Report(s, how)
      PROVE  BootLeads
  BY <1>1 DEF Report, After, BootLeads, BootOrder, BootSteps
<1>2. CASE Resolve
  BY <1>2 DEF Resolve, BootLeads, BootOrder
<1>3. ASSUME NEW s \in BootSteps, Skip(s) \/ Unsupported(s) \/ Fails(s)
      PROVE  BootLeads
  BY <1>1, <1>3 DEF Skip, Unsupported, Fails, Attempted
<1>4. CASE ConfigureNetwork \/ ConfigureWeather
  BY <1>1, <1>4 DEF ConfigureNetwork, ConfigureWeather, Attempted, BootSteps
<1>5. CASE InvalidNetwork
  BY <1>5 DEF InvalidNetwork, BootLeads, BootOrder
<1>6. CASE SetCredentials
  BY <1>1, <1>6 DEF SetCredentials, Attempted, BootSteps, BootLeads, BootOrder
<1>7. CASE Trigger
  BY <1>7 DEF Trigger, Pulse, Report, After, BootLeads, BootOrder
<1>8. ASSUME NEW s \in BootSteps, AnswerEscapes(s)
      PROVE  BootLeads
  BY <1>8 DEF AnswerEscapes, BootLeads, BootOrder
<1> QED BY <1>2, <1>3, <1>4, <1>5, <1>6, <1>7, <1>8 DEF BootNext

LEMMA MonitorLeads == [MonitorNext]_monVars => [MonLeads]_monVars
<1> SUFFICES ASSUME MonitorNext PROVE MonLeads
  BY DEF MonLeads, monVars
<1> USE DEF MonLeads, MonOrder
<1>1. CASE StartMonitor
  BY <1>1
<1>2. CASE WriteConfig \/ Spawn \/ Dial
  BY <1>2 DEF WriteConfig, Spawn, Dial
<1>3. CASE Receive
  BY <1>3 DEF Receive, Receiving, ReceiveInCommand, ReceiveInEvents
<1>4. CASE YieldKept \/ RecvTimesOut \/ ControlClosed
  BY <1>4 DEF YieldKept, RecvTimesOut, ControlClosed, Receiving
<1>5. CASE StopMonitor \/ CloseInterrupted \/ Dropped
  <2>1. \/ mon \in {"spawning", "dialling", "asking", "reading"} /\ mon' = "closing"
        \/ mon \in {"closing", "terminating", "killing"} /\ mon' = "over"
        \/ mon = "over" /\ mon' = "dropped"
    BY <1>5 DEF StopMonitor, CloseInterrupted, Dropped
  <2> QED BY <2>1
<1>6. CASE CloseMonitor \/ ProcessReaped \/ WaitTimesOut
  BY <1>6 DEF CloseMonitor, ProcessReaped, WaitTimesOut, Erased, Unheard, wire
<1>7. CASE BaresipExits \/ BaresipSends
  BY <1>7 DEF BaresipExits, BaresipSends
<1> QED BY <1>1, <1>2, <1>3, <1>4, <1>5, <1>6, <1>7 DEF MonitorNext, StartStep, ReadStep, CloseStep

\* Whatever command runs and whatever fails, a step that changes where it stands takes it
\* nearer to its end: a script sends a bounded number of requests (_post, upgrade), the
\* activation polls a bounded number of times (505-516), bootstrap does not go back, and without
\* a report it ends only for network options that are no addresses or a garbled answer in its
\* first or last step, never in the TKS step between (222-253); the monitor begins anew only
\* when start() is called.
THEOREM EveryCommandLeadsOn ==
    CommandsSpec => [][ApiLeads]_apiVars /\ [][ActLeads]_actVars /\ [][BootLeads]_bootVars
                    /\ [][MonLeads]_monVars
<1>1. ApiSpec => [][ApiLeads]_apiVars
  BY ScriptLeads, ApiInvHolds, PTL DEF ApiSpec
<1>2. ActSpec => [][ActLeads]_actVars
  BY ActivationLeads, ActInvHolds, PTL DEF ActSpec
<1>3. BootSteppingSpec => [][BootLeads]_bootVars
  BY BootstrapLeads, PTL DEF BootSteppingSpec
<1>4. MonitorSpec => [][MonLeads]_monVars
  BY MonitorLeads, PTL DEF MonitorSpec
<1> QED BY <1>1, <1>2, <1>3, <1>4, EveryPartIsItself, PTL

\* Where the file with the SIP password may be: not before start() writes it, nor once the
\* monitor reads events or is gone; and its content is then still known to the monitor, so
\* none is written after close() has erased it (_write_config, close).
PasswordIsGuarded ==
    "accounts" \in files =>
        password /\ mon \in {"spawning", "dialling", "closing", "terminating", "killing", "over"}

\* "Short-lived" (the comment in _write_config): whatever fails in start() or close(), the
\* monitor stands before a step that removes the file, or it gave up before that step and the
\* directory goes when the monitor does.
THEOREM PasswordIsShortLived == MonitorSpec => []PasswordIsGuarded
<1> USE DEF PasswordIsGuarded
<1>1. MonitorInit => PasswordIsGuarded
  BY DEF MonitorInit
<1>2. PasswordIsGuarded /\ [MonitorNext]_monVars => PasswordIsGuarded'
  <2> SUFFICES ASSUME PasswordIsGuarded, [MonitorNext]_monVars
               PROVE  PasswordIsGuarded'
    OBVIOUS
  <2> USE DEF disk, wire, child
  <2>1. CASE StartMonitor
    BY <2>1 DEF StartMonitor
  <2>2. CASE WriteConfig
    BY <2>2 DEF WriteConfig
  <2>3. CASE Spawn \/ Dial
    BY <2>3 DEF Spawn, Dial
  <2>4. CASE Receive
    BY <2>4 DEF Receive, Receiving, ReceiveInCommand, ReceiveInEvents
  <2>5. CASE YieldKept \/ RecvTimesOut \/ ControlClosed
    BY <2>5 DEF YieldKept, RecvTimesOut, ControlClosed, Receiving
  <2>6. CASE StopMonitor \/ CloseInterrupted \/ Dropped \/ WaitTimesOut
    BY <2>6 DEF StopMonitor, CloseInterrupted, Unheard, Dropped, WaitTimesOut
  <2>7. CASE CloseMonitor \/ ProcessReaped
    BY <2>7 DEF CloseMonitor, ProcessReaped, Erased, Unheard
  <2>8. CASE BaresipExits \/ BaresipSends \/ UNCHANGED monVars
    BY <2>8 DEF BaresipExits, BaresipSends, monVars
  <2> QED BY <2>1, <2>2, <2>3, <2>4, <2>5, <2>6, <2>7, <2>8
          DEF MonitorNext, StartStep, ReadStep, CloseStep
<1> QED BY <1>1, <1>2, PTL DEF MonitorSpec
=============================================================================
