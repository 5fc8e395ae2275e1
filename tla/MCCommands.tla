----------------------------- MODULE MCCommands -----------------------------
(***************************************************************************)
(* The parts of pygira that share no memory, side by side: the behaviours  *)
(* of this specification are those of each part by itself, `active` says   *)
(* of which one.  pygira runs one command per process, and each of these   *)
(* parts belongs to one command; the variables of the others do not move.  *)
(***************************************************************************)
EXTENDS BaresipMonitor, ConfigStore, ApiScript, TksActivation, LogTail, Bootstrap,
        CliCommands, MCTksWeb

CONSTANTS add1, add2, init, new

Parts == {"monitor", "config", "api", "activation", "logs", "bootstrap", "command", "web"}
VARIABLE active
allVars == <<active, monVars, storeVars, apiVars, actVars, tailVars, bootVars, cliVars, vars>>

(* Values of the constants *)

AddedDevices == add1 :> <<"home", "g1">> @@ add2 :> <<"home", "x1">>
OriginalDevices == {<<"home", "tks">>, <<"", "g1">>, <<"home", "tks_ip">>}
BareGateways == {<<"home", "tks_ip">>}

CommandLines ==
    {<<"enable", "start">>, <<"stop", "disable">>, <<"start-once">>, <<"reboot">>,
     <<"upload", "initlocalupload">>, <<"startonlineupdate">>}

\* tks configure and weather set check for a G1, set_ip is of G1 and X1.
StepsOf == "g1" :> BootSteps @@ "x1" :> {"network"} @@ "tks-ip" :> {}

-----------------------------------------------------------------------------
\* A part that does not move has one initial state.
Rests(part, state) == active = part \/ state

CommandsInit ==
    /\ active \in Parts
    /\ MonitorInit
    /\ StoreInit /\ Rests("config", store.kind = "absent")
    /\ ApiInit /\ Rests("api", script = <<"reboot">> /\ accepts = {} /\ job = "none")
    /\ ActInit /\ Rests("activation", app = "off")
    /\ TailInit /\ Rests("logs", present = {} /\ history = 0)
    /\ BootInit /\ Rests("bootstrap", target = "g1" /\ wanted = {} /\ valid /\ trigger = 0)
    /\ CliInit /\ Rests("command", command = <<"device", "info">> /\ ~consent)
    /\ Init /\ Rests("web", cache = 0)

Stays(part, variables) == IF active = part THEN TRUE ELSE UNCHANGED variables
Only(part) ==
    /\ active = part /\ UNCHANGED active
    /\ Stays("monitor", monVars) /\ Stays("config", storeVars) /\ Stays("api", apiVars)
    /\ Stays("activation", actVars) /\ Stays("logs", tailVars) /\ Stays("bootstrap", bootVars)
    /\ Stays("command", cliVars) /\ Stays("web", vars)

CommandsNext ==
    \/ Only("monitor") /\ MonitorNext
    \/ Only("config") /\ StoreNext
    \/ Only("api") /\ ApiNext
    \/ Only("activation") /\ ActNext
    \/ Only("logs") /\ TailNext
    \/ Only("bootstrap") /\ BootNext
    \/ Only("command") /\ CliNext
    \/ Only("web") /\ Next

(***************************************************************************)
(* The fairness of each part, MonitorFairness, ApiFairness, ActFairness,   *)
(* BootFairness and that of FairSpec.  Only one part moves, so conditions  *)
(* of different parts are put together.                                    *)
(***************************************************************************)
Fairness ==
    /\ WF_allVars(\/ Only("monitor") /\ StartStep
                  \/ Only("api") /\ ApiStep
                  \/ Only("activation") /\ ActStep
                  \/ Only("bootstrap") /\ BootNext
                  \/ Only("web") /\ Expire)
    /\ WF_allVars(\/ Only("monitor") /\ ReadStep
                  \/ Only("web") /\ FinishSaving)
    /\ WF_allVars(Only("monitor") /\ CloseStep)
    /\ WF_allVars(Only("monitor") /\ Dropped)
    /\ \A p \in Procs : /\ WF_allVars(Only("web") /\ Works(p))
                        /\ WF_allVars(Only("web") /\ Deadline(p))

CommandsSpec == CommandsInit /\ [][CommandsNext]_allVars /\ Fairness

-----------------------------------------------------------------------------
(* Properties, beside those of the parts *)

\* The variables of every part have the shapes their declarations say.
CommandsTypeOK ==
    MonitorTypeOK /\ StoreTypeOK /\ ApiTypeOK /\ ActTypeOK /\ TailTypeOK /\ BootTypeOK /\ CliTypeOK

\* Whatever command it is and whatever fails, it ends: the monitor once Baresip has exited,
\* a script of the web service, the activation, and bootstrap, with a report unless the
\* device was not resolved, the options are no addresses or an answer over HTTP was garbled
\* (baresip_monitor.py:347, api.py:222, config_service.py:505, bootstrap.py:222-253).
EveryCommandEnds ==
    /\ MonitorSettles /\ ActEnds
    /\ active = "api" => ApiEnds
    /\ active = "bootstrap" => BootEnds
=============================================================================
