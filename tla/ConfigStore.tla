---------------------------- MODULE ConfigStore -----------------------------
(***************************************************************************)
(* devices.toml under the commands of `pygira config`                      *)
(* (src/pygira/commands/config.py, load_config and PygiraConfig of         *)
(* models.py).  Each command is a process; they have nothing in common but *)
(* the file.  A command reads it whole, changes its copy, writes a         *)
(* temporary file beside it and renames that one over it.                  *)
(*                                                                         *)
(* A device is <<location, name>>, of which a file has at most one.        *)
(***************************************************************************)
EXTENDS Integers, FiniteSets

CONSTANTS
    Adders,    \* add-device commands, each run once
    AddOf,     \* the device each of them adds
    Inits,     \* init commands, each run once
    Forced,    \* those with --force
    Original,  \* the devices in the file before
    Bare       \* those of them that are a legacy tks_ip without a password

Writers == Adders \cup Inits
ASSUME StoreAssumption == Adders \cap Inits = {} /\ Forced \subseteq Inits /\ Bare \subseteq Original

Kinds == {"absent", "apartments", "tables", "invalid", "torn"}

VARIABLES
    store,     \* the file: what it is, and the devices in it
    cmd,       \* cmd[e]: where command e stands
    copy,      \* copy[e]: the configuration it has in memory
    temp,      \* temp[e]: its temporary file: "none", "open" or "synced"
    missed,    \* missed[e]: what others put into the file after e had read it
    recorded   \* the devices that somebody saved, now or before

storeVars == <<store, cmd, copy, temp, missed, recorded>>

StoreInit ==
    /\ store \in [kind : {"apartments", "tables", "invalid"}, devices : {Original}]
              \cup {[kind |-> "absent", devices |-> {}]}
    /\ cmd = [e \in Writers |-> "idle"]
    /\ copy = [e \in Writers |-> {}]
    /\ temp = [e \in Writers |-> "none"]
    /\ missed = [e \in Writers |-> {}]
    /\ recorded = IF store.kind \in {"apartments", "tables"} THEN Original \ Bare ELSE {}

Set(f, e, v) == [f EXCEPT ![e] = v]

-----------------------------------------------------------------------------
\* _normalize_legacy_apartments: the apartments become locations; a tks_ip without
\* a password cannot be a device.
Normalized(file) == IF file.kind = "apartments" THEN file.devices \ Bare ELSE file.devices

Readable == store.kind \in {"apartments", "tables"}

\* Mistake: the location is made anew.
InNewLocation(devices, device) == {d \in devices : d[1] # device[1]} \cup {device}
\* cfg.locations.setdefault(...).devices[name], or cfg.devices[name]
WithDevice(devices, device) == devices \cup {device}

\* add-device loads the file, or starts from nothing; what cannot be read is left alone.
LoadConfig(e) ==
    /\ cmd[e] = "idle"
    /\ \/ /\ Readable \/ store.kind = "absent"
          /\ cmd' = Set(cmd, e, "loaded")
          /\ copy' = Set(copy, e, WithDevice(Normalized(store), AddOf[e]))
       \/ /\ store.kind \in {"invalid", "torn"}
          /\ cmd' = Set(cmd, e, "failed") /\ UNCHANGED copy
    /\ UNCHANGED <<store, temp, missed, recorded>>

InitConfig(e) ==
    /\ cmd[e] = "idle"
    /\ cmd' = Set(cmd, e, IF store.kind # "absent" /\ e \notin Forced THEN "failed" ELSE "loaded")
    /\ UNCHANGED <<store, copy, temp, missed, recorded>>

-----------------------------------------------------------------------------
(* _write_config *)

MakeTemporary(e) ==
    /\ cmd[e] = "loaded" /\ temp[e] = "none"
    /\ temp' = Set(temp, e, "open")
    /\ UNCHANGED <<store, cmd, copy, missed, recorded>>

Sync(e) ==
    /\ cmd[e] = "loaded" /\ temp[e] = "open"
    /\ temp' = Set(temp, e, "synced")
    /\ UNCHANGED <<store, cmd, copy, missed, recorded>>

Put(e) ==
    /\ store' = [kind |-> IF temp[e] = "synced" THEN "tables" ELSE "torn", devices |-> copy[e]]
    /\ missed' = [w \in Writers |-> IF w # e /\ cmd[w] = "loaded"
                                    THEN missed[w] \cup (copy[e] \ Normalized(store)) ELSE missed[w]]
    /\ recorded' = IF e \in Adders THEN recorded \cup {AddOf[e]} ELSE recorded
    /\ cmd' = Set(cmd, e, "saved") /\ temp' = Set(temp, e, "none")
    /\ UNCHANGED copy

\* Mistake: the file is renamed before its contents are on disk.
ReplaceEarly(e) == cmd[e] = "loaded" /\ temp[e] # "none" /\ Put(e)
Replace(e) == cmd[e] = "loaded" /\ temp[e] = "synced" /\ Put(e)

\* An error or Ctrl-C: the temporary file is unlinked.
WriteFails(e) ==
    /\ cmd[e] = "loaded" /\ cmd' = Set(cmd, e, "failed")
    /\ temp' = Set(temp, e, "none")
    /\ UNCHANGED <<store, copy, missed, recorded>>

\* The process is killed: what is on disk stays.
Killed(e) ==
    /\ cmd[e] = "loaded" /\ cmd' = Set(cmd, e, "killed")
    /\ UNCHANGED <<store, copy, temp, missed, recorded>>

StoreNext ==
    \/ \E e \in Adders : LoadConfig(e)
    \/ \E e \in Inits : InitConfig(e)
    \/ \E e \in Writers : MakeTemporary(e) \/ Sync(e) \/ Replace(e) \/ WriteFails(e) \/ Killed(e)

StoreSpec == StoreInit /\ [][StoreNext]_storeVars

-----------------------------------------------------------------------------
\* Every variable of the store has the shape its declaration says.
StoreTypeOK ==
    LET Devices == Original \cup {AddOf[e] : e \in Adders} IN
    /\ store \in [kind : Kinds, devices : SUBSET Devices] /\ recorded \subseteq Devices
    /\ cmd \in [Writers -> {"idle", "loaded", "saved", "failed", "killed"}]
    /\ temp \in [Writers -> {"none", "open", "synced"}]
    /\ copy \in [Writers -> SUBSET Devices] /\ missed \in [Writers -> SUBSET Devices]

\* Whoever reads devices.toml finds a whole file, whichever command has just been
\* interrupted or killed, at whatever point of its write; and a command that ended by
\* itself leaves no temporary file with credentials (_write_config, config.py:97-114).
WritesAreAtomic ==
    /\ store.kind # "torn"
    /\ \A e \in Writers : temp[e] # "none" => cmd[e] \in {"loaded", "killed"}

\* A device that was saved, or was in the file before and can be represented, is
\* lost only to init --force or to a command that had read the file before the
\* device was in it: one command after the other loses nothing.
LostOnlyToOverlap ==
    \A d \in recorded \ store.devices :
        \E e \in Writers : cmd[e] = "saved" /\ (d \in missed[e] \/ e \in Forced)
=============================================================================
