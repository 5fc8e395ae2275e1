--------------------------- MODULE NetworkSettings ---------------------------
(***************************************************************************)
(* What set-ip and bootstrap do to a device's network settings: the        *)
(* options are merged with what the device reports (operations.py) and     *)
(* sent with setIpConfig (api.py).                                         *)
(*                                                                         *)
(* An address is a member of a set; NotGiven is the empty string, and an   *)
(* option that is not given.  A raw device info is a function on the keys  *)
(* that the firmware reports.                                              *)
(***************************************************************************)
EXTENDS FiniteSets

NotGiven == ""
Addresses == {"IpAddress", "SubnetMask", "DefaultGateway", "NameServer", "SecondaryDns"}

\* External: how a firmware reports its settings; older ones say PrimaryDNS, SecondaryDNS.
Modern == [f \in Addresses |-> f]
Older == [Modern EXCEPT !["NameServer"] = "PrimaryDNS", !["SecondaryDns"] = "SecondaryDNS"]
Reported(device, dialect, dropEmpty) ==
    LET shown == {f \in Addresses : ~(dropEmpty /\ device[f] = NotGiven)}
    IN [k \in {"Dhcp"} \cup {dialect[f] : f \in shown} |->
          IF k = "Dhcp" THEN device["Dhcp"]
          ELSE device[CHOOSE f \in shown : dialect[f] = k]]

\* _string_value: the first of the keys that is there.
Aliases == [f \in Addresses |-> CASE f = "NameServer" -> <<"NameServer", "PrimaryDNS">>
                                  [] f = "SecondaryDns" -> <<"SecondaryDns", "SecondaryDNS">>
                                  [] OTHER -> <<f, f>>]

\* Mistake: only the key of a current firmware is looked for.
FirstKey(source, keys) == IF keys[1] \in DOMAIN source THEN source[keys[1]] ELSE NotGiven

StringValue(source, keys) ==
    IF keys[1] \in DOMAIN source THEN source[keys[1]]
    ELSE IF keys[2] \in DOMAIN source THEN source[keys[2]] ELSE NotGiven

\* merge_network_config: patch.dhcp is "on", "off" or NotGiven.
Merge(current, patch) ==
    [k \in Addresses \cup {"Dhcp"} |->
        IF k = "Dhcp"
        THEN IF patch.dhcp = NotGiven THEN current["Dhcp"] ELSE patch.dhcp = "on"
        ELSE IF patch.addresses[k] # NotGiven THEN patch.addresses[k]
             ELSE StringValue(current, Aliases[k])]

\* set_ip_config: with DHCP nothing else is sent, a secondary DNS only if there is one.
Payload(cfg) ==
    LET sent == {"Dhcp"} \cup IF cfg["Dhcp"] THEN {}
                              ELSE {f \in Addresses : f # "SecondaryDns" \/ cfg[f] # NotGiven}
    IN [k \in sent |-> cfg[k]]

\* External: the device takes what the request names and leaves the rest.
Taken(device, request) ==
    [k \in DOMAIN device |-> IF k \in DOMAIN request THEN request[k] ELSE device[k]]

SetIp(device, dialect, dropEmpty, patch) ==
    Taken(device, Payload(Merge(Reported(device, dialect, dropEmpty), patch)))

-----------------------------------------------------------------------------
(* Properties *)

\* Setting some of the network settings leaves every other one as it was, whichever keys
\* the firmware reports and whether or not it reports the empty ones; and a device that
\* ends up without DHCP has every address that was given.  One that has DHCP
\* keeps its own (operations.py:12 "Optional network values to merge with a device snapshot").
OnlyWhatIsAskedChanges(device, dialect, dropEmpty, patch) ==
    LET after == SetIp(device, dialect, dropEmpty, patch)
    IN /\ after["Dhcp"] = IF patch.dhcp = NotGiven THEN device["Dhcp"] ELSE patch.dhcp = "on"
       /\ \A f \in Addresses :
            after[f] = IF patch.addresses[f] # NotGiven /\ ~after["Dhcp"]
                       THEN patch.addresses[f] ELSE device[f]
=============================================================================
