---------------------------- MODULE MCGdsSession ----------------------------
(***************************************************************************)
(* Instances of GdsSession for TLC.  a and b are two reads of the same     *)
(* datapoint (the two GetValue calls of get_tks_status made by two tasks), *)
(* c reads the other one, restart is fire-and-forget.                      *)
(***************************************************************************)
EXTENDS GdsSession

CONSTANTS a, b, c, restart

LOCAL Matching == INSTANCE GdsMatching
    WITH Fields <- {"command", "id", "urn"}, Names <- {"GetValue", "500003", "500004"},
         Nesting <- 1

GetValue(id) == Matching!Document([command |-> Matching!Scalar("GetValue"),
                                   id |-> Matching!Scalar(id)])
Payload == (a :> GetValue("500003")) @@ (b :> GetValue("500003")) @@ (c :> GetValue("500004"))

\* Echoes by name: the whole request, or its command only.
EchoText == [state |-> GetValue("500003"), reason |-> GetValue("500004"),
             command |-> Matching!Document([command |-> Matching!Scalar("GetValue")])]

AllEchoes == DOMAIN EchoText
FullEcho == [r \in Requests |-> IF r = c THEN {"reason"} ELSE {"state"}]
AnyEcho == [r \in Requests |-> FullEcho[r] \cup {"command"}]
MatchTable == [r \in Requests |->
    IF r \in DOMAIN Payload
    THEN {e \in Echoes : Matching!RequestsMatch(Payload[r], EchoText[e])}
    ELSE {}]
=============================================================================
