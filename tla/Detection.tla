----------------------------- MODULE Detection -----------------------------
(***************************************************************************)
(* How the family of a device is found out (src/pygira/core/detect.py): up *)
(* to four probes, of which the first that identifies anything decides.    *)
(*                                                                         *)
(* A text that a device reports is the set of families it mentions.  What  *)
(* a JSON probe meets is "failed", "invalid" or a record [marker, named,   *)
(* firmware]: the families in AppName or else KIM-FriendlyName, whether    *)
(* one of these has any text, and whether a firmware version is there.     *)
(***************************************************************************)
EXTENDS Naturals

Unknown == "unknown"

\* _classify: a mention of G1 comes before one of X1.
Classify(mentions) ==
    IF "g1" \in mentions THEN "g1" ELSE IF "x1" \in mentions THEN "x1" ELSE Unknown

\* Mistake: the name is not looked at when there is a firmware version.
FirmwareOnly(met) ==
    IF met.how # "answered" \/ ~met.firmware THEN {} ELSE {Classify(met.marker)}

\* _try_json_probe: an answer without any identity is passed over.
JsonProbe(met) ==
    IF met.how # "answered" \/ (~met.named /\ ~met.firmware) THEN {} ELSE {Classify(met.marker)}

\* _try_tks_ip_probe: the asset marker in the document on port 80.
TksProbe(page) == IF page = "tks asset" THEN {"tks-ip"} ELSE {}

\* get_device_xml and the four texts in it.
XmlProbe(met) == IF met.how # "answered" THEN {Unknown} ELSE {Classify(UNION met.texts)}

\* detect_device_type: [webservice, api, page, xml] is what the probes meet.
Detect(net) ==
    LET asked == <<JsonProbe(net.webservice), JsonProbe(net.api), TksProbe(net.page),
                   XmlProbe(net.xml)>>
        first == CHOOSE i \in DOMAIN asked :
                     asked[i] # {} /\ \A j \in DOMAIN asked : j < i => asked[j] = {}
    IN CHOOSE f \in asked[first] : TRUE

-----------------------------------------------------------------------------
(* Properties *)

Mentioned(net) ==
    UNION ({p.marker : p \in {q \in {net.webservice, net.api} : q.how = "answered"}}
           \cup IF net.xml.how = "answered" THEN net.xml.texts ELSE {})

\* A device of which all that is ever said names one family is never taken for another;
\* one that a JSON service identifies is never taken for a gateway because of what its
\* web page shows; and a device of which the only JSON service that answers names the
\* family is known, whatever else is missing in the answer (detect.py:115-148).
FamilyOfOneMind(net) ==
    LET f == Detect(net)
        services == {net.webservice, net.api}
    IN /\ \A g \in {"g1", "x1"} : Mentioned(net) = {g} => f \in {g, "tks-ip", Unknown}
       /\ f = "tks-ip" => \A p \in services : p.marker = {}
       /\ \A p \in services :
            (p.marker # {} /\ \A q \in services \ {p} : q.how # "answered") => f # Unknown
=============================================================================
