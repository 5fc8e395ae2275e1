----------------------------- MODULE Questions ------------------------------
(***************************************************************************)
(* The functions of pygira that keep no state, asked one question after    *)
(* the other would be: a behaviour is one question, built up in a few      *)
(* steps, and a property says what the functions answer to it.             *)
(***************************************************************************)
EXTENDS TargetResolution, Detection, DeviceBlob, NetworkSettings, TksDiagnostics,
        GdsMatching

CONSTANTS
    Universe,             \* the devices that may be configured
    CommandLines,         \* what a command line may say about its target
    Snapshots, Patches,   \* the addresses a device may have, and those it may be given
    MaxDepth, MaxLines,   \* how deep and how long the texts of DeviceBlob are
    MaxLog,               \* how long the logs of TksDiagnostics are
    Requests, Echoes      \* what may be sent to a GDS device, and what it may echo

VARIABLE question

\* A device has a family and an address, and is in a location that the file has or in none
\* (models.py:52-57, :124); what a prompt takes for an address is one (prompting.py:28).
ASSUME QuestionAssumption ==
    /\ IsFiniteSet(Universe) /\ IsFiniteSet(DOMAIN Display)
    /\ Universe \subseteq [location : {NoName} \cup DOMAIN Display, name : STRING,
                           type : Families, host : STRING \ {NoName},
                           secrets : SUBSET {"password", "admin_password"}]
    /\ CommandLines \subseteq [ip : STRING, password : BOOLEAN, name : STRING,
                               location : STRING, expect : Families \cup {NoName}]
    /\ NoName \notin Typed
    /\ Snapshots \subseteq [Addresses -> STRING] /\ Patches \subseteq [Addresses -> STRING]
    /\ MaxDepth \in Nat /\ MaxLines \in Nat /\ MaxLog \in Nat
    /\ \A doc \in Requests \cup Echoes : doc.kind = "object" /\ doc \in Json[Nesting]

Start == [about |-> "start"]
QuestionInit == question = Start

Asking(about) == question.about = about

-----------------------------------------------------------------------------
(* Target resolution *)

AskConfiguration ==
    /\ Asking("start")
    /\ \E file \in BOOLEAN : \E devices \in IF file THEN SUBSET Universe ELSE {{}} :
         question' = [about |-> "configuration", cfg |-> [file |-> file, devices |-> devices]]

AskTarget ==
    /\ Asking("configuration")
    /\ \E r \in CommandLines : question' = [about |-> "target", cfg |-> question.cfg, r |-> r]

\* A configured password is used with the address its device is configured with, unless
\* the user gave both an address and a selection; it is the password of a device the
\* selection means, and the device that answers is of the family it is configured as
\* (context.py:337-398).
PasswordsStayHome ==
    question.about = "target" =>
        LET r == question.r
            outcomes == ResolveLogin(question.cfg, r) \cup ResolveTksLogin(question.cfg, r)
        IN \A o \in {p \in outcomes : p.kind = "login" /\ p.secret.of = "device"} :
            LET d == o.secret.device
            IN /\ o.host = d.host \/ (r.ip # NoName /\ (r.name # NoName \/ r.location # NoName))
               /\ r.name # NoName => d.name = r.name
               /\ r.name # NoName /\ r.location # NoName =>
                    LocationsNamed(r.location) = {d.location}
               /\ r.expect = NoName => o.family = d.type
               /\ "password" \in d.secrets \/ d.type = "x1"

\* Nothing is guessed: a gateway that is taken from the configuration without a prompt is
\* the only one there that what the user said can mean, whether it gives a login, an
\* address or an AES key (context.py:233, :292).
NoGatewayIsGuessed ==
    question.about = "target" =>
        LET r == question.r
            gateways == {d \in question.cfg.devices : d.type = "tks-ip"}
            near == {d \in gateways : r.location = NoName
                                      \/ d.location \in LocationsNamed(r.location)}
        IN /\ r.name = NoName /\ SelectedTks(question.cfg, r).kind = "device" =>
                Cardinality(near) = 1
           /\ r.ip # NoName /\ r.name = NoName /\ r.location = NoName /\ ~r.password =>
                \A o \in ResolveTksLogin(question.cfg, r) :
                    o.kind = "login" /\ o.secret.of = "device" =>
                        {d \in gateways : d.host = r.ip} = {o.secret.device}
           /\ r.ip # NoName /\ FindTksAesKey(question.cfg, r.ip).kind = "device" =>
                Cardinality({d \in gateways : d.host = r.ip}) = 1

\* tail-logs, which resolves its target twice, follows the log of the device it found
\* first: the second login is at that address and with that device's password, also if
\* the device was chosen in a prompt (maintenance.py:770, :881-895).
LogsOfTheChosenDevice ==
    question.about = "target" =>
        \A target \in LogTargets(question.cfg, question.r) :
            \A o \in TailLogin(question.cfg, target) :
                o.kind = "login" =>
                    /\ target[2] # NoName => o.host = target[2]
                    /\ o.secret.of = "device" /\ question.r.ip = NoName =>
                         /\ o.secret.device.host = target[2]
                         /\ question.r.expect = NoName => o.family = target[1]

-----------------------------------------------------------------------------
(* The other functions *)

Mentions == SUBSET {"g1", "x1"}
Failed == [how |-> "failed", marker |-> {}, named |-> FALSE, firmware |-> FALSE]
JsonAnswers ==
    {Failed} \cup {a \in [how : {"answered"}, marker : Mentions, named : BOOLEAN,
                          firmware : BOOLEAN] : a.marker # {} => a.named}
XmlAnswers == {[how |-> "failed", texts |-> {}]} \cup [how : {"answered"}, texts : SUBSET Mentions]

Networks == [webservice : JsonAnswers, api : JsonAnswers,
             page : {"none", "other", "tks asset"}, xml : XmlAnswers]

AskDetection ==
    /\ Asking("start")
    /\ \E net \in Networks : question' = [about |-> "detection", net |-> net]

DetectionOfOneMind == question.about = "detection" => FamilyOfOneMind(question.net)

BlobLine == [depth : 0 .. MaxDepth, key : {"a", "b"}, val : {NoValue, "v", "w"}]

AskBlob ==
    \/ Asking("start") /\ question' = [about |-> "blob", lines |-> <<>>]
    \/ /\ Asking("blob") /\ Len(question.lines) < MaxLines
       /\ \E line \in BlobLine :
            question' = [about |-> "blob", lines |-> Append(question.lines, line)]

BlobSections == question.about = "blob" => BlobAgreesWithNesting(question.lines)

AskSettings ==
    /\ Asking("start")
    /\ \E addresses \in Snapshots, dhcp \in BOOLEAN, dialect \in {Modern, Older},
          dropEmpty \in BOOLEAN, patch \in Patches, mode \in {NotGiven, "on", "off"} :
         question' = [about |-> "settings", dialect |-> dialect, dropEmpty |-> dropEmpty,
                      device |-> [k \in Addresses \cup {"Dhcp"} |->
                                    IF k = "Dhcp" THEN dhcp ELSE addresses[k]],
                      patch |-> [dhcp |-> mode, addresses |-> patch]]

OnlyAskedSettingsChange ==
    question.about = "settings" =>
        OnlyWhatIsAskedChanges(question.device, question.dialect, question.dropEmpty,
                               question.patch)

\* The latest Year before the clock, so that New Year lies anywhere in a log, and the Day
\* after it, for lines written after the clock was read.
LogLine(reference) ==
    [at : reference - (Year - Day) + 1 .. reference + Day,
     says : HealthSigns \cup Labels]

AskLog ==
    \/ /\ Asking("start")
       /\ \E reference \in Year .. 2 * Year - 1 :
            question' = [about |-> "log", reference |-> reference, log |-> <<>>]
    \/ /\ Asking("log") /\ Len(question.log) < MaxLog
       /\ \E line \in LogLine(question.reference) :
            /\ \A i \in DOMAIN question.log : question.log[i].at <= line.at
            /\ question' = [question EXCEPT !.log = Append(@, line)]

GatewaySummary == question.about = "log" => AttentionWhenDue(question.log, question.reference)

AskMatch ==
    /\ Asking("start")
    /\ \E request \in Requests, echo \in Echoes :
         question' = [about |-> "match", request |-> request, echo |-> echo]

\* A response is taken for the answer to a request exactly if what it echoes of the
\* request's fields the request says, at every depth (gds.py:65-83).
AgreesWithPaths ==
    question.about = "match" =>
        (RequestsMatch(question.request, question.echo)
            <=> MatchesByPaths(question.request, question.echo))

-----------------------------------------------------------------------------

QuestionNext ==
    \/ AskConfiguration \/ AskTarget
    \/ AskDetection \/ AskBlob \/ AskSettings \/ AskLog \/ AskMatch

QuestionSpec == QuestionInit /\ [][QuestionNext]_question
=============================================================================
