--------------------------- MODULE QuestionProofs ---------------------------
(***************************************************************************)
(* What is proved about the functions without state: whose password goes   *)
(* where, which gateway is meant, what a detection concludes, what a       *)
(* change of the network settings leaves alone and which response belongs  *)
(* to a request, for any configuration, command line, answers, addresses   *)
(* and documents.                                                          *)
(***************************************************************************)
EXTENDS Questions, DataProofs, FiniteSetTheorems

Configurations == {c \in [file : BOOLEAN, devices : SUBSET Universe] : ~c.file => c.devices = {}}

\* Every question keeps to the inputs it is asked for.
TargetFits(q) ==
    /\ q.about = "configuration" => q.cfg \in Configurations
    /\ q.about = "target" => q.cfg \in Configurations /\ q.r \in CommandLines

SettingsFit(q) ==
    q.about = "settings" =>
        \E addresses \in Snapshots, dhcp \in BOOLEAN, patch \in Patches,
           mode \in {NotGiven, "on", "off"} :
            /\ q.dialect \in {Modern, Older} /\ q.dropEmpty \in BOOLEAN
            /\ q.device = [k \in Addresses \cup {"Dhcp"} |->
                              IF k = "Dhcp" THEN dhcp ELSE addresses[k]]
            /\ q.patch = [dhcp |-> mode, addresses |-> patch]

LinesFit(q) ==
    /\ q.about = "blob" => q.lines \in Seq(BlobLine)
    /\ q.about = "log" => /\ q.reference \in Nat /\ q.reference >= Year
                         /\ q.log \in Seq(LogLine(q.reference))

Fits(q) ==
    /\ "about" \in DOMAIN q
    /\ TargetFits(q) /\ SettingsFit(q) /\ LinesFit(q)
    /\ q.about = "detection" => q.net \in Networks
    /\ q.about = "match" => q.request \in Requests /\ q.echo \in Echoes

QuestionsFit == Fits(question)

THEOREM QuestionsKeepToInputs == QuestionSpec => []QuestionsFit
<1>1. QuestionInit => QuestionsFit
  BY DEF QuestionInit, QuestionsFit, Fits, TargetFits, SettingsFit, LinesFit, Start
<1>2. QuestionsFit /\ [QuestionNext]_question => QuestionsFit'
  <2> SUFFICES ASSUME QuestionsFit, [QuestionNext]_question
               PROVE  QuestionsFit'
    OBVIOUS
  <2>1. CASE AskConfiguration
    <3>1. PICK file \in BOOLEAN, devices \in SUBSET Universe :
             /\ ~file => devices = {}
             /\ question' = [about |-> "configuration",
                             cfg |-> [file |-> file, devices |-> devices]]
      BY <2>1 DEF AskConfiguration
    <3>2. question'.cfg \in Configurations
      BY <3>1 DEF Configurations
    <3> QED BY <3>1, <3>2 DEF QuestionsFit, Fits, TargetFits, SettingsFit, LinesFit
  <2>2. CASE AskTarget
    BY <2>2 DEF AskTarget, Asking, QuestionsFit, Fits, TargetFits, SettingsFit, LinesFit
  <2>3. CASE AskDetection
    BY <2>3 DEF AskDetection, QuestionsFit, Fits, TargetFits, SettingsFit, LinesFit
  <2>4. CASE AskBlob
    <3>1. question'.about = "blob" /\ "about" \in DOMAIN question'
      BY <2>4 DEF AskBlob
    <3>2. question'.lines \in Seq(BlobLine)
      <4>1. ASSUME Asking("blob"), NEW line \in BlobLine,
                   question' = [about |-> "blob", lines |-> Append(question.lines, line)]
            PROVE  question'.lines \in Seq(BlobLine)
        <5>1. question.lines \in Seq(BlobLine)
          BY <4>1 DEF Asking, QuestionsFit, Fits, LinesFit
        <5>2. question'.lines = Append(question.lines, line)
          BY <4>1
        <5> QED BY <5>1, <5>2, AppendProperties
      <4>2. ASSUME question' = [about |-> "blob", lines |-> <<>>]
            PROVE  question'.lines \in Seq(BlobLine)
        <5>1. question'.lines = <<>>
          BY <4>2
        <5> QED BY <5>1, EmptySeq
      <4> QED BY <2>4, <4>1, <4>2 DEF AskBlob
    <3> QED BY <3>1, <3>2 DEF QuestionsFit, Fits, TargetFits, SettingsFit, LinesFit
  <2>5. CASE AskSettings
    <3>1. PICK addresses \in Snapshots, dhcp \in BOOLEAN, dialect \in {Modern, Older},
              dropEmpty \in BOOLEAN, patch \in Patches, mode \in {NotGiven, "on", "off"} :
            question' = [about |-> "settings", dialect |-> dialect, dropEmpty |-> dropEmpty,
                         device |-> [k \in Addresses \cup {"Dhcp"} |->
                                       IF k = "Dhcp" THEN dhcp ELSE addresses[k]],
                         patch |-> [dhcp |-> mode, addresses |-> patch]]
      BY <2>5, Zenon DEF AskSettings
    <3> QED BY <3>1 DEF QuestionsFit, Fits, TargetFits, SettingsFit, LinesFit
  <2>6. CASE AskLog
    <3>1. ASSUME NEW reference \in Year .. 2 * Year - 1,
                 question' = [about |-> "log", reference |-> reference, log |-> <<>>]
          PROVE  QuestionsFit'
      <4>1. /\ "about" \in DOMAIN question' /\ question'.about = "log"
            /\ question'.reference = reference /\ question'.log = <<>>
        BY <3>1
      <4>2. reference \in Nat /\ reference >= Year
        BY DiagnosticSteps
      <4> QED BY <4>1, <4>2, EmptySeq DEF QuestionsFit, Fits, TargetFits, SettingsFit, LinesFit
    <3>2. ASSUME Asking("log"), NEW line \in LogLine(question.reference),
                 question' = [question EXCEPT !.log = Append(@, line)]
          PROVE  QuestionsFit'
      <4>1. /\ question.reference \in Nat /\ question.reference >= Year
            /\ question.log \in Seq(LogLine(question.reference))
            /\ "about" \in DOMAIN question /\ question.about = "log"
        BY <3>2 DEF Asking, QuestionsFit, Fits, LinesFit
      <4>2. /\ "about" \in DOMAIN question' /\ question'.about = "log"
            /\ question'.reference = question.reference
            /\ question'.log = Append(question.log, line)
        BY <3>2, <4>1
      <4>3. question'.log \in Seq(LogLine(question.reference))
        BY <4>1, <4>2, AppendProperties
      <4> QED BY <4>1, <4>2, <4>3 DEF QuestionsFit, Fits, TargetFits, SettingsFit, LinesFit
    <3> QED BY <2>6, <3>1, <3>2 DEF AskLog
  <2>7. CASE AskMatch
    BY <2>7 DEF AskMatch, QuestionsFit, Fits, TargetFits, SettingsFit, LinesFit
  <2>8. CASE UNCHANGED question
    BY <2>8 DEF QuestionsFit
  <2> QED BY <2>1, <2>2, <2>3, <2>4, <2>5, <2>6, <2>7, <2>8 DEF QuestionNext
<1> QED BY <1>1, <1>2, PTL DEF QuestionSpec

-----------------------------------------------------------------------------
(* One device, or none: what a selection and a prompt return *)

\* The outcomes of a resolution tell themselves apart.
LEMMA Kinds ==
    /\ Nothing.kind = "nothing" /\ Error.kind = "error"
    /\ \A d : Device(d).kind = "device" /\ Device(d).device = d
    /\ \A h : Address(h).kind = "address" /\ Address(h).host = h
    /\ \A d : Device(d) # Nothing /\ Device(d) # Error
    /\ Nothing # Error
BY DEF Nothing, Error, Device, Address

LEMMA OnlyOne ==
    ASSUME NEW S, Cardinality(S) = 1, IsFiniteSet(S)
    PROVE  S = {Only(S)}
<1>1. PICK x : S = {x}
  BY FS_Singleton
<1> QED BY <1>1 DEF Only

LEMMA ConfiguredFinite ==
    ASSUME NEW cfg \in Configurations, NEW S \in SUBSET cfg.devices
    PROVE  IsFiniteSet(S)
BY FS_Subset, QuestionAssumption DEF Configurations

LEMMA LocationsFinite == \A name : IsFiniteSet(LocationsNamed(name))
<1> TAKE name
<1>1. LocationsNamed(name) \subseteq DOMAIN Display
  BY DEF LocationsNamed
<1> QED BY <1>1, FS_Subset, QuestionAssumption

LEMMA TheLocation ==
    ASSUME NEW name, NEW k \in LocationsNamed(name), Cardinality(LocationsNamed(name)) = 1
    PROVE  LocationsNamed(name) = {k}
BY OnlyOne, LocationsFinite

\* _selected_device: a device of this name, in the one location that is meant.
LEMMA SelectedIsNamed ==
    ASSUME NEW cfg \in Configurations, NEW r
    PROVE  LET selected == SelectedDevice(cfg, r)
               d == selected.device
           IN /\ selected = Nothing <=> r.name = NoName
              /\ \/ selected = Nothing
                 \/ selected = Error
                 \/ /\ selected = Device(d) /\ d \in cfg.devices /\ d.name = r.name
                    /\ r.location # NoName => LocationsNamed(r.location) = {d.location}
                    /\ \A e \in cfg.devices :
                         r.location # NoName /\ e.name = r.name /\ e.location = d.location => e = d
<1> DEFINE named == {d \in cfg.devices : d.name = r.name}
           within == IF r.location = NoName
                     THEN IF \E d \in named : d.location = NoName
                          THEN {d \in named : d.location = NoName}
                          ELSE named
                     ELSE {d \in named : d.location \in LocationsNamed(r.location)}
<1>1. SelectedDevice(cfg, r) =
         IF r.name = NoName THEN Nothing
         ELSE IF ~cfg.file \/ Cardinality(within) # 1
                 \/ (r.location # NoName /\ Cardinality(LocationsNamed(r.location)) # 1)
              THEN Error
              ELSE Device(Only(within))
  BY Zenon DEF SelectedDevice
<1>2. within \subseteq named /\ named \subseteq cfg.devices
  OBVIOUS
<1>3. ASSUME Cardinality(within) = 1
      PROVE  within = {Only(within)}
  <2>1. IsFiniteSet(within)
    BY <1>2, ConfiguredFinite
  <2> QED BY <1>3, <2>1, OnlyOne
<1>4. ASSUME r.location # NoName, Cardinality(LocationsNamed(r.location)) = 1,
             NEW d \in within
      PROVE  LocationsNamed(r.location) = {d.location}
  <2>1. d.location \in LocationsNamed(r.location)
    BY <1>4
  <2> QED BY <1>4, <2>1, TheLocation
<1>5. CASE r.name = NoName
  BY <1>1, <1>5, Kinds
<1>6. CASE SelectedDevice(cfg, r) = Error /\ r.name # NoName
  BY <1>6, Kinds
<1>7. CASE SelectedDevice(cfg, r) # Error /\ r.name # NoName
  <2> DEFINE d == Only(within)
  <2>1. /\ SelectedDevice(cfg, r) = Device(d) /\ Cardinality(within) = 1
        /\ r.location # NoName => Cardinality(LocationsNamed(r.location)) = 1
    BY <1>1, <1>7, Zenon
  <2>2. within = {d}
    BY <2>1, <1>3
  <2>3. SelectedDevice(cfg, r).device = d
    BY <2>1, Kinds
  <2>4. r.location # NoName => LocationsNamed(r.location) = {d.location}
    BY <2>1, <2>2, <1>4
  <2>5. ASSUME NEW e \in cfg.devices, r.location # NoName, e.name = r.name,
               e.location = d.location
        PROVE  e = d
    <3>1. e \in within
      BY <2>4, <2>5
    <3> QED BY <3>1, <2>2
  <2>6. d \in cfg.devices /\ d.name = r.name
    BY <2>2, <1>2
  <2> HIDE DEF d
  <2> QED BY <1>7, <2>1, <2>3, <2>4, <2>5, <2>6, Kinds
<1> QED BY <1>5, <1>6, <1>7

\* The address does not matter to it.
LEMMA SameSelection ==
    ASSUME NEW cfg, NEW r, NEW q, q.name = r.name, q.location = r.location
    PROVE  SelectedDevice(cfg, q) = SelectedDevice(cfg, r)
<1> DEFINE named(x) == {d \in cfg.devices : d.name = x.name}
           within(x) == IF x.location = NoName
                        THEN IF \E d \in named(x) : d.location = NoName
                             THEN {d \in named(x) : d.location = NoName}
                             ELSE named(x)
                        ELSE {d \in named(x) : d.location \in LocationsNamed(x.location)}
<1>1. \A x : SelectedDevice(cfg, x) =
         IF x.name = NoName THEN Nothing
         ELSE IF ~cfg.file \/ Cardinality(within(x)) # 1
                 \/ (x.location # NoName /\ Cardinality(LocationsNamed(x.location)) # 1)
              THEN Error
              ELSE Device(Only(within(x)))
  BY Zenon DEF SelectedDevice
<1>2. named(q) = named(r)
  OBVIOUS
<1> HIDE DEF named
<1>3. within(q) = within(r)
  BY <1>2
<1> HIDE DEF within
<1> QED BY <1>1, <1>3

\* _prompt_configured_device: a device in a location, which is remembered, or an address.
LEMMA PromptedIsRemembered ==
    ASSUME NEW cfg \in Configurations, NEW r, NEW family, NEW c \in Prompted(cfg, r, family)
    PROVE  \/ c = <<Nothing, r>> \/ c = <<Error, r>>
           \/ \E h \in Typed : c = <<Address(h), r>>
           \/ \E d \in cfg.devices :
                 /\ c = <<Device(d), Remember(r, d)>> /\ d.location # NoName
                 /\ r.location # NoName => LocationsNamed(r.location) = {d.location}
                 /\ family # NoName => d.type = family
<1> DEFINE asked == IF family # NoName THEN family ELSE r.expect
           offered == {d \in cfg.devices : d.location # NoName /\ asked \in {NoName, d.type}}
           here == {d \in offered : d.location \in LocationsNamed(r.location)}
           chosen(S) == {<<Device(d), Remember(r, d)>> : d \in S}
<1>1. \/ c = <<Nothing, r>> \/ c = <<Error, r>>
      \/ /\ r.location # NoName /\ Cardinality(LocationsNamed(r.location)) = 1
         /\ c \in chosen(here)
      \/ r.location = NoName /\ c \in chosen(offered)
      \/ c \in {<<Address(h), r>> : h \in Typed}
  BY Zenon DEF Prompted
<1>2. ASSUME NEW d \in offered
      PROVE  d \in cfg.devices /\ d.location # NoName /\ (family # NoName => d.type = family)
  BY Zenon
<1>3. CASE /\ r.location # NoName /\ Cardinality(LocationsNamed(r.location)) = 1
           /\ c \in chosen(here)
  <2>1. PICK d \in here : c = <<Device(d), Remember(r, d)>>
    BY <1>3
  <2>2. LocationsNamed(r.location) = {d.location}
    BY <1>3, <2>1, TheLocation
  <2> QED BY <1>2, <2>1, <2>2, Zenon
<1>4. CASE r.location = NoName /\ c \in chosen(offered)
  <2>1. PICK d \in offered : c = <<Device(d), Remember(r, d)>>
    BY <1>4
  <2> QED BY <1>2, <1>4, <2>1, Zenon
<1> QED BY <1>1, <1>3, <1>4

\* A prompt that gives nothing gives nothing else.
LEMMA NothingIsAll ==
    ASSUME NEW cfg, NEW r, NEW family, NEW q, <<Nothing, q>> \in Prompted(cfg, r, family)
    PROVE  Prompted(cfg, r, family) = {<<Nothing, r>>}
<1> DEFINE asked == IF family # NoName THEN family ELSE r.expect
           offered == {d \in cfg.devices : d.location # NoName /\ asked \in {NoName, d.type}}
           here == {d \in offered : d.location \in LocationsNamed(r.location)}
           chosen(S) == {<<Device(d), Remember(r, d)>> : d \in S}
<1>1. Prompted(cfg, r, family) =
         IF ~cfg.file THEN {<<Nothing, r>>}
         ELSE IF r.location # NoName
              THEN IF Cardinality(LocationsNamed(r.location)) # 1 \/ here = {}
                   THEN {<<Error, r>>} ELSE chosen(here)
         ELSE IF offered = {} THEN {<<Nothing, r>>}
         ELSE chosen(offered) \cup {<<Address(h), r>> : h \in Typed}
  BY Zenon DEF Prompted
<1>2. \A S : <<Nothing, q>> \notin chosen(S)
  BY Kinds
<1>3. <<Nothing, q>> \notin {<<Error, r>>} /\ <<Nothing, q>> \notin {<<Address(h), r>> : h \in Typed}
  BY Kinds
<1> HIDE DEF offered, here, chosen
<1> QED BY <1>1, <1>2, <1>3

-----------------------------------------------------------------------------
(* resolve_login *)

\* The choice that a login is made of: as given, or a device that is named or prompted for.
Meant(cfg, r, choice, q) ==
    \/ choice = Error
    \/ choice = Nothing /\ q = r
    \/ q = r /\ r.name = NoName /\ r.ip = NoName /\ \E h \in Typed : choice = Address(h)
    \/ \E d \in cfg.devices :
          /\ choice = Device(d)
          /\ \/ /\ q = r /\ r.name # NoName /\ d.name = r.name
                /\ SelectedDevice(cfg, r) = Device(d)
                /\ r.location # NoName => LocationsNamed(r.location) = {d.location}
             \/ /\ q = Remember(r, d) /\ r.name = NoName /\ r.ip = NoName
                /\ d.location # NoName

LEMMA SelectionIsMeant ==
    ASSUME NEW cfg \in Configurations, NEW r, NEW c \in Selection(cfg, r)
    PROVE  Meant(cfg, r, c[1], c[2]) /\ (c[1] = Nothing => r.name = NoName)
<1> DEFINE selected == SelectedDevice(cfg, r)
<1>1. CASE selected = Nothing /\ r.ip = NoName
  <2>1. c \in Prompted(cfg, r, NoName) /\ r.name = NoName
    BY <1>1, SelectedIsNamed DEF Selection
  <2>2. ASSUME NEW d \in cfg.devices, c = <<Device(d), Remember(r, d)>>, d.location # NoName
        PROVE  Meant(cfg, r, c[1], c[2])
    BY <1>1, <2>1, <2>2 DEF Meant
  <2>3. ASSUME c = <<Nothing, r>> \/ c = <<Error, r>> \/ \E h \in Typed : c = <<Address(h), r>>
        PROVE  Meant(cfg, r, c[1], c[2])
    BY <1>1, <2>1, <2>3 DEF Meant
  <2>4. Meant(cfg, r, c[1], c[2])
    BY <2>1, <2>2, <2>3, PromptedIsRemembered
  <2> QED BY <2>1, <2>4
<1>2. CASE ~(selected = Nothing /\ r.ip = NoName)
  <2>1. c = <<selected, r>>
    BY <1>2 DEF Selection
  <2>2. c[1] = selected /\ c[2] = r
    BY <2>1
  <2>3. CASE selected = Nothing \/ selected = Error
    BY <2>2, <2>3, SelectedIsNamed, Kinds DEF Meant
  <2>4. CASE selected # Nothing /\ selected # Error
    <3> DEFINE d == selected.device
    <3>1. /\ selected = Device(d) /\ d \in cfg.devices /\ d.name = r.name /\ r.name # NoName
          /\ r.location # NoName => LocationsNamed(r.location) = {d.location}
      BY <2>4, SelectedIsNamed, Zenon
    <3> HIDE DEF d, selected
    <3> QED BY <2>2, <2>4, <3>1 DEF Meant, selected
  <2> QED BY <2>3, <2>4
<1> QED BY <1>1, <1>2

\* _device_login and the detection of the family.
LEMMA LoginNeedsPassword ==
    ASSUME NEW d, Login(d) # Error
    PROVE  "password" \in d.secrets \/ d.type = "x1"
BY DEF Login

LEMMA LoginsFit ==
    ASSUME NEW host, NEW secret, NEW expected, NEW o \in Logins(host, secret, expected),
           o.kind = "login"
    PROVE  /\ o.host = host /\ o.secret = secret /\ o.family \in Families
           /\ expected # NoName => o.family = expected
<1>1. o \in {[kind |-> "login", host |-> host, secret |-> secret, family |-> f] :
                f \in Profiles(expected)}
  BY Kinds DEF Logins
<1> QED BY <1>1 DEF Profiles

\* The login that a choice comes to.
LEMMA LoginOfChoice ==
    ASSUME NEW cfg \in Configurations, NEW r, NEW choice, NEW q, Meant(cfg, r, choice, q),
           NEW o \in LoginOf(q, choice), o.kind = "login"
    PROVE  \/ o.secret = Entered /\ (q.ip # NoName => o.host = q.ip)
           \/ \E d \in cfg.devices :
                 /\ choice = Device(d) /\ o.secret \in {Own(d), Entered} /\ Login(d) # Error
                 /\ o.host = IF q.ip # NoName THEN q.ip ELSE d.host
                 /\ q.expect = NoName => o.family = d.type
<1>1. CASE choice = Error
  <2>1. o = Error
    BY <1>1, Kinds DEF LoginOf
  <2> QED BY <2>1, Kinds
<1>2. CASE choice = Nothing
  <2>1. PICK h \in IF q.ip # NoName THEN {q.ip} ELSE Typed : o \in Logins(h, Entered, q.expect)
    BY <1>2, Kinds DEF LoginOf
  <2> QED BY <2>1, LoginsFit
<1>3. ASSUME NEW h \in Typed, choice = Address(h), q = r, r.ip = NoName
      PROVE  o.secret = Entered /\ (q.ip # NoName => o.host = q.ip)
  <2>1. o \in Logins(h, Entered, q.expect)
    BY <1>3, Kinds DEF LoginOf
  <2> QED BY <1>3, <2>1, LoginsFit
<1>4. ASSUME NEW d \in cfg.devices, choice = Device(d)
      PROVE  /\ o.secret \in {Own(d), Entered} /\ Login(d) # Error
             /\ o.host = IF q.ip # NoName THEN q.ip ELSE d.host
             /\ q.expect = NoName => o.family = d.type
  <2>1. LoginOf(q, choice) =
           IF Login(d) = Error THEN {Error}
           ELSE Logins(IF q.ip # NoName THEN q.ip ELSE d.host,
                       IF q.password THEN Entered ELSE Own(d),
                       IF q.expect # NoName THEN q.expect ELSE d.type)
    BY <1>4, Kinds DEF LoginOf
  <2>2. Login(d) # Error
    BY <2>1, Kinds
  <2>3. o \in Logins(IF q.ip # NoName THEN q.ip ELSE d.host,
                     IF q.password THEN Entered ELSE Own(d),
                     IF q.expect # NoName THEN q.expect ELSE d.type)
    BY <2>1, <2>2
  <2>4. d.type # NoName
    BY QuestionAssumption DEF Configurations, Families, NoName
  <2> QED BY <2>2, <2>3, <2>4, LoginsFit
<1> QED BY <1>1, <1>2, <1>3, <1>4, Zenon DEF Meant

LEMMA ResolvedLogin ==
    ASSUME NEW cfg \in Configurations, NEW r \in CommandLines,
           NEW o \in ResolveLogin(cfg, r), o.kind = "login", o.secret.of = "device"
    PROVE  \E d \in cfg.devices :
             /\ o.secret = Own(d) /\ ("password" \in d.secrets \/ d.type = "x1")
             /\ o.host = d.host \/ (r.ip # NoName /\ r.name # NoName)
             /\ r.name # NoName => d.name = r.name
             /\ r.name # NoName /\ r.location # NoName => LocationsNamed(r.location) = {d.location}
             /\ r.expect = NoName => o.family = d.type
<1>1. PICK c \in Selection(cfg, r) : o \in LoginOf(c[2], c[1])
  BY DEF ResolveLogin
<1>2. Meant(cfg, r, c[1], c[2])
  BY SelectionIsMeant
<1>3. o.secret # Entered
  BY DEF Entered
<1>4. PICK d \in cfg.devices :
         /\ c[1] = Device(d) /\ o.secret = Own(d) /\ Login(d) # Error
         /\ o.host = IF c[2].ip # NoName THEN c[2].ip ELSE d.host
         /\ c[2].expect = NoName => o.family = d.type
  BY <1>1, <1>2, <1>3, LoginOfChoice
<1>5. "password" \in d.secrets \/ d.type = "x1"
  BY <1>4, LoginNeedsPassword
<1>6. \/ /\ c[2] = r /\ r.name # NoName /\ d.name = r.name
         /\ r.location # NoName => LocationsNamed(r.location) = {d.location}
      \/ c[2] = Remember(r, d) /\ r.name = NoName /\ r.ip = NoName
  BY <1>2, <1>4, Kinds DEF Meant
<1>7. Remember(r, d).ip = r.ip /\ Remember(r, d).expect = r.expect
  BY QuestionAssumption DEF Remember
<1> QED BY <1>4, <1>5, <1>6, <1>7

-----------------------------------------------------------------------------
(* resolve_tks_login *)

LEMMA SelectedTksIsMeant ==
    ASSUME NEW cfg \in Configurations, NEW r, SelectedTks(cfg, r).kind = "device"
    PROVE  LET d == SelectedTks(cfg, r).device
               near == {e \in cfg.devices :
                          /\ e.type = "tks-ip"
                          /\ r.location = NoName \/ e.location \in LocationsNamed(r.location)}
           IN /\ SelectedTks(cfg, r) = Device(d) /\ d \in cfg.devices /\ d.type = "tks-ip"
              /\ r.name # NoName => d.name = r.name
              /\ r.name # NoName /\ r.location # NoName =>
                    LocationsNamed(r.location) = {d.location}
              /\ r.name = NoName => Cardinality(near) = 1
<1> DEFINE selected == SelectedDevice(cfg, r)
           near == {e \in cfg.devices :
                      /\ e.type = "tks-ip"
                      /\ r.location = NoName \/ e.location \in LocationsNamed(r.location)}
<1>1. CASE r.name # NoName
  <2>1. SelectedTks(cfg, r) = IF selected = Error \/ selected.device.type # "tks-ip"
                              THEN Error ELSE selected
    BY <1>1, Zenon DEF SelectedTks
  <2>2. /\ SelectedTks(cfg, r) = selected /\ selected # Error
        /\ selected.device.type = "tks-ip"
    BY <2>1, Kinds
  <2> HIDE DEF selected
  <2> QED BY <1>1, <2>2, SelectedIsNamed DEF selected
<1>2. CASE r.name = NoName
  <2>1. /\ SelectedTks(cfg, r) \in {Error, Nothing, Device(Only(near))}
        /\ SelectedTks(cfg, r) = Device(Only(near)) => Cardinality(near) = 1
    BY <1>2, Kinds DEF SelectedTks
  <2>2. SelectedTks(cfg, r) = Device(Only(near)) /\ Cardinality(near) = 1
    BY <2>1, Kinds
  <2>3. near = {Only(near)}
    BY <2>2, ConfiguredFinite, OnlyOne
  <2>4. Only(near) \in cfg.devices /\ Only(near).type = "tks-ip"
    BY <2>3
  <2>5. SelectedTks(cfg, r).device = Only(near)
    BY <2>2, Kinds
  <2> QED BY <1>2, <2>2, <2>4, <2>5
<1> QED BY <1>1, <1>2

\* _configured_tks_device
LEMMA ConfiguredIsTheOne ==
    ASSUME NEW cfg \in Configurations, NEW host, ConfiguredTks(cfg, host) # Nothing
    PROVE  LET d == ConfiguredTks(cfg, host).device
           IN /\ ConfiguredTks(cfg, host) = Device(d)
              /\ {e \in cfg.devices : e.type = "tks-ip" /\ e.host = host} = {d}
              /\ Cardinality({e \in cfg.devices : e.type = "tks-ip" /\ e.host = host}) = 1
<1> DEFINE there == {e \in cfg.devices : e.type = "tks-ip" /\ e.host = host}
<1>1. ConfiguredTks(cfg, host) = Device(Only(there)) /\ Cardinality(there) = 1
  BY Zenon DEF ConfiguredTks
<1>2. there = {Only(there)}
  BY <1>1, ConfiguredFinite, OnlyOne
<1>3. ConfiguredTks(cfg, host).device = Only(there)
  BY <1>1, Kinds
<1> QED BY <1>1, <1>2, <1>3

LEMMA ResolvedTksLogin ==
    ASSUME NEW cfg \in Configurations, NEW r \in CommandLines,
           NEW o \in ResolveTksLogin(cfg, r), o.kind = "login", o.secret.of = "device"
    PROVE  \E d \in cfg.devices :
             /\ o.secret = Own(d) /\ d.type = "tks-ip" /\ o.family = "tks-ip"
             /\ "password" \in d.secrets \/ d.type = "x1"
             /\ o.host = d.host \/ (r.ip # NoName /\ (r.name # NoName \/ r.location # NoName))
             /\ r.name # NoName => d.name = r.name
             /\ r.name # NoName /\ r.location # NoName => LocationsNamed(r.location) = {d.location}
             /\ r.ip # NoName /\ r.name = NoName /\ r.location = NoName =>
                  {e \in cfg.devices : e.type = "tks-ip" /\ e.host = r.ip} = {d}
<1>1. PICK choice \in TksChoices(cfg, r) : o \in TksLoginOf(r, choice)
  BY DEF ResolveTksLogin
<1>2. o.secret # Entered
  BY DEF Entered
<1> DEFINE login(host, secret) ==
              [kind |-> "login", secret |-> IF r.password THEN Entered ELSE secret,
               host |-> IF r.ip # NoName THEN r.ip ELSE host, family |-> "tks-ip"]
<1>3. /\ choice.kind = "device" /\ Login(choice.device) # Error
      /\ o = login(choice.device.host, Own(choice.device)) /\ ~r.password
  <2>1. TksLoginOf(r, choice) =
           CASE choice.kind = "error" -> {Error}
             [] choice.kind = "device" ->
                  IF Login(choice.device) = Error THEN {Error}
                  ELSE {login(choice.device.host, Own(choice.device))}
             [] choice.kind = "address" -> {login(choice.host, Entered)}
             [] OTHER -> {login(h, Entered) : h \in Typed}
    BY Zenon DEF TksLoginOf
  <2>2. \A h : login(h, Entered).secret = Entered
    OBVIOUS
  <2>3. o # Error
    BY Kinds
  <2>4. \A h, x : r.password => login(h, x).secret = Entered
    OBVIOUS
  <2>5. o \notin {login(h, Entered) : h \in Typed}
    BY <1>2, <2>2
  <2> HIDE DEF login
  <2> QED BY <1>1, <1>2, <2>1, <2>2, <2>3, <2>4, <2>5
<1> DEFINE d == choice.device
<1>4. /\ o.secret = Own(d) /\ o.family = "tks-ip"
      /\ o.host = IF r.ip # NoName THEN r.ip ELSE d.host
  BY <1>3
<1>5. "password" \in d.secrets \/ d.type = "x1"
  BY <1>3, LoginNeedsPassword
<1>6. CASE r.ip # NoName /\ r.name = NoName /\ r.location = NoName
  <2>1. choice = ConfiguredTks(cfg, r.ip) /\ choice # Nothing
    BY <1>3, <1>6, Kinds DEF TksChoices
  <2>2. {e \in cfg.devices : e.type = "tks-ip" /\ e.host = r.ip} = {d}
    BY <2>1, ConfiguredIsTheOne, Zenon
  <2>3. d \in cfg.devices /\ d.type = "tks-ip" /\ d.host = r.ip
    BY <2>2
  <2> HIDE DEF d
  <2> QED BY <1>4, <1>5, <1>6, <2>2, <2>3
<1>7. CASE ~(r.ip # NoName /\ r.name = NoName /\ r.location = NoName)
  <2>0. cfg \in Configurations
    OBVIOUS
  <2>1. choice \in SelectedOrPromptedTks(cfg, r)
    BY <1>3, <1>7, Kinds DEF TksChoices
  <2>2. /\ d \in cfg.devices /\ d.type = "tks-ip"
        /\ r.name # NoName => d.name = r.name
        /\ r.name # NoName /\ r.location # NoName => LocationsNamed(r.location) = {d.location}
    <3>1. CASE choice = SelectedTks(cfg, r)
      BY <1>3, <3>1, SelectedTksIsMeant
    <3>2. CASE choice # SelectedTks(cfg, r)
      <4>1. r.name = NoName /\ \E c \in Prompted(cfg, r, "tks-ip") : c[1] = choice
        BY <2>1, <3>2 DEF SelectedOrPromptedTks
      <4>2. PICK c \in Prompted(cfg, r, "tks-ip") : c[1] = choice
        BY <4>1
      <4>3. c # <<Nothing, r>> /\ c # <<Error, r>> /\ \A h \in Typed : c # <<Address(h), r>>
        BY <1>3, <4>2, Kinds
      <4>4. PICK e \in cfg.devices :
               c = <<Device(e), Remember(r, e)>> /\ e.type = "tks-ip"
        <5>1. "tks-ip" # NoName
          BY DEF NoName
        <5>2. \/ c = <<Nothing, r>> \/ c = <<Error, r>>
              \/ \E h \in Typed : c = <<Address(h), r>>
              \/ \E e \in cfg.devices : c = <<Device(e), Remember(r, e)>> /\ e.type = "tks-ip"
          BY <4>2, <5>1, PromptedIsRemembered
        <5> QED BY <4>3, <5>2, Zenon
      <4>5. choice = Device(e)
        BY <4>2, <4>4
      <4>6. d = e
        BY <4>5, Kinds
      <4> QED BY <4>1, <4>4, <4>6
    <3> QED BY <3>1, <3>2
  <2> HIDE DEF d
  <2> QED BY <1>4, <1>5, <1>7, <2>2
<1> QED BY <1>6, <1>7

-----------------------------------------------------------------------------
(* The properties about targets *)

\* No configured password leaves for another address than its device's, unless the user
\* named both (resolve_login, resolve_tks_login).
THEOREM PasswordsStay == QuestionSpec => []PasswordsStayHome
<1>1. QuestionsFit => PasswordsStayHome
  <2> SUFFICES ASSUME QuestionsFit, question.about = "target"
               PROVE  PasswordsStayHome
    BY DEF PasswordsStayHome
  <2> DEFINE cfg == question.cfg
             r == question.r
  <2>1. cfg \in Configurations /\ r \in CommandLines
    BY DEF QuestionsFit, Fits, TargetFits
  <2> HIDE DEF cfg, r
  <2>2. ASSUME NEW o \in ResolveLogin(cfg, r) \cup ResolveTksLogin(cfg, r),
               o.kind = "login", o.secret.of = "device"
        PROVE  LET d == o.secret.device
               IN /\ o.host = d.host \/ (r.ip # NoName /\ (r.name # NoName \/ r.location # NoName))
                  /\ r.name # NoName => d.name = r.name
                  /\ r.name # NoName /\ r.location # NoName =>
                       LocationsNamed(r.location) = {d.location}
                  /\ r.expect = NoName => o.family = d.type
                  /\ "password" \in d.secrets \/ d.type = "x1"
    <3>1. \A d : Own(d).device = d
      BY DEF Own
    <3>2. CASE o \in ResolveLogin(cfg, r)
      BY <2>1, <2>2, <3>1, <3>2, ResolvedLogin
    <3>3. CASE o \in ResolveTksLogin(cfg, r)
      BY <2>1, <2>2, <3>1, <3>3, ResolvedTksLogin
    <3> QED BY <2>2, <3>2, <3>3
  <2> QED BY <2>2, Zenon DEF PasswordsStayHome, cfg, r
<1> QED BY <1>1, QuestionsKeepToInputs, PTL

\* A gateway that is taken without a prompt is the only one that can be meant
\* (_selected_tks_device, _configured_tks_device).
THEOREM NoGuessing == QuestionSpec => []NoGatewayIsGuessed
<1>1. QuestionsFit => NoGatewayIsGuessed
  <2> SUFFICES ASSUME QuestionsFit, question.about = "target"
               PROVE  NoGatewayIsGuessed
    BY DEF NoGatewayIsGuessed
  <2> DEFINE cfg == question.cfg
             r == question.r
             gateways == {d \in cfg.devices : d.type = "tks-ip"}
             near == {d \in gateways : r.location = NoName
                                       \/ d.location \in LocationsNamed(r.location)}
  <2>1. cfg \in Configurations /\ r \in CommandLines
    BY DEF QuestionsFit, Fits, TargetFits
  <2> HIDE DEF cfg, r
  <2>2. ASSUME r.name = NoName, SelectedTks(cfg, r).kind = "device"
        PROVE  Cardinality(near) = 1
    <3>1. near = {e \in cfg.devices :
                    /\ e.type = "tks-ip"
                    /\ r.location = NoName \/ e.location \in LocationsNamed(r.location)}
      OBVIOUS
    <3> QED BY <2>1, <2>2, <3>1, SelectedTksIsMeant
  <2>3. \A host : {d \in gateways : d.host = host}
                   = {e \in cfg.devices : e.type = "tks-ip" /\ e.host = host}
    OBVIOUS
  <2>4. ASSUME r.ip # NoName, r.name = NoName, r.location = NoName,
               NEW o \in ResolveTksLogin(cfg, r), o.kind = "login", o.secret.of = "device"
        PROVE  {d \in gateways : d.host = r.ip} = {o.secret.device}
    <3>1. \A d : Own(d).device = d
      BY DEF Own
    <3> QED BY <2>1, <2>3, <2>4, <3>1, ResolvedTksLogin
  <2>5. ASSUME FindTksAesKey(cfg, r.ip).kind = "device"
        PROVE  Cardinality({d \in gateways : d.host = r.ip}) = 1
    BY <2>1, <2>3, <2>5, ConfiguredIsTheOne, Kinds DEF FindTksAesKey
  <2> QED BY <2>2, <2>4, <2>5, Zenon DEF NoGatewayIsGuessed, cfg, r
<1> QED BY <1>1, QuestionsKeepToInputs, PTL

\* What the first resolution of tail-logs knows, and what is remembered of it.
LEMMA FirstTarget ==
    ASSUME NEW cfg \in Configurations, NEW r \in CommandLines, NEW target \in LogTargets(cfg, r)
    PROVE  \/ /\ target[3] = r /\ r.name = NoName
              /\ r.ip # NoName => target[2] = r.ip
              /\ r.ip = NoName => \/ target[2] # NoName
                                  \/ target[2] = NoName /\ Prompted(cfg, r, NoName) = {<<Nothing, r>>}
           \/ \E d \in cfg.devices :
                 /\ target[1] = d.type /\ target[2] = IF r.ip # NoName THEN r.ip ELSE d.host
                 /\ \/ /\ target[3] = r /\ r.name # NoName
                       /\ SelectedDevice(cfg, r) = Device(d)
                    \/ /\ target[3] = Remember(r, d) /\ r.name = NoName /\ r.ip = NoName
                       /\ d.location # NoName
<1> DEFINE at(h) == IF r.ip # NoName THEN r.ip ELSE h
           some(S, q) == (IF q.expect # NoName THEN {q.expect} ELSE Families) \X S \X {q}
           known(f, q) ==
             CASE f.kind = "error" -> {}
               [] f.kind = "device" -> {<<f.device.type, at(f.device.host), q>>}
               [] f.kind = "address" -> some({f.host}, q)
               [] f.kind = "nothing" ->
                    IF r.ip # NoName \/ q.expect # NoName THEN some({r.ip}, q) ELSE some(Typed, q)
<1>0. PICK c \in Selection(cfg, r) : target \in known(c[1], c[2])
  BY Zenon DEF LogTargets
<1>1. \A S, q : target \in some(S, q) => target[2] \in S /\ target[3] = q
  OBVIOUS
<1> HIDE DEF some
<1>2. Meant(cfg, r, c[1], c[2]) /\ (c[1] = Nothing => r.name = NoName)
  BY SelectionIsMeant
<1>3. ASSUME NEW d \in cfg.devices, c[1] = Device(d)
      PROVE  target = <<d.type, at(d.host), c[2]>>
  <2>1. known(c[1], c[2]) = {<<d.type, at(d.host), c[2]>>}
    BY <1>3, Kinds
  <2> QED BY <1>0, <2>1
<1>4. ASSUME NEW h \in Typed, c[1] = Address(h)
      PROVE  target[2] = h /\ target[3] = c[2]
  <2>1. known(c[1], c[2]) = some({h}, c[2])
    BY <1>4, Kinds
  <2> HIDE DEF known
  <2> QED BY <1>0, <1>1, <2>1
<1>5. CASE c[1] = Nothing
  <2>1. \/ target[2] = r.ip /\ target[3] = c[2]
        \/ target[2] \in Typed /\ target[3] = c[2] /\ r.ip = NoName
    <3>1. known(c[1], c[2]) = IF r.ip # NoName \/ c[2].expect # NoName
                              THEN some({r.ip}, c[2]) ELSE some(Typed, c[2])
      BY <1>5, Kinds
    <3> HIDE DEF known
    <3> QED BY <1>0, <1>1, <3>1
  <2>2. c[2] = r
    BY <1>2, <1>5, Kinds DEF Meant
  <2>3. r.ip = NoName => Prompted(cfg, r, NoName) = {<<Nothing, r>>}
    <3>1. SUFFICES ASSUME r.ip = NoName
                   PROVE  \E q : <<Nothing, q>> \in Prompted(cfg, r, NoName)
      BY NothingIsAll
    <3>2. SelectedDevice(cfg, r) = Nothing
      BY <1>2, <1>5, SelectedIsNamed
    <3>3. c \in Prompted(cfg, r, NoName)
      BY <3>1, <3>2 DEF Selection
    <3>4. c = <<c[1], c[2]>>
      <4> QED BY <3>3, PromptedIsRemembered
    <3> QED BY <1>5, <3>3, <3>4
  <2> QED BY <1>2, <1>5, <2>1, <2>2, <2>3, QuestionAssumption
<1>6. CASE c[1] # Nothing
  <2>1. ASSUME c[1] = Error
        PROVE  FALSE
    <3>1. known(c[1], c[2]) = {}
      BY <2>1, Kinds
    <3> QED BY <1>0, <3>1
  <2> QED BY <1>2, <1>3, <1>4, <1>6, <2>1, QuestionAssumption DEF Meant
<1> QED BY <1>5, <1>6

\* The login that follows.
LEMMA SecondLogin ==
    ASSUME NEW cfg \in Configurations, NEW r \in CommandLines, NEW target \in LogTargets(cfg, r),
           NEW o \in TailLogin(cfg, target), o.kind = "login"
    PROVE  /\ target[2] # NoName => o.host = target[2]
           /\ o.secret.of = "device" /\ r.ip = NoName =>
                /\ o.secret.device.host = target[2]
                /\ r.expect = NoName => o.family = target[1]
<1> DEFINE q == [target[3] EXCEPT !.ip = IF target[2] # NoName THEN target[2] ELSE @]
<1>1. CASE target[1] = "tks-ip"
  <2>1. PICK h \in ResolveTksIp(cfg, q) :
           o = [kind |-> "login", host |-> h, secret |-> Entered, family |-> "tks-ip"]
    BY <1>1 DEF TailLogin
  <2>2. o.host = h /\ o.secret.of # "device"
    BY <2>1 DEF Entered
  <2>3. target[3] = r \/ \E d : target[3] = Remember(r, d)
    BY FirstTarget
  <2>4. target[2] # NoName => q.ip = target[2]
    BY <2>3, QuestionAssumption DEF Remember
  <2>5. target[2] # NoName => h = target[2]
    BY <2>1, <2>4 DEF ResolveTksIp
  <2> QED BY <2>2, <2>5
<1>2. CASE target[1] # "tks-ip"
  <2>1. PICK c \in Selection(cfg, q) : o \in LoginOf(c[2], c[1])
    BY <1>2 DEF TailLogin, ResolveLogin
  <2>2. Meant(cfg, q, c[1], c[2])
    BY SelectionIsMeant
  <2>3. c[1] # Error
    BY <2>1, Kinds DEF LoginOf
  <2>4. r \in [ip : STRING, password : BOOLEAN, name : STRING, location : STRING,
               expect : Families \cup {NoName}]
    BY QuestionAssumption
  <2>5. /\ q.name = target[3].name /\ q.location = target[3].location
        /\ q.expect = target[3].expect /\ target[3].expect = r.expect /\ target[3].ip = r.ip
        /\ q.ip = IF target[2] # NoName THEN target[2] ELSE r.ip
        /\ \A d : Remember(q, d).ip = q.ip /\ Remember(q, d).expect = q.expect
        /\ target[3] = r /\ target[2] = NoName => q = r
    <3>1. target[3] = r \/ \E d : target[3] = Remember(r, d)
      BY FirstTarget
    <3>2. CASE target[3] = r
      BY <2>4, <3>2 DEF Remember
    <3>3. CASE target[3] # r
      <4>1. PICK d : target[3] = Remember(r, d)
        BY <3>1, <3>3
      <4> QED BY <2>4, <3>3, <4>1 DEF Remember
    <3> QED BY <3>2, <3>3
  <2> HIDE DEF q
  <2>6. c[2].ip = q.ip /\ c[2].expect = q.expect
    BY <2>2, <2>3, <2>5 DEF Meant
  <2>7. target[2] # NoName => o.host = target[2]
    BY <2>1, <2>2, <2>5, <2>6, LoginOfChoice, QuestionAssumption DEF Configurations
  <2>8. ASSUME o.secret.of = "device", r.ip = NoName
        PROVE  /\ o.secret.device.host = target[2]
               /\ r.expect = NoName => o.family = target[1]
    <3>1. o.secret # Entered
      BY <2>8 DEF Entered
    <3>2. PICK d \in cfg.devices :
             /\ c[1] = Device(d) /\ o.secret \in {Own(d), Entered}
             /\ c[2].expect = NoName => o.family = d.type
      BY <2>1, <2>2, <3>1, LoginOfChoice
    <3>3. o.secret.device = d
      BY <3>1, <3>2 DEF Own
    <3>4. CASE target[3] = r /\ r.name = NoName
      <4>1. q.name = NoName
        BY <2>5, <3>4
      <4>2. q.ip = NoName
        BY <2>2, <3>2, <4>1, Kinds DEF Meant
      <4>3. target[2] = NoName /\ q = r
        BY <2>5, <3>4, <4>2
      <4>4. Prompted(cfg, r, NoName) = {<<Nothing, r>>}
        <5>1. \A e \in cfg.devices : e.host # NoName
          BY QuestionAssumption DEF Configurations
        <5> QED BY <2>8, <3>4, <4>3, <5>1, FirstTarget
      <4>5. SelectedDevice(cfg, r) = Nothing
        BY <3>4, SelectedIsNamed
      <4>6. c = <<Nothing, r>>
        BY <2>8, <4>3, <4>4, <4>5 DEF Selection
      <4> QED BY <3>2, <4>6, Kinds
    <3>5. ASSUME NEW e \in cfg.devices, target[1] = e.type, target[2] = e.host,
                 \/ target[3] = r /\ SelectedDevice(cfg, r) = Device(e)
                 \/ target[3] = Remember(r, e) /\ e.location # NoName
          PROVE  d = e
      <4>1. /\ e.host # NoName
            /\ e.location \in {NoName} \cup DOMAIN Display
        BY QuestionAssumption DEF Configurations
      <4>2. q.ip # NoName
        BY <2>5, <3>5, <4>1
      <4>3. c[1] = SelectedDevice(cfg, q)
        BY <4>2 DEF Selection
      <4>4. CASE target[3] = r /\ SelectedDevice(cfg, r) = Device(e)
        <5>1. SelectedDevice(cfg, q) = SelectedDevice(cfg, r)
          BY <2>5, <4>4, SameSelection
        <5>2. Device(d) = Device(e)
          BY <3>2, <4>3, <4>4, <5>1
        <5> QED BY <5>2, Kinds
      <4>5. CASE target[3] = Remember(r, e) /\ e.location # NoName
        <5>1. q.name = e.name /\ q.location = e.location
          BY <2>4, <2>5, <4>5 DEF Remember
        <5>2. LocationsNamed(q.location) = {e.location}
          BY <4>1, <4>5, <5>1 DEF LocationsNamed
        <5>3. SelectedDevice(cfg, q) = Device(d) /\ SelectedDevice(cfg, q).device = d
          BY <3>2, <4>3, Kinds
        <5>4. /\ LocationsNamed(q.location) = {d.location}
              /\ e.name = q.name /\ e.location = d.location => e = d
          BY <4>5, <5>1, <5>3, SelectedIsNamed, Kinds
        <5> QED BY <5>1, <5>2, <5>4
      <4> QED BY <3>5, <4>4, <4>5
    <3>6. CASE \E e \in cfg.devices :
                  /\ target[1] = e.type /\ target[2] = e.host
                  /\ \/ target[3] = r /\ SelectedDevice(cfg, r) = Device(e)
                     \/ target[3] = Remember(r, e) /\ e.location # NoName
      BY <2>5, <2>6, <3>2, <3>3, <3>5, <3>6
    <3> QED BY <2>8, <3>4, <3>6, FirstTarget
  <2> QED BY <2>7, <2>8
<1> QED BY <1>1, <1>2

\* tail-logs logs in where it looked for the log first (_log_target, tail_logs).
THEOREM LogsStayWithDevice == QuestionSpec => []LogsOfTheChosenDevice
<1>1. QuestionsFit => LogsOfTheChosenDevice
  <2> SUFFICES ASSUME QuestionsFit, question.about = "target"
               PROVE  LogsOfTheChosenDevice
    BY DEF LogsOfTheChosenDevice
  <2> DEFINE cfg == question.cfg
             r == question.r
  <2>1. cfg \in Configurations /\ r \in CommandLines
    BY DEF QuestionsFit, Fits, TargetFits
  <2> HIDE DEF cfg, r
  <2>2. ASSUME NEW target \in LogTargets(cfg, r), NEW o \in TailLogin(cfg, target), o.kind = "login"
        PROVE  /\ target[2] # NoName => o.host = target[2]
               /\ o.secret.of = "device" /\ r.ip = NoName =>
                    /\ o.secret.device.host = target[2]
                    /\ r.expect = NoName => o.family = target[1]
    BY <2>1, <2>2, SecondLogin
  <2> QED BY <2>2, Zenon DEF LogsOfTheChosenDevice, cfg, r
<1> QED BY <1>1, QuestionsKeepToInputs, PTL

-----------------------------------------------------------------------------
(* Detection *)

\* The first probe that identifies anything.
LEMMA FirstProbe ==
    ASSUME NEW net
    PROVE  Detect(net) \in
             IF JsonProbe(net.webservice) # {} THEN JsonProbe(net.webservice)
             ELSE IF JsonProbe(net.api) # {} THEN JsonProbe(net.api)
             ELSE IF TksProbe(net.page) # {} THEN TksProbe(net.page)
             ELSE XmlProbe(net.xml)
<1> DEFINE asked == <<JsonProbe(net.webservice), JsonProbe(net.api), TksProbe(net.page),
                      XmlProbe(net.xml)>>
           IsFirst(i) == asked[i] # {} /\ \A j \in DOMAIN asked : j < i => asked[j] = {}
           first == CHOOSE i \in DOMAIN asked : IsFirst(i)
<1>1. /\ DOMAIN asked = {1, 2, 3, 4}
      /\ asked[1] = JsonProbe(net.webservice) /\ asked[2] = JsonProbe(net.api)
      /\ asked[3] = TksProbe(net.page) /\ asked[4] = XmlProbe(net.xml)
  OBVIOUS
<1>2. asked[4] # {}
  BY <1>1 DEF XmlProbe
<1>3. Detect(net) = CHOOSE f \in asked[first] : TRUE
  BY Zenon DEF Detect
<1> HIDE DEF asked
<1>4. \E i \in DOMAIN asked : IsFirst(i)
  <2>1. CASE asked[1] # {}
    BY <1>1, <2>1
  <2>2. CASE asked[1] = {} /\ asked[2] # {}
    BY <1>1, <2>2
  <2>3. CASE asked[1] = {} /\ asked[2] = {} /\ asked[3] # {}
    BY <1>1, <2>3
  <2>4. CASE asked[1] = {} /\ asked[2] = {} /\ asked[3] = {}
    BY <1>1, <1>2, <2>4
  <2> QED BY <2>1, <2>2, <2>3, <2>4
<1>5. first \in DOMAIN asked /\ IsFirst(first)
  BY <1>4, Zenon
<1> HIDE DEF first
<1>6. Detect(net) \in asked[first]
  BY <1>3, <1>5
<1> QED BY <1>1, <1>5, <1>6

\* A probe that answers says the family of which alone it has heard, or that it knows none.
LEMMA ProbesAreClassified ==
    ASSUME NEW net \in Networks
    PROVE  /\ \A met \in {net.webservice, net.api} : \A f \in JsonProbe(met) :
                 /\ met.how = "answered" /\ f \in {"g1", "x1", Unknown}
                 /\ f = "g1" <=> "g1" \in met.marker
                 /\ f = "x1" => "x1" \in met.marker
                 /\ met.marker # {} => f # Unknown
           /\ \A met \in {net.webservice, net.api} :
                 /\ met.how # "answered" => met.marker = {}
                 /\ met.marker # {} => JsonProbe(met) # {}
           /\ TksProbe(net.page) \subseteq {"tks-ip"}
           /\ \A f \in XmlProbe(net.xml) :
                 /\ f \in {"g1", "x1", Unknown}
                 /\ f # Unknown => net.xml.how = "answered" /\ f \in UNION net.xml.texts
<1>1. net.webservice \in JsonAnswers /\ net.api \in JsonAnswers
  BY Zenon DEF Networks
<1>2. ASSUME NEW met \in JsonAnswers
      PROVE  /\ met.marker \in SUBSET {"g1", "x1"}
             /\ met.marker # {} => met.how = "answered" /\ met.named
  BY DEF JsonAnswers, Failed, Mentions
<1>3. TksProbe(net.page) \subseteq {"tks-ip"}
  BY Zenon DEF TksProbe
<1>4. ASSUME NEW f \in XmlProbe(net.xml)
      PROVE  /\ f \in {"g1", "x1", Unknown}
             /\ f # Unknown => net.xml.how = "answered" /\ f \in UNION net.xml.texts
  BY <1>4 DEF XmlProbe, Classify
<1>5. ASSUME NEW met \in JsonAnswers
      PROVE  /\ \A f \in JsonProbe(met) :
                   /\ met.how = "answered" /\ f \in {"g1", "x1", Unknown}
                   /\ f = "g1" <=> "g1" \in met.marker
                   /\ f = "x1" => "x1" \in met.marker
                   /\ met.marker # {} => f # Unknown
             /\ met.how # "answered" => met.marker = {}
             /\ met.marker # {} => JsonProbe(met) # {}
  BY <1>2 DEF JsonProbe, Classify, Unknown
<1> QED BY <1>1, <1>3, <1>4, <1>5

\* A device that speaks of one family only is not taken for the other, and a service that
\* names it is heard (detect_device_type).
THEOREM DetectionAgrees == QuestionSpec => []DetectionOfOneMind
<1>1. ASSUME NEW net \in Networks
      PROVE  FamilyOfOneMind(net)
  <2> DEFINE f == Detect(net)
             services == {net.webservice, net.api}
  <2>1. ASSUME NEW p \in services, f \in JsonProbe(p), f # Unknown
        PROVE  f \in Mentioned(net)
    <3>1. p.how = "answered" /\ f \in p.marker
      BY <2>1, ProbesAreClassified
    <3> QED BY <3>1 DEF Mentioned
  <2>2. ASSUME f \in XmlProbe(net.xml), f # Unknown
        PROVE  f \in Mentioned(net)
    BY <2>2, ProbesAreClassified DEF Mentioned
  <2>3. \/ f \in JsonProbe(net.webservice)
        \/ JsonProbe(net.webservice) = {} /\ f \in JsonProbe(net.api)
        \/ /\ JsonProbe(net.webservice) = {} /\ JsonProbe(net.api) = {}
           /\ f \in TksProbe(net.page) \/ f \in XmlProbe(net.xml)
    BY FirstProbe
  <2> HIDE DEF f
  <2>4. f \in Mentioned(net) \cup {"tks-ip", Unknown}
    BY <2>1, <2>2, <2>3, ProbesAreClassified
  <2>5. f = "tks-ip" => \A p \in services : p.marker = {}
    BY <2>3, ProbesAreClassified DEF Unknown
  <2>6. ASSUME NEW p \in services, p.marker # {}, \A q \in services \ {p} : q.how # "answered"
        PROVE  f # Unknown
    <3>1. JsonProbe(p) # {} /\ \A q \in services \ {p} : JsonProbe(q) = {}
      BY <2>6, ProbesAreClassified
    <3>2. f \in JsonProbe(p)
      BY <2>3, <3>1
    <3> QED BY <2>6, <3>2, ProbesAreClassified
  <2>7. \A g \in {"g1", "x1"} : Mentioned(net) = {g} => f \in {g, "tks-ip", Unknown}
    BY <2>4
  <2> QED BY <2>5, <2>6, <2>7, Zenon DEF FamilyOfOneMind, f
<1>2. QuestionsFit => DetectionOfOneMind
  BY <1>1 DEF QuestionsFit, Fits, DetectionOfOneMind
<1> QED BY <1>2, QuestionsKeepToInputs, PTL

-----------------------------------------------------------------------------
(* Network settings *)

Settings == Addresses \cup {"Dhcp"}

\* What a firmware reports under some key is found under one of the two it is looked for.
LEMMA ValueIsFound ==
    ASSUME NEW device, NEW dialect \in {Modern, Older}, NEW dropEmpty \in BOOLEAN,
           NEW f \in Addresses
    PROVE  StringValue(Reported(device, dialect, dropEmpty), Aliases[f]) = device[f]
<1> DEFINE shown == {g \in Addresses : ~(dropEmpty /\ device[g] = NotGiven)}
           known == Reported(device, dialect, dropEmpty)
           keys == Aliases[f]
<1>1. /\ keys[1] # "Dhcp" /\ keys[2] # "Dhcp"
      /\ dialect[f] \in {keys[1], keys[2]}
      /\ \A g \in Addresses : dialect[g] \in {keys[1], keys[2]} => g = f
  <2>1. CASE dialect = Modern
    BY <2>1 DEF Modern, Aliases, Addresses
  <2>2. CASE dialect = Older
    BY <2>2 DEF Older, Modern, Aliases, Addresses
  <2> QED BY <2>1, <2>2
<1>2. /\ DOMAIN known = {"Dhcp"} \cup {dialect[g] : g \in shown}
      /\ \A k \in DOMAIN known : k # "Dhcp" => known[k] = device[CHOOSE g \in shown : dialect[g] = k]
  BY DEF Reported
<1> HIDE DEF keys, known
<1>3. \A k \in {keys[1], keys[2]} : k \in DOMAIN known => known[k] = device[f] /\ f \in shown
  BY <1>1, <1>2
<1>4. f \in shown => keys[1] \in DOMAIN known \/ keys[2] \in DOMAIN known
  BY <1>1, <1>2
<1>5. f \notin shown => device[f] = NotGiven
  OBVIOUS
<1> QED BY <1>3, <1>4, <1>5 DEF StringValue, keys, known

\* The settings that are not asked for stay as they are (merge_network_config,
\* set_ip_config).
THEOREM OthersStay == QuestionSpec => []OnlyAskedSettingsChange
<1>1. ASSUME NEW addresses, NEW dhcp \in BOOLEAN, NEW dialect \in {Modern, Older},
             NEW dropEmpty \in BOOLEAN, NEW patch, NEW mode \in {NotGiven, "on", "off"},
             NEW device, NEW change,
             device = [k \in Settings |-> IF k = "Dhcp" THEN dhcp ELSE addresses[k]],
             change = [dhcp |-> mode, addresses |-> patch]
      PROVE  OnlyWhatIsAskedChanges(device, dialect, dropEmpty, change)
  <2> DEFINE current == Reported(device, dialect, dropEmpty)
             merged == Merge(current, change)
             sent == Payload(merged)
             after == SetIp(device, dialect, dropEmpty, change)
  <2>1. current["Dhcp"] = device["Dhcp"]
    BY DEF Reported
  <2>2. \A f \in Addresses : StringValue(current, Aliases[f]) = device[f]
    BY ValueIsFound
  <2> HIDE DEF current
  <2>3. \A f \in Addresses : f # "Dhcp"
    BY DEF Addresses
  <2>4. /\ merged["Dhcp"] = IF mode = NotGiven THEN device["Dhcp"] ELSE mode = "on"
        /\ \A f \in Addresses : merged[f] = IF patch[f] # NotGiven THEN patch[f] ELSE device[f]
    BY <1>1, <2>1, <2>2, <2>3 DEF Merge
  <2> HIDE DEF merged
  <2>5. /\ DOMAIN sent = {"Dhcp"} \cup IF merged["Dhcp"] THEN {}
                               ELSE {f \in Addresses : f # "SecondaryDns" \/ merged[f] # NotGiven}
        /\ \A k \in DOMAIN sent : sent[k] = merged[k]
    BY DEF Payload
  <2> HIDE DEF sent
  <2>6. \A k \in Settings : after[k] = IF k \in DOMAIN sent THEN sent[k] ELSE device[k]
    BY <1>1 DEF SetIp, Taken, sent, merged, current
  <2> HIDE DEF after
  <2>7. after["Dhcp"] = merged["Dhcp"]
    BY <2>5, <2>6 DEF Settings
  <2>8. ASSUME NEW f \in Addresses
        PROVE  after[f] = IF patch[f] # NotGiven /\ ~after["Dhcp"] THEN patch[f] ELSE device[f]
    <3>1. after[f] = IF f \in DOMAIN sent THEN merged[f] ELSE device[f]
      BY <2>5, <2>6 DEF Settings
    <3>2. f \in DOMAIN sent <=> ~merged["Dhcp"] /\ (f # "SecondaryDns" \/ merged[f] # NotGiven)
      BY <2>3, <2>5
    <3> QED BY <2>4, <2>7, <3>1, <3>2
  <2> QED BY <1>1, <2>4, <2>7, <2>8 DEF OnlyWhatIsAskedChanges, after
<1>2. QuestionsFit => OnlyAskedSettingsChange
  <2> SUFFICES ASSUME QuestionsFit, question.about = "settings"
               PROVE  OnlyAskedSettingsChange
    BY DEF OnlyAskedSettingsChange
  <2>1. PICK addresses \in Snapshots, dhcp \in BOOLEAN, patch \in Patches,
             mode \in {NotGiven, "on", "off"} :
            /\ question.dialect \in {Modern, Older} /\ question.dropEmpty \in BOOLEAN
            /\ question.device = [k \in Settings |-> IF k = "Dhcp" THEN dhcp ELSE addresses[k]]
            /\ question.patch = [dhcp |-> mode, addresses |-> patch]
    BY DEF QuestionsFit, Fits, SettingsFit, Settings
  <2> QED BY <1>1, <2>1 DEF OnlyAskedSettingsChange
<1> QED BY <1>2, QuestionsKeepToInputs, PTL

-----------------------------------------------------------------------------
(* The device page and the log of a gateway *)

\* BlobSections for every text, whatever its depth and length: the parser is correct of
\* all of them (SectionsAreNested).
THEOREM PagesAreParsed == QuestionSpec => []BlobSections
<1>1. QuestionsFit => BlobSections
  <2> SUFFICES ASSUME QuestionsFit, question.about = "blob"
               PROVE  BlobAgreesWithNesting(question.lines)
    BY DEF BlobSections
  <2>1. question.lines \in Seq(BlobLine)
    BY DEF QuestionsFit, Fits, LinesFit
  <2>2. BlobLine \subseteq [depth : Nat, key : {"a", "b"}, val : {NoValue, "v", "w"}]
    BY DEF BlobLine
  <2>3. question.lines \in Texts({"a", "b"}, {NoValue, "v", "w"})
    BY <2>1, <2>2, SeqMonotonic DEF Texts
  <2> QED BY <2>3, SectionsAreNested
<1> QED BY <1>1, QuestionsKeepToInputs, PTL

\* GatewaySummary for every log up to a day ahead of the clock, and every clock, year, day
\* and window (AttentionIsDue).
THEOREM GatewayIsSummedUp == QuestionSpec => []GatewaySummary
<1>1. QuestionsFit => GatewaySummary
  <2> SUFFICES ASSUME QuestionsFit, question.about = "log"
               PROVE  AttentionWhenDue(question.log, question.reference)
    BY DEF GatewaySummary
  <2> DEFINE clock == question.reference
  <2>1. clock \in Nat /\ clock >= Year /\ question.log \in Seq(LogLine(clock))
    BY DEF QuestionsFit, Fits, LinesFit
  <2>2. LogLine(clock) \subseteq [at : Nat, says : HealthSigns \cup Labels]
    <3>1. clock - (Year - Day) + 1 \in Nat
      BY <2>1, DiagnosticSteps
    <3>2. clock - (Year - Day) + 1 .. clock + Day \subseteq Nat
      BY <2>1, <3>1, DiagnosticSteps
    <3> QED BY <3>2 DEF LogLine
  <2> HIDE DEF clock
  <2>3. question.log \in Logs
    BY <2>1, <2>2, SeqMonotonic DEF Logs
  <2> QED BY <2>1, <2>3, AttentionIsDue DEF clock
<1> QED BY <1>1, QuestionsKeepToInputs, PTL

\* AgreesWithPaths for all requests and echoes, of any fields and any depth
\* (MatchingIsByPaths).
THEOREM MatchingAgrees == QuestionSpec => []AgreesWithPaths
<1>1. QuestionsFit => AgreesWithPaths
  <2> SUFFICES ASSUME QuestionsFit, question.about = "match"
               PROVE  RequestsMatch(question.request, question.echo)
                        <=> MatchesByPaths(question.request, question.echo)
    BY DEF AgreesWithPaths
  <2>1. question.request \in Requests /\ question.echo \in Echoes
    BY DEF QuestionsFit, Fits
  <2>2. IsDocument(question.request) /\ IsDocument(question.echo)
    BY <2>1, QuestionAssumption DEF IsDocument
  <2> QED BY <2>2, MatchingIsByPaths
<1> QED BY <1>1, QuestionsKeepToInputs, PTL
=============================================================================
