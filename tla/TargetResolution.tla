-------------------------- MODULE TargetResolution --------------------------
(***************************************************************************)
(* Which device a command talks to, and with whose password                *)
(* (src/pygira/context.py, prompting.py, commands/_target.py).             *)
(*                                                                         *)
(* A configuration is [file, devices]: whether devices.toml exists and its *)
(* devices, records [location, name, type, host, secrets].  A request is   *)
(* what the command line says: [ip, password, name, location, expect].     *)
(* What the user is asked and what the network answers are choices, so a   *)
(* resolution is a SET of outcomes.                                        *)
(***************************************************************************)
EXTENDS FiniteSets

CONSTANTS
    Display,    \* the name of each location, by its key; NoName if it has none
    Typed       \* the addresses the user may type

NoName == ""          \* also: an option that was not given, a device outside of locations
Families == {"g1", "x1", "tks-ip"}

\* Outcomes.  A secret is what was typed or given as an option, or a device's own.
Nothing == [kind |-> "nothing"]
Error == [kind |-> "error"]
Device(d) == [kind |-> "device", device |-> d]
Address(host) == [kind |-> "address", host |-> host]
Own(d) == [of |-> "device", device |-> d]
Entered == [of |-> "user"]
Only(S) == CHOOSE x \in S : TRUE

-----------------------------------------------------------------------------
(* devices.toml *)

\* A key, or else a name: _find_location returns one location, none, or complains.
LocationsNamed(name) ==
    IF name \in DOMAIN Display THEN {name} ELSE {k \in DOMAIN Display : Display[k] = name}

\* _selected_device: --name, within --location if that is given.
SelectedDevice(cfg, r) ==
    LET named == {d \in cfg.devices : d.name = r.name}
        within == IF r.location = NoName
                  THEN IF \E d \in named : d.location = NoName
                       THEN {d \in named : d.location = NoName}
                       ELSE named
                  ELSE {d \in named : d.location \in LocationsNamed(r.location)}
    IN IF r.name = NoName THEN Nothing
       ELSE IF ~cfg.file \/ Cardinality(within) # 1
               \/ (r.location # NoName /\ Cardinality(LocationsNamed(r.location)) # 1)
            THEN Error
            ELSE Device(Only(within))

\* Mistake: only the name is remembered.
RememberName(r, d) == [r EXCEPT !.name = d.name]

\* The context after a device was chosen in a prompt (obj["location"], obj["device_name"]).
Remember(r, d) == [r EXCEPT !.location = d.location, !.name = d.name]

\* _prompt_configured_device: the answers, and the request with what is remembered.  With a
\* location given only its devices are offered, otherwise an address may be typed instead.
Prompted(cfg, r, family) ==
    LET asked == IF family # NoName THEN family ELSE r.expect
        offered == {d \in cfg.devices : /\ d.location # NoName
                                        /\ asked \in {NoName, d.type}}
        here == {d \in offered : d.location \in LocationsNamed(r.location)}
        chosen(S) == {<<Device(d), Remember(r, d)>> : d \in S}
    IN IF ~cfg.file THEN {<<Nothing, r>>}
       ELSE IF r.location # NoName
            THEN IF Cardinality(LocationsNamed(r.location)) # 1 \/ here = {}
                 THEN {<<Error, r>>} ELSE chosen(here)
       ELSE IF offered = {} THEN {<<Nothing, r>>}
       ELSE chosen(offered) \cup {<<Address(h), r>> : h \in Typed}

\* _device_login: an X1 prefers its admin password, the others have no use for it.
Login(d) ==
    IF "password" \in d.secrets \/ (d.type = "x1" /\ "admin_password" \in d.secrets)
    THEN Device(d) ELSE Error

-----------------------------------------------------------------------------
(* resolve_login: any family, which is detected *)

\* The selection, or the prompt when there is neither a selection nor an address.
Selection(cfg, r) ==
    LET selected == SelectedDevice(cfg, r)
    IN IF selected = Nothing /\ r.ip = NoName THEN Prompted(cfg, r, NoName)
       ELSE {<<selected, r>>}

\* resolve_profile: what is detected must be known and, if a family is expected, be it.
Profiles(expected) == Families \cap (IF expected = NoName THEN Families ELSE {expected})

Logins(host, secret, expected) ==
    {Error} \cup {[kind |-> "login", host |-> host, secret |-> secret, family |-> f] :
                      f \in Profiles(expected)}

LoginOf(r, choice) ==
    CASE choice.kind = "error" -> {Error}
      [] choice.kind = "device" ->
           LET d == choice.device
           IN IF Login(d) = Error THEN {Error}
              ELSE Logins(IF r.ip # NoName THEN r.ip ELSE d.host,
                          IF r.password THEN Entered ELSE Own(d),
                          IF r.expect # NoName THEN r.expect ELSE d.type)
      [] choice.kind = "address" -> Logins(choice.host, Entered, r.expect)
      [] OTHER -> UNION {Logins(h, Entered, r.expect) :
                            h \in IF r.ip # NoName THEN {r.ip} ELSE Typed}

ResolveLogin(cfg, r) == UNION {LoginOf(c[2], c[1]) : c \in Selection(cfg, r)}

-----------------------------------------------------------------------------
(* resolve_tks_login, resolve_tks_ip: a TKS-IP, which is not detected *)

\* _selected_tks_device: by name, or the only one there is (in the location).
SelectedTks(cfg, r) ==
    LET selected == SelectedDevice(cfg, r)
        around == {d \in cfg.devices :
                      /\ d.type = "tks-ip"
                      /\ r.location = NoName \/ d.location \in LocationsNamed(r.location)}
    IN IF r.name # NoName
       THEN IF selected = Error \/ selected.device.type # "tks-ip" THEN Error ELSE selected
       ELSE IF ~cfg.file THEN Nothing
       ELSE IF r.location # NoName /\ Cardinality(LocationsNamed(r.location)) # 1 THEN Error
       ELSE IF around = {} THEN Nothing
       ELSE IF Cardinality(around) = 1 THEN Device(Only(around)) ELSE Error

SelectedOrPromptedTks(cfg, r) ==
    LET selected == SelectedTks(cfg, r)
    IN IF selected = Error /\ r.name = NoName
       THEN {c[1] : c \in Prompted(cfg, r, "tks-ip")} ELSE {selected}

\* Mistake: the only gateway there is will be the one that is meant.
SoleGateway(cfg, host) ==
    LET there == {d \in cfg.devices : d.type = "tks-ip"}
    IN IF cfg.file /\ Cardinality(there) = 1 THEN Device(Only(there)) ELSE Nothing

\* Mistake: one of the gateways with this address.
AnyGatewayThere(cfg, host) ==
    LET there == {d \in cfg.devices : d.type = "tks-ip" /\ d.host = host}
    IN IF cfg.file /\ there # {} THEN Device(Only(there)) ELSE Nothing

\* _configured_tks_device: the one gateway configured with this address.
ConfiguredTks(cfg, host) ==
    LET there == {d \in cfg.devices : d.type = "tks-ip" /\ d.host = host}
    IN IF cfg.file /\ Cardinality(there) = 1 THEN Device(Only(there)) ELSE Nothing

TksChoices(cfg, r) ==
    IF r.ip # NoName /\ r.password THEN {Nothing}
    ELSE IF r.ip # NoName /\ r.name = NoName /\ r.location = NoName
         THEN {ConfiguredTks(cfg, r.ip)}
    ELSE SelectedOrPromptedTks(cfg, r)

TksLoginOf(r, choice) ==
    LET login(host, secret) ==
            [kind |-> "login", secret |-> IF r.password THEN Entered ELSE secret,
             host |-> IF r.ip # NoName THEN r.ip ELSE host, family |-> "tks-ip"]
    IN CASE choice.kind = "error" -> {Error}
         [] choice.kind = "device" -> IF Login(choice.device) = Error THEN {Error}
                                    ELSE {login(choice.device.host, Own(choice.device))}
         [] choice.kind = "address" -> {login(choice.host, Entered)}
         [] OTHER -> {login(h, Entered) : h \in Typed}

ResolveTksLogin(cfg, r) == UNION {TksLoginOf(r, c) : c \in TksChoices(cfg, r)}

\* resolve_tks_ip
ResolveTksIp(cfg, r) ==
    IF r.ip # NoName THEN {r.ip}
    ELSE UNION {CASE c.kind = "error" -> {}
                  [] c.kind = "device" -> {c.device.host}
                  [] c.kind = "address" -> {c.host}
                  [] OTHER -> Typed : c \in SelectedOrPromptedTks(cfg, r)}

\* find_tks_aes_key for a host, with neither an option nor the environment.
FindTksAesKey(cfg, host) == ConfiguredTks(cfg, host)

-----------------------------------------------------------------------------
(* tail-logs resolves twice: for the kind of the log source, then to log in *)

\* _log_target: the family, the host if one is known by then, and the remembered request.
LogTargets(cfg, r) ==
    LET target(c) ==
            LET q == c[2]
                families == IF q.expect # NoName THEN {q.expect} ELSE Families
                host == IF r.ip # NoName THEN r.ip ELSE c[1].device.host
            IN CASE c[1].kind = "error" -> {}
                 [] c[1].kind = "device" -> {<<c[1].device.type, host, q>>}
                 [] c[1].kind = "address" -> families \X {c[1].host} \X {q}
                 [] c[1].kind = "nothing" ->
                      IF r.ip # NoName \/ q.expect # NoName THEN families \X {r.ip} \X {q}
                      ELSE families \X Typed \X {q}
    IN UNION {target(c) : c \in Selection(cfg, r)}

\* The login that follows: resolve_tks_ip and the key, or resolve_login with that host.
TailLogin(cfg, target) ==
    LET q == [target[3] EXCEPT !.ip = IF target[2] # NoName THEN target[2] ELSE @]
    IN IF target[1] = "tks-ip"
       THEN {[kind |-> "login", host |-> h, secret |-> Entered, family |-> "tks-ip"] :
                h \in ResolveTksIp(cfg, q)}
       ELSE ResolveLogin(cfg, q)
=============================================================================
