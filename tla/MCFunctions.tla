---------------------------- MODULE MCFunctions ----------------------------
(***************************************************************************)
(* Small instances of the functions of pygira that keep no state.          *)
(***************************************************************************)
EXTENDS Questions

\* Names that are used twice, an address that is used twice, a device without the password
\* its family logs in with, and two locations of the same name.
DisplayNames == [home |-> "Flat", flat |-> "Upstairs", attic |-> "Flat"]
TypedAddresses == {"a4", "a9"}
D(location, name, type, host, secrets) ==
    [location |-> location, name |-> name, type |-> type, host |-> host, secrets |-> secrets]
KnownDevices == {D("home", "hall", "g1", "a1", {"password"}),
                 D("flat", "hall", "x1", "a2", {"admin_password"}),
                 D("", "hall", "g1", "a3", {"password"}),
                 D("home", "door", "tks-ip", "a4", {"password"}),
                 D("flat", "door", "tks-ip", "a5", {"password"}),
                 D("", "gate", "tks-ip", "a4", {"password"}),
                 D("attic", "spare", "g1", "a1", {"admin_password"})}

\* Every combination of options, with names and addresses that are known or not.
TargetOptions ==
    [ip : {"", "a1", "a4", "a9"}, password : BOOLEAN, name : {"", "hall", "door"},
     location : {"", "home", "Upstairs", "Flat", "away"}, expect : {"", "g1", "tks-ip"}]

\* The addresses of a device, and others that it is given.
OldAddresses == {s \in [Addresses -> {NotGiven, "old"}] : s["IpAddress"] = "old"}
NewAddresses == [Addresses -> {NotGiven, "new"}]

-----------------------------------------------------------------------------
(* Requests and echoes over two values, one level of nesting *)

Values == {Scalar("500003"), Scalar("500004")}
True == Scalar("true")

Inner == {Document([urn |-> u, pretty |-> p]) : u \in Values \cup {Absent}, p \in {Absent, True}}

SomeRequests ==
    {Document([command |-> Scalar(c), id |-> i, urn |-> u, object |-> o]) :
       c \in {"GetValue", "SetValue"}, i \in Values \cup {Absent},
       u \in Values \cup {Absent}, o \in Inner \cup {Absent}}
SomeEchoes ==
    {Document([command |-> c, id |-> i, urn |-> u, object |-> o, state |-> s]) :
       c \in {Absent, Scalar("GetValue"), Scalar("SetValue")},
       i \in Values \cup {Absent}, u \in Values \cup {Absent},
       o \in Inner \cup {Absent, True}, s \in {Absent, True}}
=============================================================================
