---------------------------- MODULE GdsMatching -----------------------------
(***************************************************************************)
(* How _route_response decides that a response belongs to a request:       *)
(* _is_echo_subset and _requests_match of src/pygira/gds.py.               *)
(*                                                                         *)
(* A JSON value is [kind |-> "scalar", is |-> x] for anything the code     *)
(* compares with ==, or [kind |-> "object", is |-> f], where f gives each  *)
(* field its value or Absent.  Json[depth] are the values in which objects *)
(* are nested depth deep at most; what the code does by recursion is a     *)
(* function of the depth, too.                                             *)
(*                                                                         *)
(* An operator under "Mistake:" is a wrong version of the definition that  *)
(* follows it, kept to show which property would notice.                   *)
(***************************************************************************)
EXTENDS Integers, Sequences

CONSTANTS
    Fields,     \* the names of fields
    Names,      \* the values of scalars
    Nesting     \* how deep the requests and echoes are nested

ASSUME MatchingAssumption == {"command", "id", "urn"} \subseteq Fields /\ Nesting \in Nat

Absent == [kind |-> "absent"]
Scalar(x) == [kind |-> "scalar", is |-> x]
Object(f) == [kind |-> "object", is |-> f]

\* An object with the given fields only.
Document(given) == Object([key \in Fields |-> IF key \in DOMAIN given THEN given[key] ELSE Absent])

Scalars == [kind : {"scalar"}, is : Names]
ObjectsOf(values) == [kind : {"object"}, is : [Fields -> values \cup {Absent}]]

Json[depth \in Nat] == IF depth = 0 THEN Scalars ELSE Scalars \cup ObjectsOf(Json[depth - 1])

Has(obj, key) == obj.is[key] # Absent
Given(obj) == {key \in Fields : Has(obj, key)}

-----------------------------------------------------------------------------
(* What the code does *)

\* Mistake: a key the request does not have is forgiven at every depth.
ForgivesUnknown(deeper, expected, echoed) ==
    IF expected.kind = "object" /\ echoed.kind = "object"
    THEN \A key \in Given(echoed) :
            Has(expected, key) => deeper[expected.is[key]][echoed.is[key]]
    ELSE expected.kind = echoed.kind /\ expected.is = echoed.is

\* deeper compares what is nested.
Covers(deeper, expected, echoed) ==
    IF expected.kind = "object" /\ echoed.kind = "object"
    THEN \A key \in Given(echoed) :
            Has(expected, key) /\ deeper[expected.is[key]][echoed.is[key]]
    ELSE expected.kind = echoed.kind /\ expected.is = echoed.is

EchoSubset[depth \in Nat] ==
    [expected \in Json[depth] |->
        [echoed \in Json[depth] |-> Covers(EchoSubset[depth - 1], expected, echoed)]]

IsEchoSubset(expected, echoed) == EchoSubset[Nesting][expected][echoed]

\* Some firmware echoes a URN-addressed SetValue request under "id".
Comparable(expected, echoed) ==
    IF Has(echoed, "id") /\ ~Has(expected, "id") /\ Has(expected, "urn")
    THEN Object([expected.is EXCEPT !["id"] = expected.is["urn"]])
    ELSE expected

\* The fields of the echo that the request does not have are ignored at the top
\* level, and only there.
SharedEcho(expected, echoed) ==
    Object([key \in Fields |-> IF Has(expected, key) THEN echoed.is[key] ELSE Absent])

\* dict.get is None, which is Absent here, when there is no such key.
RequestsMatch(expected, echoed) ==
    LET comparable == Comparable(expected, echoed)
    IN  /\ expected.is["command"] = echoed.is["command"]
        /\ IsEchoSubset(comparable, SharedEcho(comparable, echoed))

-----------------------------------------------------------------------------
(* The same, told by paths *)

\* Every node of a value: the path to it, and what stands there.
NodesBelow(deeper, v) ==
    IF v.kind = "scalar" THEN {<<<<>>, v>>}
    ELSE {<<<<>>, Object("")>>} \cup
         UNION {{<<<<key>> \o node[1], node[2]>> : node \in deeper[v.is[key]]} : key \in Given(v)}

Nodes[depth \in Nat] == [v \in Json[depth] |-> NodesBelow(Nodes[depth - 1], v)]
NodesOf(v) == Nodes[Nesting][v]

\* The URN of a request that has no id counts as its id when the echo has one.
Counterpart(expected, key) == IF key = "id" /\ ~Has(expected, "id") THEN "urn" ELSE key

\* The commands agree, and whatever the echo says at a path below a field of the
\* request, the request says at that path.
MatchesByPaths(expected, echoed) ==
    /\ expected.is["command"] = echoed.is["command"]
    /\ \A key \in Given(echoed) :
          LET field == Counterpart(expected, key)
          IN Has(expected, field) =>
               NodesOf(echoed.is[key]) \subseteq NodesOf(expected.is[field])
=============================================================================
