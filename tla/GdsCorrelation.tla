--------------------------- MODULE GdsCorrelation ---------------------------
(***************************************************************************)
(* What GdsClient promises the callers of _send_request, without saying    *)
(* how (README.md: it "correlates responses using echoed request fields"): *)
(* a call ends at most once; it ends with an error, or with the response   *)
(* to a request that was made, whose echo fits the caller's own request;   *)
(* and a response goes to one caller only.                                 *)
(***************************************************************************)
CONSTANTS
    Callers,   \* the calls of _send_request
    Fits       \* <<r, s>> \in Fits: the response to s may be taken for r's

VARIABLES
    phase,     \* "idle", "open", "answered" or "failed"
    reply      \* the call whose response r was given, once it is answered

Init ==
    /\ phase = [r \in Callers |-> "idle"]
    /\ reply = [r \in Callers |-> {}]

Ask(r) ==
    /\ phase[r] = "idle"
    /\ phase' = [phase EXCEPT ![r] = "open"]
    /\ UNCHANGED reply

\* The request answered may be one whose own caller has given up.
Answer(r, s) ==
    /\ phase[r] = "open" /\ phase[s] # "idle"
    /\ <<r, s>> \in Fits
    /\ \A t \in Callers : s \notin reply[t]
    /\ phase' = [phase EXCEPT ![r] = "answered"]
    /\ reply' = [reply EXCEPT ![r] = {s}]

Fail(r) ==
    /\ phase[r] \in {"idle", "open"}
    /\ phase' = [phase EXCEPT ![r] = "failed"]
    /\ UNCHANGED reply

Next == \E r \in Callers : Ask(r) \/ Fail(r) \/ \E s \in Callers : Answer(r, s)

Spec == Init /\ [][Next]_<<phase, reply>>
=============================================================================
