----------------------------- MODULE RemoteCall -----------------------------
(***************************************************************************)
(* What the tunnel of nfrx promises its HTTP clients: a call is answered   *)
(* with the result that the provider behind the relay returned for this    *)
(* very call, or it fails.  It may fail for any reason, but once it has an *)
(* outcome it keeps it.                                                    *)
(***************************************************************************)
CONSTANTS Calls

VARIABLES
    asked,    \* calls the provider was asked
    results,  \* calls the provider returned a result for
    outcome   \* of a call: "none" until its client is told

vars == <<asked, results, outcome>>

Init == asked = {} /\ results = {} /\ outcome = [k \in Calls |-> "none"]

Ask(k) ==
    /\ k \notin asked
    /\ asked' = asked \cup {k}
    /\ UNCHANGED <<results, outcome>>

Return(k) ==
    /\ k \in asked \ results
    /\ results' = results \cup {k}
    /\ UNCHANGED <<asked, outcome>>

Answer(k) ==
    /\ outcome[k] = "none"
    /\ k \in results
    /\ outcome' = [outcome EXCEPT ![k] = "answered"]
    /\ UNCHANGED <<asked, results>>

Fail(k) ==
    /\ outcome[k] = "none"
    /\ outcome' = [outcome EXCEPT ![k] = "failed"]
    /\ UNCHANGED <<asked, results>>

Next == \E k \in Calls : Ask(k) \/ Return(k) \/ Answer(k) \/ Fail(k)

Spec == Init /\ [][Next]_vars
=============================================================================
