--------------------------- MODULE EndpointContract ---------------------------
(***************************************************************************)
(* What a mock endpoint promises to the test that owns it, without saying  *)
(* how: requests are accepted while the endpoint exists, an accepted       *)
(* request is live until its handler ends or its context is cancelled, and *)
(* Close returns only when no live request of the endpoint is left.        *)
(* MockEndpoint refines this specification.                                *)
(***************************************************************************)
CONSTANTS Requests,   \* the HTTP requests the test service may send
          Ids,        \* the identifiers of the endpoints
          NoEndpoint  \* not an identifier

VARIABLES status,    \* status[e]: life cycle of endpoint e
          owner,     \* owner[r]: the endpoint that accepted r, or NoEndpoint
          live       \* the accepted requests whose context is not cancelled

contractVars == <<status, owner, live>>

Init ==
    /\ status = [e \in Ids |-> "absent"]
    /\ owner = [r \in Requests |-> NoEndpoint]
    /\ live = {}

Open(e) ==
    /\ status[e] = "absent"
    /\ status' = [status EXCEPT ![e] = "open"]
    /\ UNCHANGED <<owner, live>>

BeginClose(e) ==
    /\ status[e] = "open"
    /\ status' = [status EXCEPT ![e] = "closing"]
    /\ UNCHANGED <<owner, live>>

\* A request that was routed before the endpoint was unregistered may still
\* be accepted while it is closing; a closed endpoint accepts nothing.  Its
\* client may have hung up already, and then it is never live.
Accept(r, e) ==
    /\ owner[r] = NoEndpoint
    /\ status[e] \in {"open", "closing"}
    /\ owner' = [owner EXCEPT ![r] = e]
    /\ live' \in {live, live \union {r}}
    /\ UNCHANGED status

\* The handler ends, the client hangs up, or the context is cancelled.
End(r) ==
    /\ r \in live
    /\ live' = live \ {r}
    /\ UNCHANGED <<status, owner>>

FinishClose(e) ==
    /\ status[e] = "closing"
    /\ \A r \in live : owner[r] # e
    /\ status' = [status EXCEPT ![e] = "closed"]
    /\ UNCHANGED <<owner, live>>

Next ==
    \/ \E e \in Ids : Open(e) \/ BeginClose(e) \/ FinishClose(e)
    \/ \E r \in Requests : End(r) \/ \E e \in Ids : Accept(r, e)

Spec == Init /\ [][Next]_contractVars
===============================================================================
