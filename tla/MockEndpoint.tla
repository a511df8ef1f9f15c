----------------------------- MODULE MockEndpoint -----------------------------
(***************************************************************************)
(* The HTTP endpoints that tests create for the test service to call       *)
(* (framework/harness/mock_endpoints.go).  net/http runs serveHTTP in one  *)
(* goroutine per request; the single goroutine that runs the test creates  *)
(* endpoints, receives the announced connections, cancels them, and closes *)
(* the endpoints when a scope ends.                                        *)
(*                                                                         *)
(* Each critical section of manager.lock and of MockEndpoint.lock is one   *)
(* step, and so is each channel operation: everything that can happen      *)
(* between two of them is a separate action.                               *)
(***************************************************************************)
EXTENDS Naturals, Sequences, FiniteSets

CONSTANTS Requests,      \* the HTTP requests the test service may send
          Streams,       \* those whose handler runs until its context ends
          MaxEndpoints,  \* bound on lastEndpointID
          Capacity       \* incomingConnectionChannelBufferSize

ASSUME ConstantsAssumption ==
    /\ Streams \subseteq Requests
    /\ MaxEndpoints \in Nat
    /\ Capacity \in Nat \ {0}

Ids == 1..MaxEndpoints

VARIABLES
    lastEndpointID,  \* the manager's counter
    endpoints,       \* identifiers in the manager's map
    newConns,        \* newConns[e]: contents of e's connection channel
    chanOpen,        \* chanOpen[e]: TRUE until Close sets e.newConns to nil
    cancels,         \* cancels[e]: requests whose canceller e holds
    activeConn,      \* activeConn[e]: the newest request e has registered
    closing,         \* closing[e]: how far Close has got
    cancellers,      \* cancellers[e]: what Close took and has yet to call
    pc,              \* pc[r]: where serveHTTP is, or how r was answered
    target,          \* target[r]: the endpoint the path of r names (0: none)
    cancelled,       \* requests whose context is done
    received,        \* requests handed to the test by the channel
    late             \* history: requests sent after Close had returned

managerVars == <<lastEndpointID, endpoints>>
channelVars == <<newConns, chanOpen, received>>
closeVars == <<closing, cancellers>>
vars == <<lastEndpointID, endpoints, newConns, chanOpen, cancels, activeConn,
          closing, cancellers, pc, target, cancelled, received, late>>

InServeHTTP == {"lookup", "body", "register", "push", "handler", "blocked", "cleanup"}
\* "aborted": net/http recovered a panic and dropped the connection.
Answered == {"404", "500", "served", "aborted", "handlerPanic"}

\* Requests that have registered with their endpoint and not yet left it.
Active == {"push", "handler", "blocked", "cleanup"}
HandlerStarted == {"handler", "blocked", "cleanup", "served", "handlerPanic"}
Accepted == Active \union HandlerStarted \union {"aborted"}

Init ==
    /\ lastEndpointID = 0
    /\ endpoints = {}
    /\ newConns = [e \in Ids |-> <<>>]
    /\ chanOpen = [e \in Ids |-> FALSE]
    /\ cancels = [e \in Ids |-> {}]
    /\ activeConn = [e \in Ids |-> "nil"]
    /\ closing = [e \in Ids |-> "no"]
    /\ cancellers = [e \in Ids |-> {}]
    /\ pc = [r \in Requests |-> "idle"]
    /\ target = [r \in Requests |-> 0]
    /\ cancelled = {}
    /\ received = {}
    /\ late = {}

-------------------------------------------------------------------------------
(* The test's goroutine.  It does one thing at a time: while it is inside  *)
(* Close it neither creates endpoints nor receives connections.            *)

TestFree == \A e \in Ids : closing[e] \in {"no", "done"}

\* Fault: the endpoint is registered under the counter's old value.
newMockEndpoint_OldCounter ==
    /\ TestFree
    /\ lastEndpointID < MaxEndpoints
    /\ lastEndpointID' = lastEndpointID + 1
    /\ endpoints' = endpoints \union {lastEndpointID}
    /\ chanOpen' = [chanOpen EXCEPT ![lastEndpointID'] = TRUE]
    /\ UNCHANGED <<newConns, received, cancels, activeConn, closing,
                   cancellers, pc, target, cancelled, late>>

newMockEndpoint ==
    /\ TestFree
    /\ lastEndpointID < MaxEndpoints
    /\ lastEndpointID' = lastEndpointID + 1
    /\ endpoints' = endpoints \union {lastEndpointID'}
    /\ chanOpen' = [chanOpen EXCEPT ![lastEndpointID'] = TRUE]
    /\ UNCHANGED <<newConns, received, cancels, activeConn, closing,
                   cancellers, pc, target, cancelled, late>>

\* AwaitConnection, RequireConnection and RequireNoMoreConnections all take
\* the next value of the channel if there is one; on a nil channel (a closed
\* endpoint) and on an empty one they time out, which changes nothing.
ReceiveConnection(e) ==
    /\ TestFree
    /\ chanOpen[e]
    /\ newConns[e] # <<>>
    /\ received' = received \union {Head(newConns[e])}
    /\ newConns' = [newConns EXCEPT ![e] = Tail(@)]
    /\ UNCHANGED <<chanOpen, managerVars, cancels, activeConn,
                   closeVars, pc, target, cancelled, late>>

\* The test calls IncomingRequestInfo.Cancel on a connection it received.
CancelConnection(r) ==
    /\ TestFree
    /\ r \in received
    /\ r \notin cancelled
    /\ cancelled' = cancelled \union {r}
    /\ UNCHANGED <<managerVars, channelVars, closeVars, cancels, activeConn,
                   pc, target, late>>

\* Fault: Close leaves the endpoint in the manager's map.
CloseUnregister_KeepsRoute(e) ==
    /\ TestFree
    /\ e <= lastEndpointID
    /\ closing[e] = "no"
    /\ closing' = [closing EXCEPT ![e] = "unregistered"]
    /\ UNCHANGED <<managerVars, channelVars, cancels, activeConn,
                   cancellers, pc, target, cancelled, late>>

\* Close, first critical section: the endpoint leaves the manager's map.
\* sync.Once makes any later call a no-operation.
CloseUnregister(e) ==
    /\ TestFree
    /\ e <= lastEndpointID
    /\ closing[e] = "no"
    /\ closing' = [closing EXCEPT ![e] = "unregistered"]
    /\ endpoints' = endpoints \ {e}
    /\ UNCHANGED <<lastEndpointID, channelVars, cancels, activeConn,
                   cancellers, pc, target, cancelled, late>>

\* Close, second critical section: take the cancellers, close the channel
\* and forget it.
CloseTake(e) ==
    /\ closing[e] = "unregistered"
    /\ closing' = [closing EXCEPT ![e] = "cancelling"]
    /\ cancellers' = [cancellers EXCEPT ![e] = cancels[e]]
    /\ cancels' = [cancels EXCEPT ![e] = {}]
    /\ chanOpen' = [chanOpen EXCEPT ![e] = FALSE]
    /\ UNCHANGED <<managerVars, newConns, received, activeConn, pc,
                   target, cancelled, late>>

\* Fault: the loop consumes the list without calling the cancellers.
CloseCancel_NoCall(e, r) ==
    /\ closing[e] = "cancelling"
    /\ r \in cancellers[e]
    /\ cancellers' = [cancellers EXCEPT ![e] = @ \ {r}]
    /\ UNCHANGED <<managerVars, channelVars, cancels, activeConn, closing,
                   pc, target, cancelled, late>>

\* Close, the loop after the lock is released: one canceller at a time.
CloseCancel(e, r) ==
    /\ closing[e] = "cancelling"
    /\ r \in cancellers[e]
    /\ cancellers' = [cancellers EXCEPT ![e] = @ \ {r}]
    /\ cancelled' = cancelled \union {r}
    /\ UNCHANGED <<managerVars, channelVars, cancels, activeConn, closing,
                   pc, target, late>>

\* Fault: Close returns while cancellers remain to be called.
CloseReturn_Early(e) ==
    /\ closing[e] = "cancelling"
    /\ closing' = [closing EXCEPT ![e] = "done"]
    /\ UNCHANGED <<managerVars, channelVars, cancels, activeConn, cancellers,
                   pc, target, cancelled, late>>

CloseReturn(e) ==
    /\ closing[e] = "cancelling"
    /\ cancellers[e] = {}
    /\ closing' = [closing EXCEPT ![e] = "done"]
    /\ UNCHANGED <<managerVars, channelVars, cancels, activeConn, cancellers,
                   pc, target, cancelled, late>>

-------------------------------------------------------------------------------
(* One goroutine of net/http per request: serveHTTP.                       *)

\* The request arrives; a path without the "/endpoints/" prefix (0) or with
\* an identifier that names no endpoint is legal input and ends in a 404.
Arrive(r, id) ==
    /\ pc[r] = "idle"
    /\ target' = [target EXCEPT ![r] = id]
    /\ pc' = [pc EXCEPT ![r] = IF id = 0 THEN "404" ELSE "lookup"]
    /\ late' = IF id \in Ids /\ closing[id] = "done"
               THEN late \union {r} ELSE late
    /\ UNCHANGED <<managerVars, channelVars, closeVars, cancels, activeConn,
                   cancelled>>

\* Under the manager's lock.
Lookup(r) ==
    /\ pc[r] = "lookup"
    /\ pc' = [pc EXCEPT ![r] = IF target[r] \in endpoints THEN "body" ELSE "404"]
    /\ UNCHANGED <<managerVars, channelVars, closeVars, cancels, activeConn,
                   target, cancelled, late>>

ReadBody(r) ==
    /\ pc[r] = "body"
    /\ \E result \in {"register", "500"} : pc' = [pc EXCEPT ![r] = result]
    /\ UNCHANGED <<managerVars, channelVars, closeVars, cancels, activeConn,
                   target, cancelled, late>>

\* Fault: the newest canceller replaces those of the other requests.
Register_KeepsOneCanceller(r) ==
    LET e == target[r] IN
    /\ pc[r] = "register"
    /\ activeConn' = [activeConn EXCEPT ![e] = r]
    /\ cancels' = [cancels EXCEPT ![e] = {r}]
    /\ pc' = [pc EXCEPT ![r] = IF chanOpen[e] THEN "push" ELSE "500"]
    /\ UNCHANGED <<managerVars, channelVars, closeVars, target, cancelled, late>>

\* Under the endpoint's lock: the canceller is recorded even when the
\* endpoint turns out to be closed already, which is answered with a 500.
Register(r) ==
    LET e == target[r] IN
    /\ pc[r] = "register"
    /\ activeConn' = [activeConn EXCEPT ![e] = r]
    /\ cancels' = [cancels EXCEPT ![e] = @ \union {r}]
    /\ pc' = [pc EXCEPT ![r] = IF chanOpen[e] THEN "push" ELSE "500"]
    /\ UNCHANGED <<managerVars, channelVars, closeVars, target, cancelled, late>>

\* Fault: the channel counts as full one element too early.
PushOpen_OffByOne(r) ==
    LET e == target[r] IN
    /\ pc[r] = "push"
    /\ chanOpen[e]
    /\ newConns' = IF Len(newConns[e]) + 1 < Capacity
                   THEN [newConns EXCEPT ![e] = Append(@, r)] ELSE newConns
    /\ pc' = [pc EXCEPT ![r] = "handler"]
    /\ UNCHANGED <<managerVars, chanOpen, received, closeVars, cancels,
                   activeConn, target, cancelled, late>>

\* The push uses the channel captured by Register, without the lock.  It
\* never blocks; a send on a channel that Close closed meanwhile panics.
PushOpen(r) ==
    LET e == target[r] IN
    /\ pc[r] = "push"
    /\ chanOpen[e]
    /\ newConns' = IF Len(newConns[e]) < Capacity
                   THEN [newConns EXCEPT ![e] = Append(@, r)] ELSE newConns
    /\ pc' = [pc EXCEPT ![r] = "handler"]
    /\ UNCHANGED <<managerVars, chanOpen, received, closeVars, cancels,
                   activeConn, target, cancelled, late>>

PushClosed(r) ==
    /\ pc[r] = "push"
    /\ ~chanOpen[target[r]]
    /\ pc' = [pc EXCEPT ![r] = "aborted"]
    /\ UNCHANGED <<managerVars, channelVars, closeVars, cancels, activeConn,
                   target, cancelled, late>>

\* The endpoint's own handler (a mock service) waits for what its context
\* cannot provide: room in the channel of payloads, the lock that a poll kept
\* (events_service.go:162, polling_service.go:110), or a client that reads.
HandlerBlocks(r) ==
    /\ pc[r] = "handler"
    /\ pc' = [pc EXCEPT ![r] = "blocked"]
    /\ UNCHANGED <<managerVars, channelVars, closeVars, cancels, activeConn,
                   target, cancelled, late>>

\* The handler returns.  One that streams may go on until its context is done,
\* one that is blocked until others let it, if they ever do.
HandlerReturn(r) ==
    /\ pc[r] \in {"handler", "blocked"}
    /\ pc' = [pc EXCEPT ![r] = "cleanup"]
    /\ UNCHANGED <<managerVars, channelVars, closeVars, cancels, activeConn,
                   target, cancelled, late>>

\* A panic in the handler leaves serveHTTP before the canceller is removed.
HandlerPanic(r) ==
    /\ pc[r] = "handler"
    /\ pc' = [pc EXCEPT ![r] = "handlerPanic"]
    /\ UNCHANGED <<managerVars, channelVars, closeVars, cancels, activeConn,
                   target, cancelled, late>>

\* Under the endpoint's lock: the request removes its own canceller.
Unregister(r) ==
    /\ pc[r] = "cleanup"
    /\ cancels' = [cancels EXCEPT ![target[r]] = @ \ {r}]
    /\ pc' = [pc EXCEPT ![r] = "served"]
    /\ UNCHANGED <<managerVars, channelVars, closeVars, activeConn, target,
                   cancelled, late>>

\* net/http cancels the context of a request whose client hangs up.
ClientDisconnect(r) ==
    /\ pc[r] \in InServeHTTP
    /\ r \notin cancelled
    /\ cancelled' = cancelled \union {r}
    /\ UNCHANGED <<managerVars, channelVars, closeVars, cancels, activeConn,
                   pc, target, late>>

-------------------------------------------------------------------------------
TestStep ==
    \/ newMockEndpoint
    \/ \E e \in Ids : \/ ReceiveConnection(e)
                      \/ CloseUnregister(e)
                      \/ CloseTake(e)
                      \/ CloseReturn(e)
                      \/ \E r \in Requests : CloseCancel(e, r)
    \/ \E r \in Requests : CancelConnection(r)

\* Steps of serveHTTP that its goroutine takes by itself.
Serve(r) ==
    Lookup(r) \/ ReadBody(r) \/ Register(r) \/ PushOpen(r) \/ PushClosed(r)
    \/ Unregister(r)

RequestStep(r) ==
    \/ Serve(r)
    \/ HandlerBlocks(r)
    \/ HandlerReturn(r)
    \/ HandlerPanic(r)
    \/ ClientDisconnect(r)
    \/ \E id \in 0..MaxEndpoints : Arrive(r, id)

\* Every request has been answered and every endpoint closed: the run of the
\* test is over.
Finished ==
    /\ \A r \in Requests : pc[r] \in Answered
    /\ \A e \in Ids : closing[e] = "done"
    /\ UNCHANGED vars

Next == TestStep \/ (\E r \in Requests : RequestStep(r)) \/ Finished

\* Close runs to its end, the server goroutines are scheduled, and a handler
\* that is able to run returns unless it is a stream whose context is still
\* alive.  Nothing makes one that is blocked go on.
Fairness ==
    /\ \A e \in Ids : WF_vars(CloseTake(e) \/ CloseReturn(e)
                              \/ \E r \in Requests : CloseCancel(e, r))
    /\ \A r \in Requests :
        /\ WF_vars(Serve(r))
        /\ WF_vars(/\ pc[r] = "handler"
                   /\ r \in Streams => r \in cancelled
                   /\ HandlerReturn(r))

Spec == Init /\ [][Next]_vars
FairSpec == Spec /\ Fairness

-------------------------------------------------------------------------------
(* Properties. *)

TypeOK ==
    /\ lastEndpointID \in 0..MaxEndpoints
    /\ endpoints \subseteq Ids
    /\ newConns \in [Ids -> Seq(Requests)]
    /\ chanOpen \in [Ids -> BOOLEAN]
    /\ cancels \in [Ids -> SUBSET Requests]
    /\ activeConn \in [Ids -> Requests \union {"nil"}]
    /\ closing \in [Ids -> {"no", "unregistered", "cancelling", "done"}]
    /\ cancellers \in [Ids -> SUBSET Requests]
    /\ pc \in [Requests -> {"idle"} \union InServeHTTP \union Answered]
    /\ target \in [Requests -> 0..MaxEndpoints]
    /\ cancelled \subseteq Requests
    /\ received \subseteq Requests
    /\ late \subseteq Requests

\* When Close has returned, every request the endpoint is still serving has
\* a cancelled context, however its registration interleaved with Close
\* ("It also cancels the Context for every active request").
CloseCancelsActive ==
    \A r \in Requests :
        pc[r] \in Active /\ closing[target[r]] = "done" => r \in cancelled

\* A request sent after Close has returned is answered with a 404: it is
\* never served, announced, aborted or answered with a 500.
LateRequestsGet404 ==
    \A r \in late : pc[r] \in {"lookup", "404"}

\* A test that expects no more connections than the channel holds misses
\* none: such a request is in the channel, or received, before its handler
\* runs.  Once its response exists, RequireConnection finds it and
\* RequireNoMoreConnections reports it.
ServedIsAnnounced ==
    \A r \in Requests :
        /\ pc[r] \in HandlerStarted
        /\ Cardinality({q \in Requests : /\ target[q] = target[r]
                                        /\ pc[q] \in Accepted}) <= Capacity
        => \/ r \in received
           \/ \E i \in 1..Len(newConns[target[r]]) : newConns[target[r]][i] = r

\* After Close has returned, every request to the endpoint comes to an end,
\* streams included, unless its handler waits for something other than its
\* context, which Close does not end: Close frees all that it can.
ClosedEndpointDrains ==
    \A e \in Ids : \A r \in Requests :
        (closing[e] = "done" /\ target[r] = e) ~> (pc[r] \in Answered \union {"blocked"})

\* What the comments of serveHTTP and of the channel say: a request is
\* answered by the handler, by a 404 or by a 500 ("the endpoint is already
\* closed"), and announcing it at worst discards the information.
AcceptedRequestsAreAnswered ==
    \A r \in Requests : pc[r] # "aborted"

\* The refinement mapping to the promise made to tests: how far Close has got,
\* who accepted a request, and which handlers run with a live context.
contractStatus ==
    [e \in Ids |-> IF e > lastEndpointID THEN "absent"
                  ELSE IF closing[e] = "no" THEN "open"
                  ELSE IF closing[e] = "done" THEN "closed" ELSE "closing"]
contractOwner ==
    [r \in Requests |-> IF pc[r] \in Accepted THEN target[r] ELSE 0]
contractLive ==
    {r \in Requests : pc[r] \in Active /\ r \notin cancelled}

Contract == INSTANCE EndpointContract WITH
    status <- contractStatus, owner <- contractOwner, live <- contractLive,
    NoEndpoint <- 0

\* The two locks, the channel and the list of cancellers together implement
\* the contract: Close returns only when no request is live.
ImplementsContract == Contract!Spec
===============================================================================
