-------------------------- MODULE MockEndpointProofs --------------------------
(***************************************************************************)
(* Proofs about MockEndpoint for any set of requests, any number of        *)
(* endpoints and any channel capacity.                                     *)
(***************************************************************************)
EXTENDS MockEndpoint, FiniteSetTheorems, TLAPS

\* A request past Lookup was routed to an existing endpoint, and only that
\* endpoint can hold its canceller.
RoutedInv ==
    /\ \A r \in Requests :
           pc[r] \in {"body", "register"} \union Accepted => target[r] \in Ids
    /\ \A e \in Ids : \A r \in cancels[e] : target[r] = e /\ pc[r] # "idle"

\* Until its handler ends, the canceller of an accepted request is held by
\* its endpoint or by Close, unless it has been called.
CancellerHeld ==
    \A r \in Requests : pc[r] \in Active =>
        r \in cancels[target[r]] \union cancellers[target[r]] \union cancelled

\* Once Close has taken the cancellers, the channel is closed and the
\* endpoint holds cancellers of rejected requests only.  Close has cancellers
\* to call only while it runs its loop.
CloseInv ==
    \A e \in Ids :
        /\ closing[e] \in {"cancelling", "done"} =>
               /\ ~chanOpen[e]
               /\ \A r \in cancels[e] : pc[r] \notin Active
        /\ closing[e] # "cancelling" => cancellers[e] = {}

\* Endpoints exist up to the counter, and a closed one has lost its route.
RouteInv ==
    /\ \A e \in Ids : closing[e] # "no" => e <= lastEndpointID /\ e \notin endpoints
    /\ \A e \in Ids : e \in endpoints \/ chanOpen[e] => e <= lastEndpointID

\* The inductive invariant behind CloseCancelsActive.
IInv == TypeOK /\ RoutedInv /\ RouteInv /\ CancellerHeld /\ CloseInv

\* The requests that endpoint e has accepted.  Only finitely many requests have been
\* sent.
AcceptedBy(e) == {q \in Requests : target[q] = e /\ pc[q] \in Accepted}
SentSoFar == {q \in Requests : pc[q] # "idle"}

\* The channel of an endpoint holds requests of that endpoint whose handler has been
\* called, each once.
ChannelInv ==
    \A e \in Ids :
        /\ \A i \in 1..Len(newConns[e]) :
               target[newConns[e][i]] = e /\ pc[newConns[e][i]] \in HandlerStarted
        /\ \A i, j \in 1..Len(newConns[e]) : newConns[e][i] = newConns[e][j] => i = j

Announced(r) ==
    r \in received \/ \E i \in 1..Len(newConns[target[r]]) : newConns[target[r]][i] = r

\* The inductive invariant behind ServedIsAnnounced.
AnnounceInv == IsFiniteSet(SentSoFar) /\ ChannelInv /\ ServedIsAnnounced

LateInv ==
    \A r \in late : /\ target[r] \in Ids
                    /\ closing[target[r]] = "done"
                    /\ pc[r] \in {"lookup", "404"}

-------------------------------------------------------------------------------
\* The state space of every variable is preserved by the test's steps ...
LEMMA TypeTest == TypeOK /\ TestStep => TypeOK'
  <1> SUFFICES ASSUME TypeOK, TestStep PROVE TypeOK'
    OBVIOUS
  <1> USE ConstantsAssumption DEF TypeOK, Ids, managerVars, channelVars, closeVars
  <1>1. CASE newMockEndpoint
    BY <1>1 DEF newMockEndpoint
  <1>2. ASSUME NEW e \in Ids, ReceiveConnection(e) PROVE TypeOK'
    <2>1. newConns[e] \in Seq(Requests) /\ newConns[e] # <<>>
      BY <1>2 DEF ReceiveConnection
    <2>2. Head(newConns[e]) \in Requests /\ Tail(newConns[e]) \in Seq(Requests)
      BY <2>1
    <2> QED
      BY <1>2, <2>2 DEF ReceiveConnection
  <1>3. ASSUME NEW e \in Ids, CloseUnregister(e) PROVE TypeOK'
    BY <1>3 DEF CloseUnregister
  <1>4. ASSUME NEW e \in Ids, CloseTake(e) PROVE TypeOK'
    BY <1>4 DEF CloseTake
  <1>5. ASSUME NEW e \in Ids, CloseReturn(e) PROVE TypeOK'
    BY <1>5 DEF CloseReturn
  <1>6. ASSUME NEW e \in Ids, NEW r \in Requests, CloseCancel(e, r) PROVE TypeOK'
    BY <1>6 DEF CloseCancel
  <1>7. ASSUME NEW r \in Requests, CancelConnection(r) PROVE TypeOK'
    BY <1>7 DEF CancelConnection
  <1> QED
    BY <1>1, <1>2, <1>3, <1>4, <1>5, <1>6, <1>7 DEF TestStep

\* ... by those of serveHTTP ...
LEMMA TypeRequest ==
    ASSUME TypeOK, RoutedInv, NEW r \in Requests, RequestStep(r)
    PROVE  TypeOK'
  <1> USE ConstantsAssumption
      DEF TypeOK, Ids, managerVars, channelVars, closeVars, InServeHTTP, Answered
  <1>1. ASSUME NEW id \in 0..MaxEndpoints, Arrive(r, id) PROVE TypeOK'
    BY <1>1 DEF Arrive
  <1>2. CASE Lookup(r)
    BY <1>2 DEF Lookup
  <1>3. CASE ReadBody(r)
    BY <1>3 DEF ReadBody
  <1>4. CASE Register(r)
    BY <1>4 DEF Register
  <1>5. CASE PushOpen(r)
    <2>1. target[r] \in Ids
      BY <1>5 DEF PushOpen, RoutedInv, Accepted, Active
    <2>2. Append(newConns[target[r]], r) \in Seq(Requests)
      BY <2>1
    <2> QED
      BY <1>5, <2>1, <2>2 DEF PushOpen
  <1>6. CASE PushClosed(r)
    BY <1>6 DEF PushClosed
  <1>7. CASE HandlerReturn(r)
    BY <1>7 DEF HandlerReturn
  <1>11. CASE HandlerBlocks(r)
    BY <1>11 DEF HandlerBlocks
  <1>8. CASE HandlerPanic(r)
    BY <1>8 DEF HandlerPanic
  <1>9. CASE Unregister(r)
    BY <1>9 DEF Unregister
  <1>10. CASE ClientDisconnect(r)
    BY <1>10 DEF ClientDisconnect
  <1> QED
    BY <1>1, <1>2, <1>3, <1>4, <1>5, <1>6, <1>7, <1>8, <1>9, <1>10, <1>11
       DEF RequestStep, Serve

\* ... and the auxiliary invariants by both.
LEMMA InvTest == IInv /\ TestStep => IInv'
  <1> SUFFICES ASSUME IInv, TestStep PROVE IInv'
    OBVIOUS
  <1>0. TypeOK'
    BY TypeTest DEF IInv
  <1> USE ConstantsAssumption
      DEF IInv, TypeOK, RoutedInv, RouteInv, CancellerHeld, CloseInv, Ids,
          Accepted, Active, HandlerStarted, managerVars, channelVars, closeVars
  <1>1. CASE newMockEndpoint
    <2> DEFINE new == lastEndpointID + 1
    <2>1. /\ lastEndpointID' = new
          /\ endpoints' = endpoints \union {new}
          /\ chanOpen' = [chanOpen EXCEPT ![new] = TRUE]
          /\ UNCHANGED <<cancels, closing, cancellers, pc, target, cancelled>>
      BY <1>1 DEF newMockEndpoint
    <2>2. new \in Ids /\ closing[new] = "no"
      BY <1>1 DEF newMockEndpoint
    <2>3. RoutedInv' /\ CancellerHeld'
      BY <2>1
    <2>4. RouteInv'
      BY <2>1, <2>2
    <2>5. CloseInv'
      BY <2>1, <2>2
    <2> QED
      BY <1>0, <2>3, <2>4, <2>5
  <1>2. ASSUME NEW e \in Ids, ReceiveConnection(e) PROVE IInv'
    BY <1>0, <1>2 DEF ReceiveConnection
  <1>3. ASSUME NEW e \in Ids, CloseUnregister(e) PROVE IInv'
    BY <1>0, <1>3 DEF CloseUnregister
  <1>4. ASSUME NEW e \in Ids, CloseTake(e) PROVE IInv'
    <2>1. RoutedInv' /\ RouteInv'
      BY <1>4 DEF CloseTake
    <2>2. CancellerHeld'
      <3>1. cancellers[e] = {} /\ pc' = pc /\ target' = target /\ cancelled' = cancelled
        BY <1>4 DEF CloseTake
      <3>2. \A f \in Ids : cancels[f] \union cancellers[f]
                          \subseteq cancels'[f] \union cancellers'[f]
        BY <1>4, <3>1 DEF CloseTake
      <3>3. \A r \in Requests : pc[r] \in Active => target[r] \in Ids
        OBVIOUS
      <3> HIDE DEF Accepted, Active, HandlerStarted, RoutedInv, RouteInv, CloseInv
      <3> QED
        BY <3>1, <3>2, <3>3
    <2>3. CloseInv'
      <3> HIDE DEF Accepted, Active, HandlerStarted, RoutedInv, RouteInv, CancellerHeld
      <3> QED
        BY <1>4 DEF CloseTake
    <2> QED
      BY <1>0, <2>1, <2>2, <2>3
  <1>5. ASSUME NEW e \in Ids, CloseReturn(e) PROVE IInv'
    BY <1>0, <1>5 DEF CloseReturn
  <1>6. ASSUME NEW e \in Ids, NEW r \in Requests, CloseCancel(e, r) PROVE IInv'
    <2>1. RoutedInv' /\ RouteInv'
      BY <1>6 DEF CloseCancel
    <2>2. CancellerHeld'
      BY <1>6 DEF CloseCancel
    <2>3. CloseInv'
      BY <1>6 DEF CloseCancel
    <2> QED
      BY <1>0, <2>1, <2>2, <2>3
  <1>7. ASSUME NEW r \in Requests, CancelConnection(r) PROVE IInv'
    BY <1>0, <1>7 DEF CancelConnection
  <1> QED
    BY <1>1, <1>2, <1>3, <1>4, <1>5, <1>6, <1>7 DEF TestStep

LEMMA InvRequest ==
    ASSUME IInv, NEW r \in Requests, RequestStep(r)
    PROVE  IInv'
  <1>0. TypeOK'
    BY TypeRequest DEF IInv
  <1> USE ConstantsAssumption
      DEF IInv, TypeOK, RoutedInv, RouteInv, CancellerHeld, CloseInv, Ids, InServeHTTP,
          Accepted, Active, HandlerStarted, managerVars, channelVars, closeVars
  <1>1. ASSUME NEW id \in 0..MaxEndpoints, Arrive(r, id) PROVE IInv'
    <2>1. RoutedInv' /\ RouteInv'
      BY <1>1 DEF Arrive
    <2>2. CancellerHeld'
      BY <1>1 DEF Arrive
    <2>3. CloseInv'
      BY <1>1 DEF Arrive
    <2> QED
      BY <1>0, <2>1, <2>2, <2>3
  <1>2. CASE Lookup(r)
    <2>1. RoutedInv' /\ RouteInv'
      BY <1>2 DEF Lookup
    <2>2. CancellerHeld'
      BY <1>2 DEF Lookup
    <2>3. CloseInv'
      BY <1>2 DEF Lookup
    <2> QED
      BY <1>0, <2>1, <2>2, <2>3
  <1>3. CASE ReadBody(r)
    <2>1. RoutedInv' /\ RouteInv'
      BY <1>3 DEF ReadBody
    <2>2. CancellerHeld'
      BY <1>3 DEF ReadBody
    <2>3. CloseInv'
      BY <1>3 DEF ReadBody
    <2> QED
      BY <1>0, <2>1, <2>2, <2>3
  <1>4. CASE Register(r)
    <2>1. RoutedInv' /\ RouteInv'
      BY <1>4 DEF Register
    <2>2. CancellerHeld'
      BY <1>4 DEF Register
    <2>3. CloseInv'
      BY <1>4 DEF Register
    <2> QED
      BY <1>0, <2>1, <2>2, <2>3
  <1>5. CASE PushOpen(r)
    <2>1. RoutedInv' /\ RouteInv'
      BY <1>5 DEF PushOpen
    <2>2. CancellerHeld'
      BY <1>5 DEF PushOpen
    <2>3. CloseInv'
      BY <1>5 DEF PushOpen
    <2> QED
      BY <1>0, <2>1, <2>2, <2>3
  <1>6. CASE PushClosed(r)
    <2>1. RoutedInv' /\ RouteInv'
      BY <1>6 DEF PushClosed
    <2>2. CancellerHeld'
      BY <1>6 DEF PushClosed
    <2>3. CloseInv'
      BY <1>6 DEF PushClosed
    <2> QED
      BY <1>0, <2>1, <2>2, <2>3
  <1>7. CASE HandlerReturn(r)
    <2>1. RoutedInv' /\ RouteInv'
      BY <1>7 DEF HandlerReturn
    <2>2. CancellerHeld'
      BY <1>7 DEF HandlerReturn
    <2>3. CloseInv'
      BY <1>7 DEF HandlerReturn
    <2> QED
      BY <1>0, <2>1, <2>2, <2>3
  <1>11. CASE HandlerBlocks(r)
    <2>1. RoutedInv' /\ RouteInv'
      BY <1>11 DEF HandlerBlocks
    <2>2. CancellerHeld'
      BY <1>11 DEF HandlerBlocks
    <2>3. CloseInv'
      BY <1>11 DEF HandlerBlocks
    <2> QED
      BY <1>0, <2>1, <2>2, <2>3
  <1>8. CASE HandlerPanic(r)
    <2>1. RoutedInv' /\ RouteInv'
      BY <1>8 DEF HandlerPanic
    <2>2. CancellerHeld'
      BY <1>8 DEF HandlerPanic
    <2>3. CloseInv'
      BY <1>8 DEF HandlerPanic
    <2> QED
      BY <1>0, <2>1, <2>2, <2>3
  <1>9. CASE Unregister(r)
    <2>1. RoutedInv' /\ RouteInv'
      BY <1>9 DEF Unregister
    <2>2. CancellerHeld'
      BY <1>9 DEF Unregister
    <2>3. CloseInv'
      BY <1>9 DEF Unregister
    <2> QED
      BY <1>0, <2>1, <2>2, <2>3
  <1>10. CASE ClientDisconnect(r)
    <2>1. RoutedInv' /\ RouteInv'
      BY <1>10 DEF ClientDisconnect
    <2>2. CancellerHeld'
      BY <1>10 DEF ClientDisconnect
    <2>3. CloseInv'
      BY <1>10 DEF ClientDisconnect
    <2> QED
      BY <1>0, <2>1, <2>2, <2>3
  <1> QED
    BY <1>1, <1>2, <1>3, <1>4, <1>5, <1>6, <1>7, <1>8, <1>9, <1>10, <1>11
       DEF RequestStep, Serve

THEOREM Invariance == Spec => []IInv
  <1>1. Init => IInv
    BY ConstantsAssumption
       DEF Init, IInv, TypeOK, RoutedInv, RouteInv, CancellerHeld, CloseInv, Ids,
           InServeHTTP, Answered, Accepted, Active, HandlerStarted
  <1>2. IInv /\ [Next]_vars => IInv'
    <2> SUFFICES ASSUME IInv, [Next]_vars PROVE IInv'
      OBVIOUS
    <2>1. CASE TestStep
      BY <2>1, InvTest
    <2>2. ASSUME NEW r \in Requests, RequestStep(r) PROVE IInv'
      BY <2>2, InvRequest
    <2>3. CASE UNCHANGED vars
      BY <2>3 DEF vars, IInv, TypeOK, RoutedInv, RouteInv, CancellerHeld, CloseInv
    <2> QED
      BY <2>1, <2>2, <2>3 DEF Next, Finished
  <1> QED
    BY <1>1, <1>2, PTL DEF Spec

\* Every variable keeps to its domain in every reachable state.
THEOREM TypeCorrect == Spec => []TypeOK
  <1>1. IInv => TypeOK
    BY DEF IInv
  <1> QED
    BY <1>1, Invariance, PTL

\* However requests and Close interleave, when Close has returned no request
\* of the endpoint is being served with a live context: its canceller was
\* held by the endpoint (but then the request was rejected), or taken by
\* Close (and called), or called already.
THEOREM CloseCancels == Spec => []CloseCancelsActive
  <1>1. IInv => CloseCancelsActive
    <2> SUFFICES ASSUME IInv, NEW r \in Requests, pc[r] \in Active,
                        closing[target[r]] = "done"
                 PROVE  r \in cancelled
      BY DEF CloseCancelsActive
    <2>1. target[r] \in Ids
      BY DEF IInv, RoutedInv, Accepted
    <2>2. r \notin cancels[target[r]] /\ r \notin cancellers[target[r]]
      BY <2>1 DEF IInv, CloseInv
    <2> QED
      BY <2>2 DEF IInv, CancellerHeld
  <1> QED
    BY <1>1, Invariance, PTL

-------------------------------------------------------------------------------
\* Requests sent after Close returned find no route: Close removed it before
\* it went on, and routes are never restored.
THEOREM LateRequests == Spec => []LateRequestsGet404
  <1>1. Init => LateInv
    BY DEF Init, LateInv
  <1>2. IInv /\ LateInv /\ [Next]_vars => LateInv'
    <2> SUFFICES ASSUME IInv, LateInv, [Next]_vars PROVE LateInv'
      OBVIOUS
    <2> USE DEF LateInv, IInv, TypeOK, managerVars, channelVars, closeVars
    <2>1. CASE UNCHANGED <<closing, pc, target, late>>
      BY <2>1
    <2>2. CASE newMockEndpoint
      BY <2>1, <2>2 DEF newMockEndpoint
    <2>3. ASSUME NEW e \in Ids,
                 \/ ReceiveConnection(e)
                 \/ CloseUnregister(e) \/ CloseTake(e) \/ CloseReturn(e)
          PROVE  LateInv'
      BY <2>1, <2>3
         DEF ReceiveConnection, CloseUnregister, CloseTake, CloseReturn
    <2>4. ASSUME NEW e \in Ids, NEW r \in Requests, CloseCancel(e, r)
          PROVE  LateInv'
      BY <2>1, <2>4 DEF CloseCancel
    <2>5. ASSUME NEW r \in Requests, CancelConnection(r) \/ ClientDisconnect(r)
          PROVE  LateInv'
      BY <2>1, <2>5 DEF CancelConnection, ClientDisconnect
    <2>6. ASSUME NEW r \in Requests, NEW id \in 0..MaxEndpoints, Arrive(r, id)
          PROVE  LateInv'
      BY <2>6 DEF Arrive
    <2>7. ASSUME NEW r \in Requests, Lookup(r)
          PROVE  LateInv'
      BY <2>7 DEF Lookup, RouteInv
    <2>8. ASSUME NEW r \in Requests,
                 \/ ReadBody(r) \/ Register(r) \/ PushOpen(r) \/ PushClosed(r)
                 \/ HandlerBlocks(r) \/ HandlerReturn(r) \/ HandlerPanic(r)
                 \/ Unregister(r)
          PROVE  LateInv'
      <3> USE <2>8 DEF ReadBody, Register, PushOpen, PushClosed, HandlerBlocks,
                       HandlerReturn, HandlerPanic, Unregister
      <3>1. pc[r] \notin {"lookup", "404"}
        OBVIOUS
      <3>2. UNCHANGED <<closing, target, late>>
        OBVIOUS
      <3>3. \A q \in Requests \ {r} : pc'[q] = pc[q]
        OBVIOUS
      <3> HIDE <2>8 DEF ReadBody, Register, PushOpen, PushClosed, HandlerBlocks,
                        HandlerReturn, HandlerPanic, Unregister
      <3> QED
        BY <3>1, <3>2, <3>3
    <2>9. CASE UNCHANGED vars
      BY <2>1, <2>9 DEF vars
    <2> QED
      BY <2>2, <2>3, <2>4, <2>5, <2>6, <2>7, <2>8, <2>9
         DEF Next, TestStep, RequestStep, Serve, Finished
  <1>3. LateInv => LateRequestsGet404
    BY DEF LateInv, LateRequestsGet404
  <1> QED
    BY <1>1, <1>2, <1>3, Invariance, PTL DEF Spec

-------------------------------------------------------------------------------
\* Every step of the endpoint is a step of the contract or changes nothing
\* that the contract speaks of.
LEMMA ContractSteps ==
    /\ \A e \in Ids :
           Contract!Open(e) \/ Contract!BeginClose(e) \/ Contract!FinishClose(e)
               => Contract!Next
    /\ \A r \in Requests : Contract!End(r) => Contract!Next
    /\ \A r \in Requests, e \in Ids : Contract!Accept(r, e) => Contract!Next
  BY DEF Contract!Next

LEMMA OrderOfIds ==
    TypeOK => \A e \in Ids : e <= lastEndpointID <=> ~(e > lastEndpointID)
  BY ConstantsAssumption DEF TypeOK, Ids

LEMMA ContractTest ==
    ASSUME IInv, TestStep
    PROVE  [Contract!Next]_(Contract!contractVars)
  <1> USE DEF IInv, TypeOK, contractStatus, contractOwner, contractLive,
              managerVars, channelVars, closeVars, Contract!contractVars
  <1>1. CASE newMockEndpoint
    <2>1. PICK new \in Ids : new = lastEndpointID + 1
      BY <1>1, ConstantsAssumption DEF newMockEndpoint, Ids
    <2>2. lastEndpointID' = new /\ UNCHANGED <<closing, pc, target, cancelled>>
      BY <1>1, <2>1 DEF newMockEndpoint
    <2>3. contractStatus[new] = "absent" /\ closing[new] = "no"
      BY <2>1 DEF Ids, RouteInv
    <2>4. contractStatus' = [contractStatus EXCEPT ![new] = "open"]
      <3>1. ASSUME NEW e \in Ids, e # new
            PROVE  e > lastEndpointID <=> e > lastEndpointID'
        BY <2>1, <2>2, <3>1, ConstantsAssumption DEF Ids
      <3>2. ~(new > lastEndpointID')
        BY <2>2, ConstantsAssumption DEF Ids
      <3> QED
        BY <2>2, <2>3, <3>1, <3>2
    <2>5. UNCHANGED <<contractOwner, contractLive>>
      BY <2>2
    <2>6. Contract!Open(new)
      BY <2>3, <2>4, <2>5 DEF Contract!Open
    <2> QED
      BY <2>1, <2>6, ContractSteps
  <1>2. ASSUME NEW e \in Ids, ReceiveConnection(e)
        PROVE  UNCHANGED <<contractStatus, contractOwner, contractLive>>
    BY <1>2 DEF ReceiveConnection
  <1>3. ASSUME NEW e \in Ids, CloseUnregister(e) PROVE Contract!BeginClose(e)
    <2>1. /\ contractStatus[e] = "open"
          /\ contractStatus' = [contractStatus EXCEPT ![e] = "closing"]
      BY <1>3, OrderOfIds DEF CloseUnregister
    <2>2. UNCHANGED <<contractOwner, contractLive>>
      BY <1>3 DEF CloseUnregister
    <2> QED
      BY <2>1, <2>2 DEF Contract!BeginClose
  <1>4. ASSUME NEW e \in Ids, CloseTake(e)
        PROVE  UNCHANGED <<contractStatus, contractOwner, contractLive>>
    BY <1>4 DEF CloseTake
  <1>5. ASSUME NEW e \in Ids, CloseReturn(e) PROVE Contract!FinishClose(e)
    <2>1. \A r \in contractLive : contractOwner[r] # e
      BY <1>5 DEF CloseReturn, CancellerHeld, CloseInv, Accepted
    <2>2. contractStatus' = [contractStatus EXCEPT ![e] = "closed"]
      BY <1>5, OrderOfIds DEF CloseReturn, RouteInv
    <2> QED
      BY <1>5, <2>1, <2>2 DEF CloseReturn, Contract!FinishClose
  <1>6. ASSUME NEW r \in Requests, cancelled' = cancelled \union {r},
               UNCHANGED <<contractStatus, contractOwner, pc>>
        PROVE  \/ Contract!End(r)
               \/ UNCHANGED <<contractStatus, contractOwner, contractLive>>
    BY <1>6 DEF Contract!End
  <1>7. ASSUME NEW e \in Ids, NEW r \in Requests, CloseCancel(e, r)
        PROVE  [Contract!Next]_(Contract!contractVars)
    <2>1. UNCHANGED <<contractStatus, contractOwner>>
      BY <1>7 DEF CloseCancel
    <2> QED
      BY <1>6, <1>7, <2>1 DEF CloseCancel, Contract!Next
  <1>8. ASSUME NEW r \in Requests, CancelConnection(r)
        PROVE  [Contract!Next]_(Contract!contractVars)
    <2>1. UNCHANGED <<contractStatus, contractOwner>>
      BY <1>8 DEF CancelConnection
    <2> QED
      BY <1>6, <1>8, <2>1 DEF CancelConnection, Contract!Next
  <1> QED
    BY <1>1, <1>2, <1>3, <1>4, <1>5, <1>7, <1>8 DEF TestStep, Contract!Next

LEMMA ContractRequest ==
    ASSUME IInv, NEW r \in Requests, RequestStep(r)
    PROVE  [Contract!Next]_(Contract!contractVars)
  <1> USE DEF IInv, TypeOK, contractOwner, contractLive, Accepted, Active,
              HandlerStarted, managerVars, channelVars, closeVars,
              Contract!contractVars
  <1>0. UNCHANGED contractStatus
    BY DEF RequestStep, Serve, Arrive, Lookup, ReadBody, Register, PushOpen,
           PushClosed, HandlerBlocks, HandlerReturn, HandlerPanic, Unregister,
           ClientDisconnect, contractStatus
  <1>1. ASSUME NEW id \in 0..MaxEndpoints, Arrive(r, id)
        PROVE  UNCHANGED <<contractOwner, contractLive>>
    BY <1>1 DEF Arrive
  <1>2. CASE Lookup(r) \/ ReadBody(r)
    <2>1. UNCHANGED <<contractOwner, contractLive>>
      BY <1>2 DEF Lookup, ReadBody
    <2> QED
      BY <1>0, <2>1
  <1>3. CASE Register(r)
    <2>0. PICK e \in Ids : e = target[r]
      BY <1>3 DEF Register, RoutedInv
    <2>1. CASE chanOpen[e]
      <3>1. closing[e] \in {"no", "unregistered"} /\ e <= lastEndpointID
        BY <1>3, <2>1 DEF Register, RouteInv, CloseInv
      <3>2. contractOwner[r] = 0
        BY <1>3 DEF Register
      <3>3. /\ pc' = [pc EXCEPT ![r] = "push"]
            /\ UNCHANGED <<target, cancelled>>
        BY <1>3, <2>0, <2>1 DEF Register
      <3>4. contractOwner' = [contractOwner EXCEPT ![r] = e]
        BY <2>0, <3>3
      <3>5. contractLive' \in {contractLive, contractLive \union {r}}
        BY <1>3, <3>3 DEF Register
      <3>6. contractStatus[e] \in {"open", "closing"}
        BY <3>1, ConstantsAssumption DEF contractStatus, Ids
      <3>7. Contract!Accept(r, e)
        BY <1>0, <3>2, <3>4, <3>5, <3>6 DEF Contract!Accept
      <3> QED
        BY <3>1, <3>7, ContractSteps
    <2>2. CASE ~chanOpen[e]
      <3>1. UNCHANGED <<contractOwner, contractLive>>
        BY <1>3, <2>0, <2>2 DEF Register
      <3> QED
        BY <1>0, <3>1
    <2> QED
      BY <2>1, <2>2
  <1>4. CASE PushOpen(r) \/ HandlerBlocks(r) \/ HandlerReturn(r)
    <2>1. UNCHANGED <<contractOwner, contractLive>>
      BY <1>4 DEF PushOpen, HandlerBlocks, HandlerReturn
    <2> QED
      BY <1>0, <2>1
  <1>5. CASE PushClosed(r) \/ HandlerPanic(r) \/ Unregister(r)
    <2>1. UNCHANGED contractOwner
      BY <1>5 DEF PushClosed, HandlerPanic, Unregister
    <2>2. contractLive' = contractLive \ {r}
      BY <1>5 DEF PushClosed, HandlerPanic, Unregister
    <2>3. CASE r \in contractLive
      <3>1. Contract!End(r)
        BY <1>0, <2>1, <2>2, <2>3 DEF Contract!End
      <3> QED
        BY <3>1, ContractSteps
    <2>4. CASE r \notin contractLive
      <3>1. contractLive' = contractLive
        BY <2>2, <2>4
      <3> QED
        BY <1>0, <2>1, <3>1
    <2> QED
      BY <2>3, <2>4
  <1>6. CASE ClientDisconnect(r)
    <2>1. UNCHANGED contractOwner
      BY <1>6 DEF ClientDisconnect
    <2>2. contractLive' = contractLive \ {r}
      BY <1>6 DEF ClientDisconnect
    <2>3. CASE r \in contractLive
      <3>1. Contract!End(r)
        BY <1>0, <2>1, <2>2, <2>3 DEF Contract!End
      <3> QED
        BY <3>1, ContractSteps
    <2>4. CASE r \notin contractLive
      <3>1. contractLive' = contractLive
        BY <2>2, <2>4
      <3> QED
        BY <1>0, <2>1, <3>1
    <2> QED
      BY <2>3, <2>4
  <1> QED
    BY <1>0, <1>1, <1>2, <1>3, <1>4, <1>5, <1>6 DEF RequestStep, Serve

\* The endpoint keeps the promise made to tests.
THEOREM Refinement == Spec => ImplementsContract
  <1>1. Init => Contract!Init
    BY ConstantsAssumption
       DEF Init, Contract!Init, contractStatus, contractOwner, contractLive,
           Ids, Accepted, Active, HandlerStarted
  <1>2. IInv /\ [Next]_vars => [Contract!Next]_(Contract!contractVars)
    <2> SUFFICES ASSUME IInv, [Next]_vars
                 PROVE  [Contract!Next]_(Contract!contractVars)
      OBVIOUS
    <2>1. ASSUME NEW r \in Requests, RequestStep(r)
          PROVE  [Contract!Next]_(Contract!contractVars)
      BY <2>1, ContractRequest
    <2>2. CASE UNCHANGED vars
      BY <2>2 DEF vars, Contract!contractVars, contractStatus, contractOwner,
                  contractLive
    <2> QED
      BY <2>1, <2>2, ContractTest DEF Next, Finished
  <1> QED
    BY <1>1, <1>2, Invariance, PTL DEF Spec, ImplementsContract, Contract!Spec

-------------------------------------------------------------------------------
(* Announcements. *)

\* A step that takes nothing from the channels, adds nothing, and calls no handler.
Quiet ==
    /\ newConns' = newConns /\ received' = received
    /\ \/ pc' = pc /\ target' = target
       \/ \E r \in Requests :
            /\ \A q \in Requests \ {r} : pc'[q] = pc[q] /\ target'[q] = target[q]
            /\ pc[r] = "idle" \/ target'[r] = target[r]
            /\ pc[r] \in Accepted => pc'[r] \in Accepted
            /\ pc'[r] \in HandlerStarted <=> pc[r] \in HandlerStarted

LEMMA StepKinds ==
    ASSUME IInv, [Next]_vars
    PROVE  \/ Quiet
           \/ \E e \in Ids : ReceiveConnection(e)
           \/ \E r \in Requests : PushOpen(r)
  <1> USE DEF IInv, TypeOK, managerVars, channelVars, closeVars
  <1>1. CASE newMockEndpoint
    BY <1>1 DEF newMockEndpoint, Quiet
  <1>2. ASSUME NEW e \in Ids, CloseUnregister(e) \/ CloseTake(e) \/ CloseReturn(e)
        PROVE  Quiet
    BY <1>2 DEF CloseUnregister, CloseTake, CloseReturn, Quiet
  <1>3. ASSUME NEW e \in Ids, NEW r \in Requests, CloseCancel(e, r)
        PROVE  Quiet
    BY <1>3 DEF CloseCancel, Quiet
  <1>4. ASSUME NEW r \in Requests, CancelConnection(r) \/ ClientDisconnect(r)
        PROVE  Quiet
    BY <1>4 DEF CancelConnection, ClientDisconnect, Quiet
  <1>5. ASSUME NEW r \in Requests, NEW from, NEW to, pc[r] = from,
               pc' = [pc EXCEPT ![r] = to], target' = target,
               newConns' = newConns, received' = received,
               from \in Accepted => to \in Accepted,
               to \in HandlerStarted <=> from \in HandlerStarted
        PROVE  Quiet
    BY <1>5 DEF Quiet
  <1>6. ASSUME NEW r \in Requests, NEW id \in 0..MaxEndpoints, Arrive(r, id)
        PROVE  Quiet
    <2>1. /\ pc[r] = "idle" /\ newConns' = newConns /\ received' = received
          /\ pc' = [pc EXCEPT ![r] = IF id = 0 THEN "404" ELSE "lookup"]
          /\ target' = [target EXCEPT ![r] = id]
      BY <1>6 DEF Arrive
    <2>2. /\ \A q \in Requests \ {r} : pc'[q] = pc[q] /\ target'[q] = target[q]
          /\ pc'[r] \in {"404", "lookup"}
      BY <2>1
    <2>3. pc'[r] \notin HandlerStarted /\ pc[r] \notin HandlerStarted /\ pc[r] \notin Accepted
      BY <2>1, <2>2 DEF HandlerStarted, Accepted, Active
    <2> QED
      BY <2>1, <2>2, <2>3 DEF Quiet
  <1>7. ASSUME NEW r \in Requests, Lookup(r) \/ ReadBody(r) PROVE Quiet
    <2>1. /\ newConns' = newConns /\ received' = received /\ target' = target
          /\ pc[r] \in {"lookup", "body"}
          /\ \E to \in {"body", "404", "register", "500"} : pc' = [pc EXCEPT ![r] = to]
      BY <1>7 DEF Lookup, ReadBody
    <2> QED
      BY <1>5, <2>1 DEF Accepted, Active, HandlerStarted
  <1>8. ASSUME NEW r \in Requests, Register(r) PROVE Quiet
    <2>1. /\ newConns' = newConns /\ received' = received /\ target' = target
          /\ pc[r] = "register"
          /\ \E to \in {"push", "500"} : pc' = [pc EXCEPT ![r] = to]
      BY <1>8 DEF Register
    <2>2. PICK to \in {"push", "500"} : pc' = [pc EXCEPT ![r] = to]
      BY <2>1
    <2>3. "register" \notin Accepted /\ "register" \notin HandlerStarted /\ to \notin HandlerStarted
      BY DEF Accepted, Active, HandlerStarted
    <2> QED
      BY <1>5, <2>1, <2>2, <2>3
  <1>11. ASSUME NEW r \in Requests, PushClosed(r) PROVE Quiet
    <2>1. /\ newConns' = newConns /\ received' = received /\ target' = target
          /\ pc[r] = "push" /\ pc' = [pc EXCEPT ![r] = "aborted"]
      BY <1>11 DEF PushClosed
    <2>2. "aborted" \in Accepted /\ "aborted" \notin HandlerStarted /\ "push" \notin HandlerStarted
      BY DEF Accepted, Active, HandlerStarted
    <2> QED
      BY <1>5, <2>1, <2>2
  <1>9. ASSUME NEW r \in Requests,
               HandlerBlocks(r) \/ HandlerReturn(r) \/ HandlerPanic(r) \/ Unregister(r)
        PROVE  Quiet
    <2>1. /\ newConns' = newConns /\ received' = received /\ target' = target
          /\ pc[r] \in {"handler", "blocked", "cleanup"}
          /\ \E to \in {"blocked", "cleanup", "handlerPanic", "served"} :
                 pc' = [pc EXCEPT ![r] = to]
      BY <1>9 DEF HandlerBlocks, HandlerReturn, HandlerPanic, Unregister
    <2> QED
      BY <1>5, <2>1 DEF Accepted, Active, HandlerStarted
  <1>10. CASE UNCHANGED vars
    BY <1>10 DEF vars, Quiet
  <1> QED
    BY <1>1, <1>2, <1>3, <1>4, <1>6, <1>7, <1>8, <1>9, <1>10, <1>11
       DEF Next, TestStep, RequestStep, Serve, Finished

\* Only requests that were sent count, so that the cardinality of those that an
\* endpoint has accepted means something, and it never decreases.
LEMMA AcceptedGrows ==
    ASSUME IsFiniteSet(SentSoFar), NEW S \in SUBSET Requests, IsFiniteSet(S),
           \A q \in Requests \ S : pc'[q] = pc[q],
           NEW e, \A q \in AcceptedBy(e) : q \in AcceptedBy(e)'
    PROVE  /\ IsFiniteSet(SentSoFar)'
           /\ IsFiniteSet(AcceptedBy(e)) /\ Cardinality(AcceptedBy(e)) \in Nat
           /\ Cardinality(AcceptedBy(e))' \in Nat
           /\ Cardinality(AcceptedBy(e)) <= Cardinality(AcceptedBy(e))'
  <1>1. IsFiniteSet(SentSoFar \union S)
    BY FS_Union
  <1>2. SentSoFar' \in SUBSET (SentSoFar \union S)
    BY DEF SentSoFar
  <1>3. IsFiniteSet(SentSoFar')
    BY <1>1, <1>2, FS_Subset
  <1>4. AcceptedBy(e)' \in SUBSET SentSoFar' /\ AcceptedBy(e) \in SUBSET AcceptedBy(e)'
    BY DEF AcceptedBy, SentSoFar, Accepted, Active, HandlerStarted
  <1>5. IsFiniteSet(AcceptedBy(e)')
    BY <1>3, <1>4, FS_Subset
  <1>6. /\ IsFiniteSet(AcceptedBy(e))
        /\ Cardinality(AcceptedBy(e)) <= Cardinality(AcceptedBy(e)')
    BY <1>4, <1>5, FS_Subset
  <1>7. Cardinality(AcceptedBy(e)) \in Nat /\ Cardinality(AcceptedBy(e)') \in Nat
    BY <1>5, <1>6, FS_CardinalityType
  <1> QED
    BY <1>3, <1>6, <1>7

\* Requests in the channel have been accepted, each is there once, and one that is
\* about to be announced is not among them: there are fewer than were accepted.
LEMMA ChannelFits ==
    ASSUME TypeOK, ChannelInv, NEW e \in Ids, NEW r \in AcceptedBy(e),
           IsFiniteSet(AcceptedBy(e)), pc[r] \notin HandlerStarted
    PROVE  Len(newConns[e]) < Cardinality(AcceptedBy(e))
  <1> DEFINE q == newConns[e]
             A == AcceptedBy(e) \ {r}
  <1>1. q \in Seq(Requests) /\ Len(q) \in Nat
    BY DEF TypeOK
  <1>2. \A i \in 1..Len(q) : q[i] \in A
    BY <1>1 DEF ChannelInv, AcceptedBy, Accepted
  <1>3. q = [i \in 1..Len(q) |-> q[i]]
    BY <1>1
  <1>4. q \in [1..Len(q) -> A]
    BY <1>2, <1>3
  <1>5. \A i, j \in 1..Len(q) : q[i] = q[j] => i = j
    BY DEF ChannelInv
  <1>6. IsFiniteSet(A) /\ Cardinality(A) = Cardinality(AcceptedBy(e)) - 1
    BY FS_RemoveElement
  <1>7. Cardinality(AcceptedBy(e)) \in Nat
    BY FS_CardinalityType
  <1>8. q \in Injection(1..Len(q), A)
    BY <1>1, <1>4, <1>5 DEF Injection, IsInjective
  <1> HIDE DEF q, A
  <1>9. Cardinality(1..Len(q)) <= Cardinality(A)
    BY <1>6, <1>8, FS_Injection
  <1>10. Cardinality(1..Len(q)) = Len(q)
    <2> DEFINE m == Len(q)
    <2>1. 1 \in Int /\ m \in Int /\ m \in Nat
      BY <1>1
    <2> HIDE DEF m
    <2>2. Cardinality(1..m) = IF 1 > m THEN 0 ELSE m - 1 + 1
      BY <2>1, FS_Interval
    <2>3. Cardinality(1..m) = m
      BY <2>1, <2>2
    <2> QED
      BY <2>3 DEF m
  <1> QED
    BY <1>1, <1>6, <1>7, <1>9, <1>10 DEF q

LEMMA AnnounceStep ==
    ASSUME IInv, AnnounceInv, [Next]_vars
    PROVE  AnnounceInv'
  <1>0. /\ newConns \in [Ids -> Seq(Requests)] /\ pc \in [Requests -> {"idle"} \union InServeHTTP \union Answered]
        /\ target \in [Requests -> 0..MaxEndpoints]
        /\ \A r \in Requests : pc[r] \in Accepted => target[r] \in Ids
    BY DEF IInv, TypeOK, RoutedInv
  <1> USE DEF AnnounceInv
  \* What is shown of every step: accepted requests stay with their endpoint.
  <1>1. ASSUME NEW S \in SUBSET Requests, IsFiniteSet(S),
               \A q \in Requests \ S : pc'[q] = pc[q],
               \A q \in Requests : pc[q] \in Accepted =>
                   pc'[q] \in Accepted /\ target'[q] = target[q],
               \A q \in Requests : pc[q] \in Accepted /\ Announced(q) => Announced(q)',
               \A q \in Requests :
                   /\ pc'[q] \in HandlerStarted
                   /\ pc[q] \notin HandlerStarted
                   /\ Cardinality(AcceptedBy(target[q]))' <= Capacity
                   => Announced(q)'
        PROVE  IsFiniteSet(SentSoFar)' /\ ServedIsAnnounced'
    <2>1. ASSUME NEW e PROVE \A q \in AcceptedBy(e) : q \in AcceptedBy(e)'
      BY <1>1 DEF AcceptedBy
    <2>2. IsFiniteSet(SentSoFar)'
      BY <1>1, <2>1, AcceptedGrows
    <2>3. ASSUME NEW q \in Requests, pc'[q] \in HandlerStarted,
                 Cardinality(AcceptedBy(target[q]))' <= Capacity
          PROVE  Announced(q)'
      <3>1. CASE pc[q] \notin HandlerStarted
        BY <1>1, <2>3, <3>1
      <3>2. CASE pc[q] \in HandlerStarted
        <4>1. pc[q] \in Accepted /\ target'[q] = target[q]
          BY <1>1, <3>2 DEF Accepted
        <4>2. PICK e : e = target[q] /\ e = target'[q]
          BY <4>1
        <4>6. Cardinality(AcceptedBy(e))' <= Capacity
          BY <2>3, <4>2
        <4>3. /\ Cardinality(AcceptedBy(e)) \in Nat /\ Cardinality(AcceptedBy(e))' \in Nat
              /\ Cardinality(AcceptedBy(e)) <= Cardinality(AcceptedBy(e))'
          BY <1>1, <2>1, AcceptedGrows
        <4>4. Cardinality(AcceptedBy(target[q])) <= Capacity
          BY <4>2, <4>3, <4>6, ConstantsAssumption
        <4>5. Announced(q)
          BY <3>2, <4>4 DEF ServedIsAnnounced, Announced, AcceptedBy
        <4> QED
          BY <1>1, <4>1, <4>5
      <3> QED
        BY <3>1, <3>2
    <2> QED
      BY <2>2, <2>3 DEF ServedIsAnnounced, Announced, AcceptedBy
  <1>2. CASE Quiet
    <2>1. /\ newConns' = newConns /\ received' = received
          /\ \A q \in Requests : pc[q] \in Accepted =>
                 pc'[q] \in Accepted /\ target'[q] = target[q]
          /\ \A q \in Requests : pc'[q] \in HandlerStarted <=> pc[q] \in HandlerStarted
      BY <1>2 DEF Quiet, Accepted, Active, HandlerStarted
    <2>2. PICK S \in SUBSET Requests :
              IsFiniteSet(S) /\ \A q \in Requests \ S : pc'[q] = pc[q]
      <3>1. CASE pc' = pc /\ target' = target
        <4>1. IsFiniteSet({}) /\ {} \in SUBSET Requests /\ \A q \in Requests : pc'[q] = pc[q]
          BY <3>1, FS_EmptySet
        <4> QED
          BY <4>1
      <3>2. ASSUME NEW r \in Requests, \A q \in Requests \ {r} : pc'[q] = pc[q]
            PROVE  \E S \in SUBSET Requests :
                       IsFiniteSet(S) /\ \A q \in Requests \ S : pc'[q] = pc[q]
        <4>1. IsFiniteSet({r}) /\ {r} \in SUBSET Requests
          BY <3>2, FS_Singleton
        <4> QED
          BY <3>2, <4>1
      <3> QED
        BY <1>2, <3>1, <3>2 DEF Quiet
    <2>3. ASSUME NEW q \in Requests, pc[q] \in Accepted, Announced(q)
          PROVE  Announced(q)'
      BY <2>1, <2>3 DEF Announced
    <2>4. IsFiniteSet(SentSoFar)' /\ ServedIsAnnounced'
      BY <1>1, <2>1, <2>2, <2>3
    <2>5. ChannelInv'
      <3>1. ASSUME NEW e \in Ids, NEW i \in 1..Len(newConns[e])
            PROVE  target'[newConns[e][i]] = e /\ pc'[newConns[e][i]] \in HandlerStarted
        <4>1. newConns[e][i] \in Requests
          BY <1>0, <3>1
        <4>2. target[newConns[e][i]] = e /\ pc[newConns[e][i]] \in HandlerStarted
          BY <3>1 DEF ChannelInv
        <4> QED
          BY <2>1, <4>1, <4>2 DEF Accepted
      <3> QED
        BY <2>1, <3>1 DEF ChannelInv
    <2> QED
      BY <2>4, <2>5
  <1>3. ASSUME NEW e \in Ids, ReceiveConnection(e)
        PROVE  AnnounceInv'
    <2> DEFINE c == newConns[e]
    <2>1. /\ pc' = pc /\ target' = target /\ c # <<>> /\ c \in Seq(Requests)
          /\ received' = received \union {Head(c)}
          /\ newConns' = [newConns EXCEPT ![e] = Tail(c)]
      BY <1>0, <1>3 DEF ReceiveConnection
    <2> HIDE DEF c
    <2>2. /\ Len(c) \in Nat /\ Len(c) > 0 /\ Head(c) = c[1]
          /\ Len(Tail(c)) = Len(c) - 1
          /\ \A i \in 1..Len(c) - 1 : Tail(c)[i] = c[i + 1]
      BY <2>1
    <2>3. /\ newConns'[e] = Tail(c)
          /\ \A d \in Ids \ {e} : newConns'[d] = newConns[d]
      BY <1>0, <2>1
    <2>4. ASSUME NEW q \in Requests, pc[q] \in Accepted, Announced(q)
          PROVE  Announced(q)'
      <3>1. CASE q \in received
        BY <2>1, <3>1 DEF Announced
      <3>2. CASE target[q] # e
        BY <1>0, <2>1, <2>3, <2>4, <3>2 DEF Announced
      <3>3. CASE target[q] = e /\ q \notin received
        <4>1. PICK i \in 1..Len(c) : c[i] = q
          BY <2>4, <3>3 DEF Announced, c
        <4>2. CASE i = 1
          BY <2>1, <2>2, <4>1, <4>2 DEF Announced
        <4>3. CASE i # 1
          <5>1. i - 1 \in 1..Len(Tail(c)) /\ Tail(c)[i - 1] = q
            BY <2>2, <4>1, <4>3
          <5> QED
            BY <2>1, <2>3, <3>3, <5>1 DEF Announced
        <4> QED
          BY <4>2, <4>3
      <3> QED
        BY <3>1, <3>2, <3>3
    <2>5. {} \in SUBSET Requests /\ IsFiniteSet({})
      BY FS_EmptySet
    <2>6. IsFiniteSet(SentSoFar)' /\ ServedIsAnnounced'
      BY <1>1, <2>1, <2>4, <2>5
    <2>7. ChannelInv'
      <3>1. ASSUME NEW i \in 1..Len(Tail(c))
            PROVE  target'[Tail(c)[i]] = e /\ pc'[Tail(c)[i]] \in HandlerStarted
        <4>1. i + 1 \in 1..Len(c) /\ Tail(c)[i] = c[i + 1]
          BY <2>2
        <4> QED
          BY <2>1, <4>1 DEF ChannelInv, c
      <3>2. ASSUME NEW i \in 1..Len(Tail(c)), NEW j \in 1..Len(Tail(c)), Tail(c)[i] = Tail(c)[j]
            PROVE  i = j
        <4>1. /\ i + 1 \in 1..Len(c) /\ j + 1 \in 1..Len(c) /\ i \in Nat /\ j \in Nat
              /\ c[i + 1] = c[j + 1]
          BY <2>2, <3>2
        <4>2. i + 1 = j + 1
          BY <4>1 DEF ChannelInv, c
        <4> QED
          BY <4>1, <4>2
      <3> QED
        BY <2>1, <2>3, <3>1, <3>2 DEF ChannelInv
    <2> QED
      BY <2>6, <2>7
  <1>4. ASSUME NEW r \in Requests, PushOpen(r)
        PROVE  AnnounceInv'
    <2>1. pc[r] = "push" /\ target[r] \in Ids
      BY <1>0, <1>4 DEF PushOpen, Accepted, Active
    <2>2. PICK e \in Ids : e = target[r]
      BY <2>1
    <2> DEFINE c == newConns[e]
    <2>3. /\ target' = target /\ received' = received /\ pc' = [pc EXCEPT ![r] = "handler"]
          /\ \/ /\ Len(c) < Capacity
                /\ newConns' = [newConns EXCEPT ![e] = Append(c, r)]
             \/ Len(c) >= Capacity /\ newConns' = newConns
      <3>1. c \in Seq(Requests) /\ Len(c) \in Nat /\ Capacity \in Nat
        BY <1>0, ConstantsAssumption
      <3> QED
        BY <1>4, <2>2, <3>1 DEF PushOpen
    <2>4. c \in Seq(Requests) /\ Len(c) \in Nat /\ Capacity \in Nat
      BY <1>0, ConstantsAssumption
    <2> HIDE DEF c
    <2>5. /\ pc'[r] = "handler" /\ "handler" \in HandlerStarted /\ "handler" \in Accepted
          /\ \A q \in Requests \ {r} : pc'[q] = pc[q]
          /\ "push" \in Accepted /\ "push" \notin HandlerStarted
      BY <1>0, <2>3 DEF HandlerStarted, Accepted, Active
    <2>6. \A d \in Ids : \A i \in 1..Len(newConns[d]) : newConns[d][i] # r
      BY <2>1, <2>5 DEF ChannelInv
    <2>7. /\ \A d \in Ids \ {e} : newConns'[d] = newConns[d]
          /\ \/ newConns'[e] = c
             \/ newConns'[e] = Append(c, r)
      BY <1>0, <2>3 DEF c
    <2>8. /\ Append(c, r) \in Seq(Requests) /\ Len(Append(c, r)) = Len(c) + 1
          /\ Append(c, r)[Len(c) + 1] = r
          /\ \A i \in 1..Len(c) : Append(c, r)[i] = c[i] /\ i \in 1..Len(c) + 1
          /\ \A i \in 1..Len(c) + 1 : i = Len(c) + 1 \/ i \in 1..Len(c)
      BY <2>4
    <2>9. ASSUME NEW q \in Requests, pc[q] \in Accepted, Announced(q)
          PROVE  Announced(q)'
      <3>1. target[q] \in Ids
        BY <1>0, <2>9
      <3>2. CASE q \in received
        BY <2>3, <3>2 DEF Announced
      <3>3. CASE target[q] # e
        BY <2>3, <2>7, <2>9, <3>1, <3>3 DEF Announced
      <3>4. CASE target[q] = e /\ q \notin received
        <4>1. PICK i \in 1..Len(c) : c[i] = q
          BY <2>9, <3>4 DEF Announced, c
        <4> QED
          BY <2>3, <2>7, <2>8, <3>4, <4>1 DEF Announced
      <3> QED
        BY <3>2, <3>3, <3>4
    <2>10. {r} \in SUBSET Requests /\ IsFiniteSet({r})
      BY FS_Singleton
    <2>11. \A q \in Requests : pc[q] \in Accepted =>
               pc'[q] \in Accepted /\ target'[q] = target[q]
      BY <2>3, <2>5
    \* If the channel is full, too many requests have been accepted.
    <2>12. ASSUME Cardinality(AcceptedBy(e))' <= Capacity
           PROVE  newConns' = [newConns EXCEPT ![e] = Append(c, r)]
      <3>1. \A q \in AcceptedBy(e) : q \in AcceptedBy(e)'
        BY <2>11 DEF AcceptedBy
      <3>2. /\ IsFiniteSet(AcceptedBy(e)) /\ Cardinality(AcceptedBy(e)) \in Nat
            /\ Cardinality(AcceptedBy(e))' \in Nat
            /\ Cardinality(AcceptedBy(e)) <= Cardinality(AcceptedBy(e))'
        BY <2>5, <2>10, <3>1, AcceptedGrows
      <3>3. r \in AcceptedBy(e) /\ pc[r] \notin HandlerStarted
        BY <2>1, <2>2, <2>5 DEF AcceptedBy
      <3>4. Len(c) < Cardinality(AcceptedBy(e))
        BY <3>2, <3>3, ChannelFits DEF c, IInv
      <3>5. Len(c) < Capacity
        BY <2>4, <2>12, <3>2, <3>4
      <3> QED
        BY <2>3, <2>4, <3>5
    <2>13. ASSUME NEW q \in Requests, pc'[q] \in HandlerStarted, pc[q] \notin HandlerStarted,
                  Cardinality(AcceptedBy(target[q]))' <= Capacity
           PROVE  Announced(q)'
      <3>1. q = r /\ target'[q] = e
        BY <2>2, <2>3, <2>5, <2>13
      <3>2. Cardinality(AcceptedBy(e))' <= Capacity
        BY <2>13, <3>1
      <3>3. newConns'[e] = Append(c, r)
        BY <1>0, <2>12, <3>2
      <3>4. Len(c) + 1 \in 1..Len(Append(c, r)) /\ Append(c, r)[Len(c) + 1] = r
        BY <2>4, <2>8
      <3> QED
        BY <3>1, <3>3, <3>4 DEF Announced
    <2>14. IsFiniteSet(SentSoFar)' /\ ServedIsAnnounced'
      BY <1>1, <2>5, <2>9, <2>10, <2>11, <2>13
    <2>15. ChannelInv'
      <3>1. ASSUME NEW d \in Ids, NEW i \in 1..Len(newConns[d])
            PROVE  target'[newConns[d][i]] = d /\ pc'[newConns[d][i]] \in HandlerStarted
        <4>1. newConns[d][i] \in Requests
          BY <1>0
        <4>2. target[newConns[d][i]] = d /\ pc[newConns[d][i]] \in HandlerStarted
          BY DEF ChannelInv
        <4>3. newConns[d][i] # r
          BY <2>6
        <4> QED
          BY <2>3, <2>5, <4>1, <4>2, <4>3
      <3>2. ASSUME NEW d \in Ids, newConns'[d] = newConns[d]
            PROVE  /\ \A i \in 1..Len(newConns'[d]) :
                          target'[newConns'[d][i]] = d /\ pc'[newConns'[d][i]] \in HandlerStarted
                   /\ \A i, j \in 1..Len(newConns'[d]) :
                          newConns'[d][i] = newConns'[d][j] => i = j
        BY <3>1, <3>2 DEF ChannelInv
      <3>3. ASSUME newConns'[e] = Append(c, r)
            PROVE  /\ \A i \in 1..Len(newConns'[e]) :
                          target'[newConns'[e][i]] = e /\ pc'[newConns'[e][i]] \in HandlerStarted
                   /\ \A i, j \in 1..Len(newConns'[e]) :
                          newConns'[e][i] = newConns'[e][j] => i = j
        <4>1. \A i \in 1..Len(c) : target'[c[i]] = e /\ pc'[c[i]] \in HandlerStarted
          BY <3>1 DEF c
        <4>2. target'[r] = e /\ pc'[r] \in HandlerStarted
          BY <2>2, <2>3, <2>5
        <4>3. \A i \in 1..Len(c) + 1 : target'[Append(c, r)[i]] = e
                                          /\ pc'[Append(c, r)[i]] \in HandlerStarted
          BY <2>8, <4>1, <4>2
        <4>4. \A i, j \in 1..Len(c) : c[i] = c[j] => i = j
          BY DEF ChannelInv, c
        <4>5. \A i \in 1..Len(c) : c[i] # r
          BY <2>6 DEF c
        <4>6. ASSUME NEW i \in 1..Len(c) + 1, NEW j \in 1..Len(c) + 1,
                     Append(c, r)[i] = Append(c, r)[j]
              PROVE  i = j
          <5>1. CASE i \in 1..Len(c) /\ j \in 1..Len(c)
            <6>1. c[i] = c[j]
              BY <2>8, <4>6, <5>1
            <6> QED
              BY <4>4, <5>1, <6>1
          <5>2. CASE i \in 1..Len(c) /\ j = Len(c) + 1
            BY <2>8, <4>5, <4>6, <5>2
          <5>3. CASE i = Len(c) + 1 /\ j \in 1..Len(c)
            BY <2>8, <4>5, <4>6, <5>3
          <5> QED
            BY <2>8, <5>1, <5>2, <5>3
        <4> QED
          BY <2>8, <3>3, <4>3, <4>6
      <3>4. \A d \in Ids :
                   /\ \A i \in 1..Len(newConns'[d]) :
                          target'[newConns'[d][i]] = d /\ pc'[newConns'[d][i]] \in HandlerStarted
                   /\ \A i, j \in 1..Len(newConns'[d]) :
                          newConns'[d][i] = newConns'[d][j] => i = j
        BY <2>7, <3>2, <3>3 DEF c
      <3> QED
        BY <3>4 DEF ChannelInv
    <2> QED
      BY <2>14, <2>15
  <1> QED
    BY <1>2, <1>3, <1>4, StepKinds

\* A test that expects no more requests than the channel holds misses none: until a
\* request is announced or received, the channel holds fewer than were accepted.
THEOREM Announcements == Spec => []ServedIsAnnounced
  <1>1. Init => AnnounceInv
    <2> SUFFICES ASSUME Init PROVE AnnounceInv
      OBVIOUS
    <2>1. SentSoFar = {}
      BY DEF Init, SentSoFar
    <2>2. IsFiniteSet(SentSoFar)
      BY <2>1, FS_EmptySet
    <2>3. ChannelInv /\ ServedIsAnnounced
      BY DEF Init, ChannelInv, ServedIsAnnounced, HandlerStarted
    <2> QED
      BY <2>2, <2>3 DEF AnnounceInv
  <1>2. AnnounceInv => ServedIsAnnounced
    BY DEF AnnounceInv
  <1>3. IInv /\ AnnounceInv /\ [Next]_vars => AnnounceInv'
    BY AnnounceStep
  <1> QED
    BY <1>1, <1>2, <1>3, Invariance, PTL DEF Spec

-------------------------------------------------------------------------------
(* The requests that are aborted. *)

\* While Close keeps off a request between its registration and its announcement, the
\* channel that the request is about to be put into is open.
PushInv ==
    \A r \in Requests : /\ pc[r] = "push" => chanOpen[target[r]]
                        /\ pc[r] # "aborted"

\* Close takes no endpoint with such a request.
CloseKeepsOff == \A e \in Ids : CloseTake(e) => \A r \in Requests : pc[r] = "push" => target[r] # e

LEMMA PushStep ==
    ASSUME IInv, PushInv, [Next]_vars, [CloseKeepsOff]_vars
    PROVE  PushInv'
  <1>1. /\ pc \in [Requests -> {"idle"} \union InServeHTTP \union Answered]
        /\ target \in [Requests -> 0..MaxEndpoints] /\ chanOpen \in [Ids -> BOOLEAN]
        /\ \A r \in Requests : pc[r] = "push" => target[r] \in Ids
    BY DEF IInv, TypeOK, RoutedInv, Accepted, Active
  <1>2. CASE newMockEndpoint
    BY <1>1, <1>2 DEF newMockEndpoint, PushInv
  <1>3. ASSUME NEW e \in Ids, CloseTake(e) PROVE PushInv'
    <2>1. /\ pc' = pc /\ target' = target
          /\ chanOpen' = [chanOpen EXCEPT ![e] = FALSE] /\ closing' # closing
      BY <1>3 DEF CloseTake, IInv, TypeOK
    <2>2. \A r \in Requests : pc[r] = "push" => target[r] # e
      BY <1>3, <2>1 DEF CloseKeepsOff, vars
    <2> QED
      BY <1>1, <2>1, <2>2 DEF PushInv
  <1>4. ASSUME NEW e \in Ids,
               \/ ReceiveConnection(e) \/ CloseUnregister(e) \/ CloseReturn(e)
               \/ \E r \in Requests : CloseCancel(e, r)
        PROVE  PushInv'
    <2>1. pc' = pc /\ target' = target /\ chanOpen' = chanOpen
      BY <1>4 DEF ReceiveConnection, CloseUnregister, CloseReturn, CloseCancel, channelVars
    <2> QED
      BY <2>1 DEF PushInv
  <1>5. CASE \E r \in Requests : CancelConnection(r)
    BY <1>5 DEF CancelConnection, channelVars, PushInv
  <1>6. CASE TestStep
    BY <1>2, <1>3, <1>4, <1>5, <1>6 DEF TestStep
  <1>7. ASSUME NEW r \in Requests, RequestStep(r) PROVE PushInv'
    <2>1. chanOpen' = chanOpen
      BY <1>7 DEF RequestStep, Serve, Lookup, ReadBody, Register, PushOpen, PushClosed,
                  HandlerBlocks, HandlerReturn, HandlerPanic, Unregister, ClientDisconnect,
                  Arrive, channelVars
    <2>2. CASE \E id \in 0..MaxEndpoints : Arrive(r, id)
      <3>1. PICK id \in 0..MaxEndpoints : Arrive(r, id)
        BY <2>2
      <3>2. /\ pc'[r] \in {"404", "lookup"}
            /\ \A q \in Requests : q # r => pc'[q] = pc[q] /\ target'[q] = target[q]
        BY <1>1, <3>1 DEF Arrive
      <3> QED
        BY <2>1, <3>2 DEF PushInv
    <2>3. CASE ~\E id \in 0..MaxEndpoints : Arrive(r, id)
      <3>1. /\ target' = target /\ \A q \in Requests : q # r => pc'[q] = pc[q]
            /\ pc'[r] = "push" => chanOpen[target[r]] \/ pc[r] = "push"
        BY <1>1, <1>7, <2>3
           DEF RequestStep, Serve, Lookup, ReadBody, Register, PushOpen, PushClosed,
               HandlerBlocks, HandlerReturn, HandlerPanic, Unregister, ClientDisconnect
      <3>2. pc'[r] = "aborted" => PushClosed(r) \/ pc[r] = "aborted"
        BY <1>1, <1>7, <2>3
           DEF RequestStep, Serve, Lookup, ReadBody, Register, PushOpen,
               HandlerBlocks, HandlerReturn, HandlerPanic, Unregister, ClientDisconnect
      <3>3. ~PushClosed(r)
        BY DEF PushClosed, PushInv
      <3> QED
        BY <2>1, <3>1, <3>2, <3>3 DEF PushInv
    <2> QED
      BY <2>2, <2>3
  <1>8. CASE UNCHANGED vars
    BY <1>8 DEF vars, PushInv
  <1> QED
    BY <1>6, <1>7, <1>8 DEF Next, Finished

\* Only one interleaving breaks the promise of serveHTTP that an accepted request is
\* answered: Close takes the channel between the registration of a request and its
\* announcement (framework/harness/mock_endpoints.go:212-231 and 303-307).  Without it
\* no request is aborted.
THEOREM AnsweredUnlessCloseIntervenes ==
    Spec /\ [][CloseKeepsOff]_vars => []AcceptedRequestsAreAnswered
  <1>1. Init => PushInv
    BY DEF Init, PushInv
  <1>2. IInv /\ PushInv /\ [Next]_vars /\ [CloseKeepsOff]_vars => PushInv'
    BY PushStep
  <1>3. PushInv => AcceptedRequestsAreAnswered
    BY DEF PushInv, AcceptedRequestsAreAnswered
  <1> QED
    BY <1>1, <1>2, <1>3, Invariance, PTL DEF Spec
===============================================================================
