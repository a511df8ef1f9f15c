------------------------------ MODULE SDKClients ------------------------------
(***************************************************************************)
(* The SDK clients that tests create (sdktests/testapi_sdk_client.go), the *)
(* entities of the test service that stand for them                        *)
(* (framework/harness/test_service.go) and the counter by which the        *)
(* harness keeps tests of a singleton SDK from having two clients.         *)
(*                                                                         *)
(* A client belongs to the test scope that created it: the cleanups of a   *)
(* scope of TestScope are here the clients whose Close it defers.          *)
(***************************************************************************)
EXTENDS TestScope

CONSTANTS Clients,    \* the clients that tests may ask for
          Singleton   \* whether the SDK has the "singleton" capability

ASSUME SingletonAssumption == Singleton \in BOOLEAN

VARIABLES
    currentlyExistingClientInstances,
    entity,    \* entity[c]: the client in the test service; "lost" if the
               \* service made it and the harness saw an error
    closed,    \* the clients whose closeOnce has fired
    deletes,   \* the clients for which a DELETE was sent, in order
    guarded,   \* history: clients created by NewSDKClient
    refusals,  \* history: the live clients at each refusal by the guard
    leaked     \* history: clients whose test was skipped after creating them

clientVars == <<currentlyExistingClientInstances, entity, closed, deletes, guarded,
                refusals, leaked>>
vars == <<scopeVars, clientVars>>

\* The clients that are alive and that the harness knows of.
Live == {c \in Clients : entity[c] = "live"}

\* All that are alive in the test service.
Alive == {c \in Clients : entity[c] \in {"live", "lost"}}

Elements(s) == {s[i] : i \in 1..Len(s)}

Init ==
    /\ ScopeInit
    /\ currentlyExistingClientInstances = 0
    /\ entity = [c \in Clients |-> "none"]
    /\ closed = {}
    /\ deletes = <<>>
    /\ guarded = {}
    /\ refusals = {}
    /\ leaked = {}

-------------------------------------------------------------------------------
(* TestServiceEntity and SDKClient. *)

\* TestServiceEntity.Close, under closeOnce.  The service disposes of the
\* entity, or the request fails.
CloseEntity(c) ==
    IF c \in closed
    THEN UNCHANGED <<entity, closed, deletes>>
    ELSE /\ closed' = closed \union {c}
         /\ deletes' = Append(deletes, c)
         /\ \E outcomeOfDelete \in {"live", "gone"} :
                entity' = [entity EXCEPT ![c] = outcomeOfDelete]

\* Fault: the entity has no closeOnce.
Close_Always(c) ==
    /\ currentlyExistingClientInstances' = currentlyExistingClientInstances - 1
    /\ closed' = closed \union {c}
    /\ deletes' = Append(deletes, c)
    /\ \E outcomeOfDelete \in {"live", "gone"} :
           entity' = [entity EXCEPT ![c] = outcomeOfDelete]

\* SDKClient.Close counts down on every call.
Close(c) ==
    /\ currentlyExistingClientInstances' = currentlyExistingClientInstances - 1
    /\ CloseEntity(c)

\* T.run calls the innermost cleanup that is left: the last one deferred.
RunCleanup ==
    /\ scopes # <<>>
    /\ Top.phase = "cleanup"
    /\ Top.cleanups # <<>>
    /\ LET n == Len(Top.cleanups)
       IN  /\ Close(Top.cleanups[n])
           /\ SetTop([Top EXCEPT !.cleanups = SubSeq(@, 1, n - 1)])
    /\ UNCHANGED <<results, junit, counts, outcome, guarded, refusals, leaked>>

\* A test closes a client itself; no test does so twice.
CloseByTest ==
    /\ InTest
    /\ \E c \in Live \ closed : Close(c)
    /\ UNCHANGED <<scopeVars, guarded, refusals, leaked>>

\* Fault: the Close of a new client is not deferred.
Created_NotDeferred(c) ==
    /\ entity[c] = "none"
    /\ entity' = [entity EXCEPT ![c] = "live"]
    /\ UNCHANGED scopes

\* TryNewSDKClient: the service creates the entity, and its Close is deferred.
Created(c) ==
    /\ entity[c] = "none"
    /\ entity' = [entity EXCEPT ![c] = "live"]
    /\ SetTop([Top EXCEPT !.cleanups = Append(@, c)])

TryNewSDKClient(c) ==
    /\ InTest
    /\ Created(c)
    /\ UNCHANGED <<results, junit, counts, outcome, currentlyExistingClientInstances,
                   closed, deletes, guarded, refusals, leaked>>

Refused == Singleton /\ currentlyExistingClientInstances + 1 = 2

NewSDKClient(c) ==
    /\ InTest
    /\ ~Refused
    /\ currentlyExistingClientInstances' = currentlyExistingClientInstances + 1
    /\ Created(c)
    /\ guarded' = guarded \union {c}
    /\ UNCHANGED <<results, junit, counts, outcome, closed, deletes, refusals, leaked>>

\* The guard counts back and fails the test.
NewSDKClientRefused ==
    /\ InTest
    /\ Refused
    /\ refusals' = refusals \union {Live}
    /\ Leave(TRUE, TRUE)
    /\ UNCHANGED <<counts, outcome, currentlyExistingClientInstances, entity, closed, deletes,
                   guarded, leaked>>

\* Fault: the counter is not restored when the service refuses.
NewSDKClientFails_KeepsCount ==
    /\ InTest
    /\ ~Refused
    /\ Leave(TRUE, TRUE)
    /\ currentlyExistingClientInstances' = currentlyExistingClientInstances + 1
    /\ UNCHANGED <<counts, outcome, entity, closed, deletes, guarded, refusals, leaked>>

\* The service creates the client, and its answer is lost, or cannot be read,
\* or has no Location: the harness has an error and nothing to close.
CreationLost(c) ==
    /\ entity[c] = "none"
    /\ entity' = [entity EXCEPT ![c] = "lost"]

\* The configuration is invalid, or the service refuses, or its answer is
\* lost: counted back, and the test fails.
NewSDKClientFails ==
    /\ InTest
    /\ ~Refused
    /\ Leave(TRUE, TRUE)
    /\ UNCHANGED entity \/ \E c \in Clients : CreationLost(c)
    /\ UNCHANGED <<counts, outcome, currentlyExistingClientInstances, closed, deletes,
                   guarded, refusals, leaked>>

\* The caller of TryNewSDKClient gets the error and goes on.
TryNewSDKClientFails ==
    /\ InTest
    /\ \E c \in Clients : CreationLost(c)
    /\ UNCHANGED <<scopeVars, currentlyExistingClientInstances, closed, deletes, guarded,
                   refusals, leaked>>

\* A test that calls Skip leaves its cleanups behind.
SkipTest ==
    /\ Skip
    /\ leaked' = leaked \union Elements(Top.cleanups)
    /\ UNCHANGED <<currentlyExistingClientInstances, entity, closed, deletes, guarded,
                   refusals>>

-------------------------------------------------------------------------------
Next ==
    \/ StartTest /\ UNCHANGED clientVars
    \/ ExcludeTest /\ UNCHANGED clientVars
    \/ NonCritical /\ UNCHANGED clientVars
    \/ Errorf /\ UNCHANGED clientVars
    \/ Return /\ UNCHANGED clientVars
    \/ Panic /\ UNCHANGED clientVars
    \/ EndOfCleanups /\ UNCHANGED clientVars
    \/ EndRun /\ UNCHANGED clientVars
    \/ SkipTest
    \/ RunCleanup
    \/ CloseByTest
    \/ NewSDKClientRefused
    \/ NewSDKClientFails
    \/ TryNewSDKClientFails
    \/ \E c \in Clients : NewSDKClient(c) \/ TryNewSDKClient(c)

Spec == Init /\ [][Next]_vars

-------------------------------------------------------------------------------
TypeOK ==
    /\ ScopeTypeOK
    /\ \A d \in 1..Len(scopes) : scopes[d].cleanups \in Seq(Clients)
    /\ currentlyExistingClientInstances \in Int
    /\ entity \in [Clients -> {"none", "live", "lost", "gone"}]
    /\ closed \subseteq Clients
    /\ deletes \in Seq(Clients)
    /\ guarded \subseteq Clients
    /\ refusals \subseteq SUBSET Clients
    /\ leaked \subseteq Clients

\* The test service gets at most one DELETE for a client, and none for one
\* that it has disposed of, however often the client is closed.
OneDelete ==
    /\ \A i, j \in 1..Len(deletes) : deletes[i] = deletes[j] => i = j
    /\ \A c \in Clients : entity[c] = "gone" => c \in Elements(deletes)

\* The guard never fails a test that has no other client alive.
RefusedOnlyIfLive == \A live \in refusals : live # {}

\* A client that is alive has been closed in vain, will be closed when the
\* open test that created it ends, was left behind by a skipped test, or was
\* lost in its creation.
NoClientOutlivesItsTest ==
    \A c \in Alive \ (closed \union leaked) :
        \/ entity[c] = "lost"
        \/ \E d \in 1..Len(scopes) : c \in Elements(scopes[d].cleanups)

\* The message of the guard: NewSDKClient fails the test if a client exists
\* already and the SDK is a singleton.  Only the clients it made are counted.
SingletonGuard ==
    Singleton => Cardinality((Live \intersect guarded) \ closed) <= 1

\* The comment on Defer: a cleanup function is guaranteed to be called when
\* its test scope exits for any reason.  Close is deferred for the clients
\* that the harness knows of.
DeferIsGuaranteed == outcome # Running => Live \subseteq closed
===============================================================================
