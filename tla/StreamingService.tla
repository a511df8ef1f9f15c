--------------------------- MODULE StreamingService ---------------------------
(***************************************************************************)
(* The simulated streaming service (mockld/streaming_service.go) on top of *)
(* the eventsource library, whose server has one goroutine, here the loop, *)
(* that owns the subscriptions and takes one request at a time: a          *)
(* subscription, an event to publish, or the end of a subscription.        *)
(*                                                                         *)
(* The goroutine of the test calls SetInitialData, RefreshAll and          *)
(* PushEvent one after the other; the critical sections of the service's   *)
(* lock interleave with the loop, and Publish waits until the loop takes   *)
(* the event.                                                              *)
(***************************************************************************)
EXTENDS Naturals, Sequences

CONSTANTS Conns,       \* the stream connections that SDKs may open
          MaxVersion,  \* bound on the versions of the initial data
          MaxPushes,   \* bound on the calls of PushEvent
          MaxRefreshes, \* bound on the calls of RefreshAll that publish
          BufferSize   \* capacity of the library's channel per subscription

ASSUME ConstantsAssumption ==
    /\ MaxVersion \in Nat \ {0}
    /\ MaxPushes \in Nat
    /\ MaxRefreshes \in Nat
    /\ BufferSize \in Nat \ {0}
    /\ "none" \notin Conns

VARIABLES
    initialData,   \* version of the data set; 0: Serialize() is nil
    started,
    queuedEvents,
    publishing,    \* the event the test is blocked on in Publish, if any
    loop,          \* what the library's goroutine is doing
    conn,          \* conn[c]: stage of the connection
    hungUp,        \* connections whose client or context has gone
    sent,          \* sent[c]: events put into c's channel, oldest first
    unread,        \* unread[c]: entries of that channel not yet written
    pushes,        \* history: number of calls of PushEvent
    refreshes,     \* history: number of calls of RefreshAll that published
    refreshed,     \* history: data version of the last RefreshAll published,
                   \* or that which the service was created with
    base,          \* history: base[k] is refreshed at the time of push k
    audience,      \* history: audience[k] had connected by the time of push k
    first          \* history: the connection of the first Replay

serviceVars == <<initialData, started, queuedEvents>>
connVars == <<conn, hungUp, sent, unread>>
historyVars == <<pushes, refreshes, refreshed, base, audience, first>>
vars == <<serviceVars, publishing, loop, connVars, historyVars>>

Put(v) == [name |-> "put", n |-> v]
Push(k) == [name |-> "push", n |-> k]
Idle == [at |-> "idle"]

Init ==
    /\ initialData \in {0, 1}
    /\ started = FALSE
    /\ queuedEvents = <<>>
    /\ publishing = <<>>
    /\ loop = Idle
    /\ conn = [c \in Conns |-> "new"]
    /\ hungUp = {}
    /\ sent = [c \in Conns |-> <<>>]
    /\ unread = [c \in Conns |-> 0]
    /\ pushes = 0
    /\ refreshes = 0
    /\ refreshed = initialData
    /\ base = <<>>
    /\ audience = <<>>
    /\ first = "none"

-------------------------------------------------------------------------------
(* The test's goroutine. *)

SetInitialData ==
    /\ publishing = <<>>
    /\ initialData < MaxVersion
    /\ initialData' = initialData + 1
    /\ UNCHANGED <<started, queuedEvents, publishing, loop, connVars, historyVars>>

\* makePutEvent under the read lock, then Publish; nothing if there is no data.
RefreshAll ==
    /\ publishing = <<>>
    /\ initialData # 0
    /\ refreshes < MaxRefreshes
    /\ refreshes' = refreshes + 1
    /\ publishing' = <<Put(initialData)>>
    /\ UNCHANGED <<serviceVars, loop, connVars, pushes, refreshed, base, audience, first>>

\* Under the lock: queue the event, or decide to publish it.
PushEvent ==
    /\ publishing = <<>>
    /\ pushes < MaxPushes
    /\ pushes' = pushes + 1
    /\ base' = Append(base, refreshed)
    /\ audience' = Append(audience, {c \in Conns : conn[c] # "new"})
    /\ IF started
       THEN publishing' = <<Push(pushes')>> /\ UNCHANGED queuedEvents
       ELSE queuedEvents' = Append(queuedEvents, Push(pushes')) /\ UNCHANGED publishing
    /\ UNCHANGED <<initialData, started, loop, connVars, refreshes, refreshed, first>>

-------------------------------------------------------------------------------
(* The library's goroutine and the HTTP handlers. *)

Subscribed == {c \in Conns : conn[c] \in {"subscribed", "leaving"}}

\* Fault: the send waits for room instead of giving up on the subscription.
TrySend_Unbounded(cs, events) ==
    /\ sent' = [c \in Conns |-> IF c \in cs THEN sent[c] \o events ELSE sent[c]]
    /\ unread' = [c \in Conns |-> IF c \in cs THEN unread[c] + 1 ELSE unread[c]]
    /\ UNCHANGED conn

\* Send a batch of events to each of some subscriptions without waiting; one
\* whose channel is full is closed and forgotten.
TrySend(cs, events) ==
    LET full == {c \in cs : unread[c] = BufferSize}
        ok == cs \ full
    IN  /\ sent' = [c \in Conns |-> IF c \in ok THEN sent[c] \o events ELSE sent[c]]
        /\ unread' = [c \in Conns |-> IF c \in ok THEN unread[c] + 1 ELSE unread[c]]
        /\ conn' = [c \in Conns |-> IF c \in full THEN "closed" ELSE conn[c]]

\* Fault: the loop waits for slow clients instead of closing their streams.
LoopPublish_Blocks ==
    /\ loop = Idle
    /\ publishing # <<>>
    /\ \A c \in Subscribed : unread[c] < BufferSize
    /\ TrySend(Subscribed, publishing)
    /\ publishing' = <<>>
    /\ refreshed' = IF publishing[1].name = "put" THEN publishing[1].n ELSE refreshed
    /\ UNCHANGED <<serviceVars, loop, hungUp, pushes, refreshes, base,
                   audience, first>>

LoopPublish ==
    /\ loop = Idle
    /\ publishing # <<>>
    /\ TrySend(Subscribed, publishing)
    /\ publishing' = <<>>
    /\ refreshed' = IF publishing[1].name = "put" THEN publishing[1].n ELSE refreshed
    /\ UNCHANGED <<serviceVars, loop, hungUp, pushes, refreshes, base,
                   audience, first>>

\* The endpoint announces the connection and calls the stream handler, which
\* waits for the loop to take the subscription.
Connect(c) ==
    /\ conn[c] = "new"
    /\ conn' = [conn EXCEPT ![c] = "connecting"]
    /\ UNCHANGED <<serviceVars, publishing, loop, hungUp, sent, unread, historyVars>>

\* The loop takes a subscription and calls Replay, which runs in the loop.
LoopSubscribe(c) ==
    /\ loop = Idle
    /\ conn[c] = "connecting"
    /\ conn' = [conn EXCEPT ![c] = "subscribed"]
    /\ loop' = [at |-> "replay", conn |-> c]
    /\ UNCHANGED <<serviceVars, publishing, hungUp, sent, unread, historyVars>>

\* Fault: Replay serves the data of the first connection forever.
ReplayPut_Stale ==
    /\ loop.at = "replay"
    /\ loop' = [at |-> "drain", conn |-> loop.conn,
                put |-> IF initialData = 0 THEN <<>> ELSE <<Put(1)>>]
    /\ UNCHANGED <<serviceVars, publishing, connVars, historyVars>>

\* Replay, first critical section: makePutEvent.
ReplayPut ==
    /\ loop.at = "replay"
    /\ loop' = [at |-> "drain", conn |-> loop.conn,
                put |-> IF initialData = 0 THEN <<>> ELSE <<Put(initialData)>>]
    /\ UNCHANGED <<serviceVars, publishing, connVars, historyVars>>

\* Fault: the first Replay forgets to mark the stream as started.
ReplayDrain_NotStarted ==
    /\ loop.at = "drain"
    /\ queuedEvents' = <<>>
    /\ TrySend({loop.conn}, loop.put \o queuedEvents)
    /\ loop' = Idle
    /\ first' = IF first = "none" THEN loop.conn ELSE first
    /\ UNCHANGED <<initialData, started, publishing, hungUp, pushes, refreshes,
                   refreshed, base, audience>>

\* Fault: the queued events are sent ahead of the initial data.
ReplayDrain_QueuedFirst ==
    /\ loop.at = "drain"
    /\ started' = TRUE
    /\ queuedEvents' = IF started THEN queuedEvents ELSE <<>>
    /\ TrySend({loop.conn}, queuedEvents \o loop.put)
    /\ loop' = Idle
    /\ first' = IF first = "none" THEN loop.conn ELSE first
    /\ UNCHANGED <<initialData, publishing, hungUp, pushes, refreshes, refreshed,
                   base, audience>>

\* Fault: the queue is not emptied, and the next client gets it again.
ReplayDrain_KeepsQueue ==
    /\ loop.at = "drain"
    /\ started' = TRUE
    /\ TrySend({loop.conn}, loop.put \o queuedEvents)
    /\ loop' = Idle
    /\ first' = IF first = "none" THEN loop.conn ELSE first
    /\ UNCHANGED <<initialData, queuedEvents, publishing, hungUp, pushes, refreshes,
                   refreshed, base, audience>>

\* Replay, second critical section: the queued events go to the first client.
\* The loop then sends everything as one batch.
ReplayDrain ==
    /\ loop.at = "drain"
    /\ started' = TRUE
    /\ queuedEvents' = IF started THEN queuedEvents ELSE <<>>
    /\ TrySend({loop.conn}, loop.put \o queuedEvents)
    /\ loop' = Idle
    /\ first' = IF first = "none" THEN loop.conn ELSE first
    /\ UNCHANGED <<initialData, publishing, hungUp, pushes, refreshes, refreshed,
                   base, audience>>

\* The handler writes the next entry of its channel to the client.
HandlerWrite(c) ==
    /\ unread[c] > 0
    /\ conn[c] \in {"subscribed", "closed"}
    /\ c \notin hungUp
    /\ unread' = [unread EXCEPT ![c] = @ - 1]
    /\ UNCHANGED <<serviceVars, publishing, loop, conn, hungUp, sent, historyVars>>

\* The client hangs up, or the test cancels the connection.
HangUp(c) ==
    /\ conn[c] \in {"connecting", "subscribed"}
    /\ c \notin hungUp
    /\ hungUp' = hungUp \union {c}
    /\ UNCHANGED <<serviceVars, publishing, loop, conn, sent, unread, historyVars>>

\* The handler notices and asks the loop to end the subscription, or finds
\* its channel closed and has written what was left.
HandlerLeave(c) ==
    /\ \/ /\ conn[c] = "subscribed"
          /\ c \in hungUp
          /\ conn' = [conn EXCEPT ![c] = "leaving"]
       \/ /\ conn[c] = "closed"
          /\ c \in hungUp \/ unread[c] = 0
          /\ conn' = [conn EXCEPT ![c] = "gone"]
    /\ UNCHANGED <<serviceVars, publishing, loop, hungUp, sent, unread, historyVars>>

LoopUnsubscribe(c) ==
    /\ loop = Idle
    /\ conn[c] = "leaving"
    /\ conn' = [conn EXCEPT ![c] = "gone"]
    /\ UNCHANGED <<serviceVars, publishing, loop, hungUp, sent, unread, historyVars>>

-------------------------------------------------------------------------------
TestStep == SetInitialData \/ RefreshAll \/ PushEvent

LoopStep ==
    \/ LoopPublish \/ ReplayPut \/ ReplayDrain
    \/ \E c \in Conns : LoopSubscribe(c) \/ LoopUnsubscribe(c)

ConnStep(c) == Connect(c) \/ HandlerWrite(c) \/ HangUp(c) \/ HandlerLeave(c)

Next == TestStep \/ LoopStep \/ \E c \in Conns : ConnStep(c)

Spec == Init /\ [][Next]_vars

\* The loop's goroutine is scheduled.  Nothing is assumed of the clients,
\* which may stop reading, nor of the choice the loop makes among the
\* channels that are ready, beyond that Go's select does not starve one.
FairSpec ==
    /\ Spec
    /\ WF_vars(ReplayPut) /\ WF_vars(ReplayDrain) /\ SF_vars(LoopPublish)

-------------------------------------------------------------------------------
Events == [name : {"put"}, n : 1..MaxVersion] \union [name : {"push"}, n : 1..MaxPushes]

TypeOK ==
    /\ initialData \in 0..MaxVersion
    /\ started \in BOOLEAN
    /\ queuedEvents \in Seq(Events)
    /\ publishing \in Seq(Events) /\ Len(publishing) <= 1
    /\ \/ loop = Idle
       \/ loop \in [at : {"replay"}, conn : Conns]
       \/ loop \in [at : {"drain"}, conn : Conns, put : Seq(Events)]
    /\ conn \in [Conns -> {"new", "connecting", "subscribed", "leaving", "closed", "gone"}]
    /\ hungUp \subseteq Conns
    /\ sent \in [Conns -> Seq(Events)]
    /\ unread \in [Conns -> 0..BufferSize]
    /\ pushes \in 0..MaxPushes
    /\ refreshes \in 0..MaxRefreshes
    /\ refreshed \in 0..MaxVersion
    /\ Len(base) = pushes /\ Len(audience) = pushes
    /\ first \in Conns \union {"none"}

IsPush(e) == e.name = "push"
Pushed == [k \in 1..pushes |-> Push(k)]

\* The pushed events of a stream are the first n that were pushed, each once and
\* in order.
Carries(s, n) ==
    /\ \A k \in 1..n : \E i \in 1..Len(s) : s[i] = Push(k)
    /\ \A i \in 1..Len(s) : IsPush(s[i]) => s[i].n \in 1..n
    /\ \A i, j \in 1..Len(s) : i < j /\ IsPush(s[i]) /\ IsPush(s[j]) => s[i].n < s[j].n

\* The newest put of a stream is at least as new as v.
Reaches(s, v) ==
    \E i \in 1..Len(s) :
        /\ ~IsPush(s[i]) /\ s[i].n >= v
        /\ \A j \in i+1..Len(s) : ~IsPush(s[j]) => s[j].n >= v

\* A push comes after a put of data at least as new as b says of it, and the data
\* of the puts does not get older.
Follows(s, b) ==
    \A i \in 1..Len(s) :
        IF IsPush(s[i])
        THEN b[s[i].n] > 0 => \E j \in 1..i-1 : ~IsPush(s[j]) /\ s[j].n >= b[s[i].n]
        ELSE \A j \in 1..i-1 : ~IsPush(s[j]) => s[j].n <= s[i].n

\* The first client receives every event ever pushed, once and in order,
\* whether it was pushed before or after the client connected (doc of
\* PushEvent): before the first Replay all of them are queued, and from then
\* on its stream holds all but the one that Publish is waiting to hand over.
FirstClientSeesEveryPush ==
    \/ first = "none" /\ queuedEvents = Pushed
    \/ first # "none" /\ conn[first] \in {"closed", "gone"}
    \/ first # "none" /\ Carries(sent[first] \o publishing, pushes)

\* Once RefreshAll has returned, the newest put that any live subscription
\* has been sent is at least as new as the data that was refreshed, and before
\* that it is at least the data that the service was created with.
RefreshReachesAll ==
    \A c \in Conns :
        conn[c] = "subscribed" /\ (loop # Idle => loop.conn # c) /\ refreshed > 0 =>
            Reaches(sent[c], refreshed)

\* On every stream, an event comes after a put with the data that the service
\* was created with or, when a RefreshAll had returned before it was pushed,
\* with the data of that or newer, and the data never goes back to an older
\* version.  Data that SetInitialData has only replaced is not promised.
PushesFollowTheirData == \A c \in Conns : Follows(sent[c], base)

\* The test never stays blocked in Publish, even if no client reads.
PublishReturns == publishing # <<>> ~> publishing = <<>>

\* The state as the contract sees it: a stream opens when its Replay has ended, and
\* an event is pushed when the loop publishes it.
contractStage ==
    [c \in Conns |->
        IF conn[c] \in {"new", "connecting"} \/ (loop # Idle /\ loop.conn = c) THEN "new"
        ELSE IF conn[c] \in {"subscribed", "leaving"} THEN "open" ELSE "over"]
contractPushed ==
    IF publishing # <<>> /\ publishing[1].name = "push" THEN pushes - 1 ELSE pushes

Contract == INSTANCE StreamingContract WITH
    data <- initialData, pushed <- contractPushed, stage <- contractStage, stream <- sent

\* Between its opening and its end a stream gets every event once, all streams
\* get the events in one order, and each opens with the data or with what became
\* of it since the last refresh.
ImplementsContract == Contract!Spec

\* Doc of PushEvent: an event goes "to all clients that are currently
\* connected to the stream".  Here a client counts as connected when its
\* request has been announced to the test.
ConnectedClientsGetPush ==
    \A c \in Conns : \A k \in 1..pushes :
        /\ c \in audience[k] /\ c \notin hungUp
        /\ conn[c] = "subscribed" /\ loop = Idle /\ publishing = <<>>
        => \E i \in 1..Len(sent[c]) : sent[c][i] = Push(k)
===============================================================================
