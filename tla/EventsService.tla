----------------------------- MODULE EventsService -----------------------------
(***************************************************************************)
(* The simulated event-recorder (mockld/events_service.go).  Every post is *)
(* a goroutine of its own: it marks its payload ID as seen in one critical *)
(* section, parses the payload after it, and hands it to the test through  *)
(* a bounded channel on which it may have to wait.                         *)
(*                                                                         *)
(* An SDK posts a payload at most twice.  The second post has the same ID  *)
(* and may come as soon as the first was sent, because the SDK may have    *)
(* given up on the answer or lost it.                                      *)
(***************************************************************************)
EXTENDS Naturals, Sequences

CONSTANTS Payloads,                \* the payloads that SDKs have to deliver
          eventsChannelBufferSize, \* capacity of AnalyticsEventPayloads
          RequireGzip              \* whether gzipMiddleware is in use

ASSUME ConstantsAssumption ==
    /\ eventsChannelBufferSize \in Nat \ {0}
    /\ RequireGzip \in BOOLEAN

VARIABLES
    kind,            \* kind[p]: what the SDK made of the payload
    ignoreDuplicatePayload,
    payloadIDsSeen,  \* the payloads whose ID has been seen
    queue,           \* AnalyticsEventPayloads
    received,        \* what the test took from the channel, oldest first
    post,            \* post[p][n]: the n-th post of payload p
    after            \* history: after[p], the payloads that had been
                     \* acknowledged for good when p was first posted

vars == <<kind, ignoreDuplicatePayload, payloadIDsSeen, queue, received, post, after>>

Attempts == 1..2
Kinds == [id : BOOLEAN, gzip : BOOLEAN, wellFormed : BOOLEAN]
Posted(p, n) == post[p][n] # "new"
Stages == {"new", "reading", "parsing", "sending", "recorded", "discarded", "400", "500"}

Init ==
    /\ kind \in [Payloads -> Kinds]
    /\ ignoreDuplicatePayload = TRUE
    /\ payloadIDsSeen = {}
    /\ queue = <<>>
    /\ received = <<>>
    /\ post = [p \in Payloads |-> [n \in Attempts |-> "new"]]
    /\ after = [p \in Payloads |-> {}]

Goes(p, n, stage) == post' = [post EXCEPT ![p][n] = stage]

\* The SDK has had a 202 for the payload.  A duplicate's says nothing while the
\* post it duplicates is still under way: that one may yet have to wait.
AcknowledgedForGood(p) ==
    \E n \in Attempts :
        \/ post[p][n] = "recorded"
        \/ /\ post[p][n] = "discarded"
           /\ \A m \in Attempts : post[p][m] \notin {"parsing", "sending"}

-------------------------------------------------------------------------------
(* A post.  Its stage in the end says how it was answered: both "recorded" *)
(* and "discarded" are a 202.                                              *)

\* The request arrives; gzipMiddleware refuses it or lets it through.
Post(p, n) ==
    /\ post[p][n] = "new"
    /\ n = 2 => Posted(p, 1)
    /\ Goes(p, n, IF RequireGzip /\ ~kind[p].gzip THEN "400" ELSE "reading")
    /\ after' = IF n = 1
                THEN [after EXCEPT ![p] = {q \in Payloads : AcknowledgedForGood(q)}]
                ELSE after
    /\ UNCHANGED <<kind, ignoreDuplicatePayload, payloadIDsSeen, queue, received>>

\* The body cannot be read to its end.
ReadFails(p, n) ==
    /\ post[p][n] = "reading"
    /\ Goes(p, n, "500")
    /\ UNCHANGED <<kind, ignoreDuplicatePayload, payloadIDsSeen, queue, received, after>>

\* Fault: an ID is marked as seen only once its payload has been recorded.
CheckPayloadID_MarksLater(p, n) ==
    /\ post[p][n] = "reading"
    /\ LET duplicate == kind[p].id /\ \E i \in Attempts : post[p][i] = "recorded"
       IN  Goes(p, n, IF ignoreDuplicatePayload /\ duplicate THEN "discarded" ELSE "parsing")
    /\ UNCHANGED <<kind, ignoreDuplicatePayload, payloadIDsSeen, queue, received, after>>

\* Fault: posts without an ID are taken for duplicates of each other.
CheckPayloadID_NoIDIsDuplicate(p, n) ==
    /\ post[p][n] = "reading"
    /\ LET duplicate == IF kind[p].id THEN p \in payloadIDsSeen
                                      ELSE \E q \in payloadIDsSeen : ~kind[q].id
       IN  Goes(p, n, IF ignoreDuplicatePayload /\ duplicate THEN "discarded" ELSE "parsing")
    /\ payloadIDsSeen' = payloadIDsSeen \union {p}
    /\ UNCHANGED <<kind, ignoreDuplicatePayload, queue, received, after>>

\* The critical section: was the ID seen before, and mark it as seen.
CheckPayloadID(p, n) ==
    /\ post[p][n] = "reading"
    /\ LET duplicate == kind[p].id /\ p \in payloadIDsSeen
       IN  Goes(p, n, IF ignoreDuplicatePayload /\ duplicate THEN "discarded" ELSE "parsing")
    /\ payloadIDsSeen' = IF kind[p].id THEN payloadIDsSeen \union {p} ELSE payloadIDsSeen
    /\ UNCHANGED <<kind, ignoreDuplicatePayload, queue, received, after>>

Parse(p, n) ==
    /\ post[p][n] = "parsing"
    /\ Goes(p, n, IF kind[p].wellFormed THEN "sending" ELSE "400")
    /\ UNCHANGED <<kind, ignoreDuplicatePayload, payloadIDsSeen, queue, received, after>>

\* Fault: the newest payload overtakes the ones that wait.
Send_First(p, n) ==
    /\ post[p][n] = "sending"
    /\ Len(queue) < eventsChannelBufferSize
    /\ queue' = <<p>> \o queue
    /\ Goes(p, n, "recorded")
    /\ UNCHANGED <<kind, ignoreDuplicatePayload, payloadIDsSeen, received, after>>

\* Fault: the handler waits until the test has taken what was there.
Send_WaitsForEmpty(p, n) ==
    /\ post[p][n] = "sending"
    /\ queue = <<>>
    /\ queue' = Append(queue, p)
    /\ Goes(p, n, "recorded")
    /\ UNCHANGED <<kind, ignoreDuplicatePayload, payloadIDsSeen, received, after>>

\* Fault: the capacity is checked against the wrong bound.
Send_OffByOne(p, n) ==
    /\ post[p][n] = "sending"
    /\ Len(queue) <= eventsChannelBufferSize
    /\ queue' = Append(queue, p)
    /\ Goes(p, n, "recorded")
    /\ UNCHANGED <<kind, ignoreDuplicatePayload, payloadIDsSeen, received, after>>

\* The 202 was given before, but reaches the SDK only when the handler
\* returns, after the send.
Send(p, n) ==
    /\ post[p][n] = "sending"
    /\ Len(queue) < eventsChannelBufferSize
    /\ queue' = Append(queue, p)
    /\ Goes(p, n, "recorded")
    /\ UNCHANGED <<kind, ignoreDuplicatePayload, payloadIDsSeen, received, after>>

-------------------------------------------------------------------------------
(* The test's goroutine. *)

AwaitAnalyticsEventPayload ==
    /\ queue # <<>>
    /\ received' = Append(received, Head(queue))
    /\ queue' = Tail(queue)
    /\ UNCHANGED <<kind, ignoreDuplicatePayload, payloadIDsSeen, post, after>>

\* A test that is about retries turns the filter off.
SetIgnoreDuplicatePayload ==
    /\ ignoreDuplicatePayload
    /\ ignoreDuplicatePayload' = FALSE
    /\ UNCHANGED <<kind, payloadIDsSeen, queue, received, post, after>>

-------------------------------------------------------------------------------
PostStep(p, n) ==
    Post(p, n) \/ ReadFails(p, n) \/ CheckPayloadID(p, n) \/ Parse(p, n) \/ Send(p, n)

Next ==
    \/ AwaitAnalyticsEventPayload \/ SetIgnoreDuplicatePayload
    \/ \E p \in Payloads, n \in Attempts : PostStep(p, n)

Spec == Init /\ [][Next]_vars

\* The goroutine of a post is scheduled.  Nothing is assumed of the test,
\* which may stop taking payloads at any time.
FairSpec ==
    /\ Spec
    /\ \A p \in Payloads, n \in Attempts :
        WF_vars(CheckPayloadID(p, n)) /\ WF_vars(Parse(p, n)) /\ WF_vars(Send(p, n))

-------------------------------------------------------------------------------
TypeOK ==
    /\ kind \in [Payloads -> Kinds]
    /\ ignoreDuplicatePayload \in BOOLEAN
    /\ payloadIDsSeen \subseteq Payloads
    /\ queue \in Seq(Payloads) /\ Len(queue) <= eventsChannelBufferSize
    /\ received \in Seq(Payloads)
    /\ post \in [Payloads -> [Attempts -> Stages]]
    /\ after \in [Payloads -> SUBSET Payloads]

Recorded == received \o queue
Occurrences(p) == {i \in 1..Len(Recorded) : Recorded[i] = p}
Finished(p, n) == post[p][n] \notin {"new", "reading", "parsing", "sending"}

\* A payload with an ID is recorded at most once however its posts overlap
\* (doc of SetIgnoreDuplicatePayload: retries must not disrupt tests).
RetriesAreIgnored ==
    \A p \in Payloads : ignoreDuplicatePayload /\ kind[p].id =>
        \A i, j \in Occurrences(p) : i = j

\* A well-formed payload is not lost: when no post of it is in progress and
\* the SDK has had a 202 for one, the test receives or has received it.
AcknowledgedIsRecorded ==
    \A p \in Payloads :
        /\ kind[p].wellFormed
        /\ \A n \in Attempts : Posted(p, n) => Finished(p, n)
        /\ \E n \in Attempts : post[p][n] \in {"recorded", "discarded"}
        => Occurrences(p) # {}

\* An SDK that waits for the 202 to one payload before it posts another has
\* them recorded in that order, and so it is when the 202 was given to a retry
\* that was discarded, provided that the post it repeats had come to its end.
\* When that one still waits for the channel, the order is anything.
OrderOfPosts ==
    \A p \in Payloads : \A q \in after[p] :
        kind[q].wellFormed =>
            \A i \in Occurrences(p) : \E j \in Occurrences(q) : j < i

\* A handler stays blocked only because the channel is full, however long
\* the test has not taken anything from it.
BlocksOnlyWhenFull ==
    \A p \in Payloads, n \in Attempts :
        post[p][n] = "sending" ~>
            post[p][n] = "recorded" \/ Len(queue) = eventsChannelBufferSize

\* The state as the contract sees it: a post has its outcome when its ID has been
\* checked, and what the test has received is the first part of the record.
contractOutcome ==
    [p \in Payloads |-> [n \in Attempts |->
        IF post[p][n] \in {"new", "reading"} THEN "none"
        ELSE IF post[p][n] = "500" \/ (RequireGzip /\ ~kind[p].gzip) THEN "refused"
        ELSE IF post[p][n] = "discarded" THEN "duplicate"
        ELSE IF post[p][n] = "recorded" THEN "recorded"
        ELSE IF kind[p].wellFormed THEN "accepted" ELSE "malformed"]]

Contract == INSTANCE EventsContract WITH
    Ahead <- eventsChannelBufferSize, filter <- ignoreDuplicatePayload,
    outcome <- contractOutcome, log <- Recorded, taken <- Len(received)

\* Handlers, table of IDs and channel are together one log: whichever posts of a
\* payload overlap, one is decided to be the first, and what it carries is
\* recorded unless it is malformed.
ImplementsContract == Contract!Spec
===============================================================================
