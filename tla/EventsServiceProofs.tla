-------------------------- MODULE EventsServiceProofs --------------------------
(***************************************************************************)
(* Proofs about EventsService for any set of payloads and any capacity of  *)
(* the channel.                                                            *)
(***************************************************************************)
EXTENDS EventsService, TLAPS

\* The stages of a post that was not taken for a duplicate; what ends in one of
\* them, unless the payload is malformed, is recorded.
Passed == {"parsing", "sending", "recorded"}

\* The second post comes after the first.
FirstInv == \A p \in Payloads : Posted(p, 2) => Posted(p, 1)

\* The ID of a payload that has passed was marked; an ID that is marked is that
\* of a payload which has passed, unless it is malformed.
SeenInv ==
    \A p \in Payloads :
        /\ \A n \in Attempts : kind[p].id /\ post[p][n] \in Passed => p \in payloadIDsSeen
        /\ p \in payloadIDsSeen =>
               \/ ~kind[p].wellFormed
               \/ \E n \in Attempts : post[p][n] \in Passed

\* Only what is a duplicate is discarded.
DiscardedInv ==
    \A p \in Payloads, n \in Attempts : post[p][n] = "discarded" => p \in payloadIDsSeen

\* While the filter is on, one post of a payload with an ID passes.
OnePassesInv ==
    \A p \in Payloads : ignoreDuplicatePayload /\ kind[p].id =>
        \A m, n \in Attempts : post[p][m] \in Passed /\ post[p][n] \in Passed => m = n

\* What is recorded is what some post has sent.
RecordedInv ==
    \A p \in Payloads :
        Occurrences(p) # {} <=> \E n \in Attempts : post[p][n] = "recorded"

\* What was acknowledged for good when a payload was first posted was recorded
\* then, and still is, unless it is malformed.
AfterInv ==
    \A p \in Payloads : \A q \in after[p] : kind[q].wellFormed => Occurrences(q) # {}

\* The inductive invariant behind RetriesAreIgnored, AcknowledgedIsRecorded and
\* OrderOfPosts.
IInv ==
    /\ TypeOK
    /\ FirstInv /\ SeenInv /\ DiscardedInv /\ OnePassesInv /\ RecordedInv /\ AfterInv
    /\ RetriesAreIgnored /\ OrderOfPosts

-------------------------------------------------------------------------------
\* One post goes to another stage and the others stay where they are.
LEMMA GoesTo ==
    ASSUME TypeOK, NEW p \in Payloads, NEW n \in Attempts, NEW stage \in Stages,
           Goes(p, n, stage)
    PROVE  /\ post' \in [Payloads -> [Attempts -> Stages]]
           /\ \A q \in Payloads, m \in Attempts :
                  post'[q][m] = IF q = p /\ m = n THEN stage ELSE post[q][m]
  BY DEF TypeOK, Goes

\* What is recorded only grows at its end.
LEMMA RecordedIsSeq ==
    ASSUME TypeOK
    PROVE  /\ Recorded \in Seq(Payloads)
           /\ Len(Recorded) \in Nat
           /\ \A p \in Payloads : Occurrences(p) \subseteq 1..Len(Recorded)
  BY DEF TypeOK, Recorded, Occurrences

\* Receiving moves a payload from the channel to the test.
LEMMA AwaitKeepsRecorded ==
    ASSUME TypeOK, AwaitAnalyticsEventPayload
    PROVE  Recorded' = Recorded
  <1>1. /\ received \in Seq(Payloads) /\ queue \in Seq(Payloads) /\ queue # <<>>
        /\ received' = Append(received, Head(queue)) /\ queue' = Tail(queue)
    BY DEF TypeOK, AwaitAnalyticsEventPayload
  <1>2. Append(received, Head(queue)) \o Tail(queue) = received \o queue
    BY <1>1
  <1> QED
    BY <1>1, <1>2 DEF Recorded

LEMMA SendAppends ==
    ASSUME TypeOK, NEW p \in Payloads, NEW n \in Attempts, Send(p, n)
    PROVE  /\ Recorded' = Append(Recorded, p)
           /\ Occurrences(p)' = Occurrences(p) \union {Len(Recorded) + 1}
           /\ \A q \in Payloads \ {p} : Occurrences(q)' = Occurrences(q)
  <1>1. /\ received \in Seq(Payloads) /\ queue \in Seq(Payloads)
        /\ received' = received /\ queue' = Append(queue, p)
    BY DEF TypeOK, Send
  <1>2. received \o Append(queue, p) = Append(received \o queue, p)
    BY <1>1
  <1>3. Recorded' = Append(Recorded, p)
    BY <1>1, <1>2 DEF Recorded
  <1>4. /\ Len(Recorded') = Len(Recorded) + 1
        /\ Recorded'[Len(Recorded) + 1] = p
        /\ \A i \in 1..Len(Recorded) : Recorded'[i] = Recorded[i]
    BY <1>3, RecordedIsSeq
  <1> QED
    BY <1>3, <1>4, RecordedIsSeq DEF Occurrences

-------------------------------------------------------------------------------
\* Steps that record nothing keep what is said of the record.
LEMMA QuietStep ==
    ASSUME IInv, Recorded' = Recorded, UNCHANGED kind,
           ignoreDuplicatePayload' => ignoreDuplicatePayload,
           \A p \in Payloads, n \in Attempts :
               post'[p][n] = "recorded" <=> post[p][n] = "recorded",
           \A p \in Payloads :
               after'[p] \subseteq after[p] \/ (Occurrences(p) = {} /\ after'[p] \subseteq
                   {q \in Payloads : kind[q].wellFormed =>
                                       \E i \in Attempts : post[q][i] = "recorded"})
    PROVE  RecordedInv' /\ AfterInv' /\ RetriesAreIgnored' /\ OrderOfPosts'
  <1>1. \A p \in Payloads : Occurrences(p)' = Occurrences(p)
    BY DEF Occurrences
  <1>2. RecordedInv'
    BY <1>1 DEF IInv, RecordedInv
  <1>3. AfterInv'
    <2> SUFFICES ASSUME NEW p \in Payloads, NEW q \in after'[p], kind[q].wellFormed
                 PROVE  Occurrences(q)' # {}
      BY DEF AfterInv
    <2>1. CASE q \in after[p]
      <3>1. q \in Payloads
        BY <2>1 DEF IInv, TypeOK
      <3> QED
        BY <1>1, <2>1, <3>1 DEF IInv, AfterInv
    <2>2. CASE q \in Payloads /\ \E i \in Attempts : post[q][i] = "recorded"
      BY <1>1, <2>2 DEF IInv, RecordedInv
    <2> QED
      BY <2>1, <2>2
  <1>4. RetriesAreIgnored'
    BY <1>1 DEF IInv, RetriesAreIgnored
  <1>5. OrderOfPosts'
    <2> SUFFICES ASSUME NEW p \in Payloads, NEW q \in after'[p], kind[q].wellFormed,
                        NEW i \in Occurrences(p)'
                 PROVE  \E j \in Occurrences(q)' : j < i
      BY DEF OrderOfPosts
    <2>1. i \in Occurrences(p) /\ q \in after[p] /\ q \in Payloads
      BY <1>1 DEF IInv, TypeOK
    <2> QED
      BY <1>1, <2>1 DEF IInv, OrderOfPosts
  <1> QED
    BY <1>2, <1>3, <1>4, <1>5

\* A well-formed payload that has been acknowledged for good has been recorded:
\* a post is only discarded when another one has passed.
LEMMA AcknowledgedIsIn ==
    ASSUME IInv, NEW p \in Payloads, AcknowledgedForGood(p), kind[p].wellFormed
    PROVE  \E n \in Attempts : post[p][n] = "recorded"
  <1>1. CASE \E n \in Attempts : post[p][n] = "recorded"
    BY <1>1
  <1>2. CASE \A n \in Attempts : post[p][n] # "recorded"
    <2>1. PICK n \in Attempts : /\ post[p][n] = "discarded"
                               /\ \A m \in Attempts : post[p][m] \notin {"parsing", "sending"}
      BY <1>2 DEF AcknowledgedForGood
    <2>2. \E m \in Attempts : post[p][m] \in Passed
      BY <2>1 DEF IInv, DiscardedInv, SeenInv
    <2> QED
      BY <2>1, <2>2 DEF Passed
  <1> QED
    BY <1>1, <1>2

\* The stages of the posts stay in order when one post moves on.
LEMMA Inductive ==
    ASSUME IInv, [Next]_vars
    PROVE  IInv'
  <1> USE DEF Attempts
  <1>1. ASSUME NEW p \in Payloads, NEW n \in Attempts, Post(p, n)
        PROVE  IInv'
    <2> DEFINE stage == IF RequireGzip /\ ~kind[p].gzip THEN "400" ELSE "reading"
    <2>1. /\ post' \in [Payloads -> [Attempts -> Stages]]
          /\ \A q \in Payloads, m \in Attempts :
                 post'[q][m] = IF q = p /\ m = n THEN stage ELSE post[q][m]
      <3>1. stage \in Stages
        BY DEF Stages
      <3>2. Goes(p, n, stage)
        BY <1>1 DEF Post
      <3> HIDE DEF stage
      <3> QED
        BY <3>1, <3>2, GoesTo DEF IInv
    <2>2. post[p][n] = "new" /\ stage \notin Passed \union {"new", "discarded", "recorded"}
      BY <1>1 DEF Post, Passed
    <2>3. /\ UNCHANGED <<kind, ignoreDuplicatePayload, payloadIDsSeen, queue, received>>
          /\ n = 2 => Posted(p, 1)
      BY <1>1 DEF Post
    <2>4. after' \in [Payloads -> SUBSET Payloads]
      BY <1>1 DEF Post, IInv, TypeOK
    <2> HIDE DEF stage
    <2>5. TypeOK'
      BY <2>1, <2>3, <2>4 DEF IInv, TypeOK
    <2>6. FirstInv'
      BY <2>1, <2>2, <2>3 DEF IInv, FirstInv, Posted
    <2>7. \A q \in Payloads, m \in Attempts :
              post'[q][m] \in Passed \union {"discarded"} => post'[q][m] = post[q][m]
      BY <2>1, <2>2
    <2>8. \A q \in Payloads, m \in Attempts :
              post[q][m] \in Passed \union {"discarded"} => post'[q][m] = post[q][m]
      BY <2>1, <2>2 DEF Passed
    <2>9. SeenInv' /\ DiscardedInv' /\ OnePassesInv'
      BY <2>3, <2>7, <2>8 DEF IInv, SeenInv, DiscardedInv, OnePassesInv
    <2>10. n = 1 => Occurrences(p) = {}
      BY <2>2 DEF IInv, FirstInv, RecordedInv, Posted
    <2>11. \A q \in Payloads :
               after'[q] \subseteq after[q] \/ (Occurrences(q) = {} /\ after'[q] \subseteq
                   {r \in Payloads : kind[r].wellFormed =>
                                       \E i \in Attempts : post[r][i] = "recorded"})
      <3>1. /\ n # 1 => after' = after
            /\ n = 1 => after' = [after EXCEPT ![p] = {r \in Payloads : AcknowledgedForGood(r)}]
        BY <1>1 DEF Post
      <3>2. \A r \in Payloads : AcknowledgedForGood(r) /\ kind[r].wellFormed =>
                                   \E i \in Attempts : post[r][i] = "recorded"
        BY AcknowledgedIsIn DEF IInv
      <3> QED
        BY <2>10, <3>1, <3>2 DEF IInv, TypeOK
    <2>12. \A q \in Payloads, m \in Attempts :
               post'[q][m] = "recorded" <=> post[q][m] = "recorded"
      BY <2>7, <2>8 DEF Passed
    <2>13. Recorded' = Recorded
      BY <2>3 DEF Recorded
    <2>14. RecordedInv' /\ AfterInv' /\ RetriesAreIgnored' /\ OrderOfPosts'
      BY <2>3, <2>11, <2>12, <2>13, QuietStep
    <2> QED
      BY <2>5, <2>6, <2>9, <2>14 DEF IInv
  <1>2. ASSUME NEW p \in Payloads, NEW n \in Attempts, ReadFails(p, n)
        PROVE  IInv'
    <2>1. /\ post' \in [Payloads -> [Attempts -> Stages]]
          /\ \A q \in Payloads, m \in Attempts :
                 post'[q][m] = IF q = p /\ m = n THEN "500" ELSE post[q][m]
      <3>1. "500" \in Stages
        BY DEF Stages
      <3> QED
        BY <1>2, <3>1, GoesTo DEF ReadFails, IInv
    <2>2. /\ post[p][n] = "reading"
          /\ UNCHANGED <<kind, ignoreDuplicatePayload, payloadIDsSeen, queue, received, after>>
      BY <1>2 DEF ReadFails
    <2>3. TypeOK'
      BY <2>1, <2>2 DEF IInv, TypeOK
    <2>4. FirstInv' /\ SeenInv' /\ DiscardedInv' /\ OnePassesInv'
      BY <2>1, <2>2 DEF IInv, FirstInv, Posted, SeenInv, DiscardedInv, OnePassesInv, Passed
    <2>5. /\ Recorded' = Recorded
          /\ \A q \in Payloads, m \in Attempts :
                 post'[q][m] = "recorded" <=> post[q][m] = "recorded"
      BY <2>1, <2>2 DEF Recorded
    <2>6. RecordedInv' /\ AfterInv' /\ RetriesAreIgnored' /\ OrderOfPosts'
      BY <2>2, <2>5, QuietStep
    <2> QED
      BY <2>3, <2>4, <2>6 DEF IInv
  <1>3. ASSUME NEW p \in Payloads, NEW n \in Attempts, CheckPayloadID(p, n)
        PROVE  IInv'
    <2> DEFINE duplicate == kind[p].id /\ p \in payloadIDsSeen
               stage == IF ignoreDuplicatePayload /\ duplicate THEN "discarded" ELSE "parsing"
    <2>1. /\ post' \in [Payloads -> [Attempts -> Stages]]
          /\ \A q \in Payloads, m \in Attempts :
                 post'[q][m] = IF q = p /\ m = n THEN stage ELSE post[q][m]
      <3>1. stage \in Stages
        BY DEF Stages
      <3>2. Goes(p, n, stage)
        BY <1>3 DEF CheckPayloadID
      <3> HIDE DEF stage
      <3> QED
        BY <3>1, <3>2, GoesTo DEF IInv
    <2>2. /\ post[p][n] = "reading"
          /\ payloadIDsSeen' = IF kind[p].id THEN payloadIDsSeen \union {p} ELSE payloadIDsSeen
          /\ UNCHANGED <<kind, ignoreDuplicatePayload, queue, received, after>>
      BY <1>3 DEF CheckPayloadID
    <2>3. TypeOK'
      BY <2>1, <2>2 DEF IInv, TypeOK
    <2>4. FirstInv'
      BY <2>1, <2>2 DEF IInv, FirstInv, Posted
    <2>5. SeenInv' /\ DiscardedInv'
      BY <2>1, <2>2 DEF IInv, SeenInv, DiscardedInv, Passed
    <2>6. OnePassesInv'
      <3>1. CASE ignoreDuplicatePayload /\ duplicate
        BY <2>1, <2>2, <3>1 DEF IInv, OnePassesInv, Passed
      <3>2. CASE ignoreDuplicatePayload /\ ~duplicate
        <4>1. kind[p].id => \A m \in Attempts : post[p][m] \notin Passed
          BY <3>2 DEF IInv, SeenInv
        <4> QED
          BY <2>1, <2>2, <4>1 DEF IInv, OnePassesInv
      <3>3. CASE ~ignoreDuplicatePayload
        BY <2>2, <3>3 DEF OnePassesInv
      <3> QED
        BY <3>1, <3>2, <3>3
    <2>7. /\ Recorded' = Recorded
          /\ \A q \in Payloads, m \in Attempts :
                 post'[q][m] = "recorded" <=> post[q][m] = "recorded"
      BY <2>1, <2>2 DEF Recorded
    <2>8. RecordedInv' /\ AfterInv' /\ RetriesAreIgnored' /\ OrderOfPosts'
      BY <2>2, <2>7, QuietStep
    <2> QED
      BY <2>3, <2>4, <2>5, <2>6, <2>8 DEF IInv
  <1>4. ASSUME NEW p \in Payloads, NEW n \in Attempts, Parse(p, n)
        PROVE  IInv'
    <2> DEFINE stage == IF kind[p].wellFormed THEN "sending" ELSE "400"
    <2>1. /\ post' \in [Payloads -> [Attempts -> Stages]]
          /\ \A q \in Payloads, m \in Attempts :
                 post'[q][m] = IF q = p /\ m = n THEN stage ELSE post[q][m]
      <3>1. stage \in Stages
        BY DEF Stages
      <3>2. Goes(p, n, stage)
        BY <1>4 DEF Parse
      <3> HIDE DEF stage
      <3> QED
        BY <3>1, <3>2, GoesTo DEF IInv
    <2>2. /\ post[p][n] = "parsing"
          /\ UNCHANGED <<kind, ignoreDuplicatePayload, payloadIDsSeen, queue, received, after>>
      BY <1>4 DEF Parse
    <2>3. TypeOK'
      BY <2>1, <2>2 DEF IInv, TypeOK
    <2>4. FirstInv' /\ SeenInv' /\ DiscardedInv'
      BY <2>1, <2>2 DEF IInv, FirstInv, Posted, SeenInv, DiscardedInv, Passed
    <2>5. OnePassesInv'
      <3>1. \A q \in Payloads, m \in Attempts : post'[q][m] \in Passed => post[q][m] \in Passed
        BY <2>1, <2>2 DEF Passed
      <3> QED
        BY <2>2, <3>1 DEF IInv, OnePassesInv
    <2>6. /\ Recorded' = Recorded
          /\ \A q \in Payloads, m \in Attempts :
                 post'[q][m] = "recorded" <=> post[q][m] = "recorded"
      BY <2>1, <2>2 DEF Recorded
    <2>7. RecordedInv' /\ AfterInv' /\ RetriesAreIgnored' /\ OrderOfPosts'
      BY <2>2, <2>6, QuietStep
    <2> QED
      BY <2>3, <2>4, <2>5, <2>7 DEF IInv
  <1>5. ASSUME NEW p \in Payloads, NEW n \in Attempts, Send(p, n)
        PROVE  IInv'
    <2>1. /\ post' \in [Payloads -> [Attempts -> Stages]]
          /\ \A q \in Payloads, m \in Attempts :
                 post'[q][m] = IF q = p /\ m = n THEN "recorded" ELSE post[q][m]
      <3>1. "recorded" \in Stages
        BY DEF Stages
      <3> QED
        BY <1>5, <3>1, GoesTo DEF Send, IInv
    <2>2. /\ post[p][n] = "sending" /\ Len(queue) < eventsChannelBufferSize
          /\ queue' = Append(queue, p)
          /\ UNCHANGED <<kind, ignoreDuplicatePayload, payloadIDsSeen, received, after>>
      BY <1>5 DEF Send
    <2>3. TypeOK'
      BY <2>1, <2>2, ConstantsAssumption DEF IInv, TypeOK
    <2>4. FirstInv' /\ SeenInv' /\ DiscardedInv'
      BY <2>1, <2>2 DEF IInv, FirstInv, Posted, SeenInv, DiscardedInv, Passed
    <2>5. OnePassesInv'
      <3>1. \A q \in Payloads, m \in Attempts : post'[q][m] \in Passed => post[q][m] \in Passed
        BY <2>1, <2>2 DEF Passed
      <3> QED
        BY <2>2, <3>1 DEF IInv, OnePassesInv
    <2>6. /\ Occurrences(p)' = Occurrences(p) \union {Len(Recorded) + 1}
          /\ \A q \in Payloads \ {p} : Occurrences(q)' = Occurrences(q)
      BY <1>5, SendAppends DEF IInv
    <2>7. RecordedInv'
      <3> SUFFICES ASSUME NEW q \in Payloads
                   PROVE  Occurrences(q)' # {} <=> \E m \in Attempts : post'[q][m] = "recorded"
        BY DEF RecordedInv
      <3>1. CASE q = p
        BY <2>1, <2>6, <3>1
      <3>2. CASE q # p
        <4>1. \A m \in Attempts : post'[q][m] = post[q][m]
          BY <2>1, <3>2
        <4>2. Occurrences(q)' = Occurrences(q)
          BY <2>6, <3>2
        <4> QED
          BY <4>1, <4>2, Zenon DEF IInv, RecordedInv
      <3> QED
        BY <3>1, <3>2
    <2>8. AfterInv'
      BY <2>2, <2>6 DEF IInv, AfterInv, TypeOK
    <2>9. RetriesAreIgnored'
      <3>1. ignoreDuplicatePayload /\ kind[p].id => Occurrences(p) = {}
        BY <2>2 DEF IInv, OnePassesInv, RecordedInv, Passed
      <3> QED
        BY <2>2, <2>6, <3>1 DEF IInv, RetriesAreIgnored
    <2>10. OrderOfPosts'
      <3> SUFFICES ASSUME NEW r \in Payloads, NEW q \in after[r], kind[q].wellFormed,
                          NEW i \in Occurrences(r)'
                   PROVE  \E j \in Occurrences(q)' : j < i
        BY <2>2 DEF OrderOfPosts
      <3>1. q \in Payloads /\ Occurrences(q) \subseteq Occurrences(q)'
        BY <2>6 DEF IInv, TypeOK
      <3>2. CASE i \in Occurrences(r)
        BY <3>1, <3>2 DEF IInv, OrderOfPosts
      <3>3. CASE i \notin Occurrences(r)
        <4>1. i = Len(Recorded) + 1
          BY <2>6, <3>3
        <4>2. PICK j \in Occurrences(q) : TRUE
          BY DEF IInv, AfterInv
        <4>3. Len(Recorded) \in Nat /\ j \in 1..Len(Recorded)
          BY <3>1, <4>2, RecordedIsSeq DEF IInv
        <4> QED
          BY <3>1, <4>1, <4>2, <4>3
      <3> QED
        BY <3>2, <3>3
    <2> QED
      BY <2>3, <2>4, <2>5, <2>7, <2>8, <2>9, <2>10 DEF IInv
  <1>6. CASE AwaitAnalyticsEventPayload
    <2>1. /\ queue # <<>> /\ received' = Append(received, Head(queue)) /\ queue' = Tail(queue)
          /\ UNCHANGED <<kind, ignoreDuplicatePayload, payloadIDsSeen, post, after>>
      BY <1>6 DEF AwaitAnalyticsEventPayload
    <2>2. TypeOK'
      BY <2>1, ConstantsAssumption DEF IInv, TypeOK
    <2>3. FirstInv' /\ SeenInv' /\ DiscardedInv' /\ OnePassesInv'
      BY <2>1 DEF IInv, FirstInv, Posted, SeenInv, DiscardedInv, OnePassesInv
    <2>4. Recorded' = Recorded
      BY <1>6, AwaitKeepsRecorded DEF IInv
    <2>5. RecordedInv' /\ AfterInv' /\ RetriesAreIgnored' /\ OrderOfPosts'
      BY <2>1, <2>4, QuietStep
    <2> QED
      BY <2>2, <2>3, <2>5 DEF IInv
  <1>7. CASE SetIgnoreDuplicatePayload
    <2>1. /\ ignoreDuplicatePayload' = FALSE
          /\ UNCHANGED <<kind, payloadIDsSeen, queue, received, post, after>>
      BY <1>7 DEF SetIgnoreDuplicatePayload
    <2>2. TypeOK' /\ FirstInv' /\ SeenInv' /\ DiscardedInv' /\ OnePassesInv'
      BY <2>1 DEF IInv, TypeOK, FirstInv, Posted, SeenInv, DiscardedInv, OnePassesInv
    <2>3. RecordedInv' /\ AfterInv' /\ RetriesAreIgnored' /\ OrderOfPosts'
      <3>1. Recorded' = Recorded
        BY <2>1 DEF Recorded
      <3> QED
        BY <2>1, <3>1, QuietStep
    <2> QED
      BY <2>2, <2>3 DEF IInv
  <1>8. CASE UNCHANGED vars
    <2>1. TypeOK' /\ FirstInv' /\ SeenInv' /\ DiscardedInv' /\ OnePassesInv'
      BY <1>8 DEF vars, IInv, TypeOK, FirstInv, Posted, SeenInv, DiscardedInv, OnePassesInv
    <2>2. Recorded' = Recorded
      BY <1>8 DEF vars, Recorded
    <2>3. RecordedInv' /\ AfterInv' /\ RetriesAreIgnored' /\ OrderOfPosts'
      BY <1>8, <2>2, QuietStep DEF vars
    <2> QED
      BY <2>1, <2>3 DEF IInv
  <1> QED
    BY <1>1, <1>2, <1>3, <1>4, <1>5, <1>6, <1>7, <1>8 DEF Next, PostStep

LEMMA Initial == Init => IInv
  <1> SUFFICES ASSUME Init PROVE IInv
    OBVIOUS
  <1>1. Recorded = <<>>
    BY DEF Init, Recorded
  <1>2. \A p \in Payloads : Occurrences(p) = {}
    BY <1>1 DEF Occurrences
  <1>3. \A p \in Payloads, n \in Attempts : post[p][n] = "new"
    BY DEF Init
  <1>4. TypeOK
    BY ConstantsAssumption DEF Init, TypeOK, Stages
  <1>5. SeenInv /\ DiscardedInv /\ OnePassesInv /\ AfterInv
    BY <1>3 DEF Init, SeenInv, DiscardedInv, OnePassesInv, Passed, AfterInv
  <1>6. FirstInv
    BY <1>3 DEF FirstInv, Posted, Attempts
  <1> QED
    BY <1>2, <1>3, <1>4, <1>5, <1>6
       DEF IInv, RecordedInv, RetriesAreIgnored, OrderOfPosts

-------------------------------------------------------------------------------
\* Every variable of the events service keeps to its domain; the channel holds
\* no more than its capacity (mockld/events_service.go:26-69).
THEOREM TypeCorrect == Spec => []TypeOK
  <1>1. IInv => TypeOK
    BY DEF IInv
  <1> QED
    BY <1>1, Initial, Inductive, PTL DEF Spec

\* However the posts of a payload overlap, the test sees its events once
\* (postEvents, mockld/events_service.go:130-149).
THEOREM RetriesIgnored == Spec => []RetriesAreIgnored
  <1>1. IInv => RetriesAreIgnored
    BY DEF IInv
  <1> QED
    BY <1>1, Initial, Inductive, PTL DEF Spec

\* What an SDK was told is recorded is there for the test, whether the post that
\* was answered was sent on or discarded (mockld/events_service.go:143-163).
THEOREM AcknowledgedRecorded == Spec => []AcknowledgedIsRecorded
  <1>1. ASSUME IInv PROVE AcknowledgedIsRecorded
    <2> SUFFICES ASSUME NEW p \in Payloads, kind[p].wellFormed,
                        \A n \in Attempts : Posted(p, n) => Finished(p, n),
                        NEW n \in Attempts, post[p][n] \in {"recorded", "discarded"}
                 PROVE  Occurrences(p) # {}
      BY DEF AcknowledgedIsRecorded
    <2>1. \E m \in Attempts : post[p][m] \in Passed
      <3>1. CASE post[p][n] = "recorded"
        BY <3>1 DEF Passed
      <3>2. CASE post[p][n] = "discarded"
        BY <3>2, <1>1 DEF IInv, DiscardedInv, SeenInv
      <3> QED
        BY <3>1, <3>2
    <2>2. \E m \in Attempts : post[p][m] = "recorded"
      BY <2>1 DEF Passed, Posted, Finished
    <2> QED
      BY <1>1, <2>2 DEF IInv, RecordedInv
  <1> QED
    BY <1>1, Initial, Inductive, PTL DEF Spec

\* A well-formed payload that the SDK has had acknowledged for good, by a record or
\* by a discarded retry, before it first posts another one is recorded before that
\* one (mockld/events_service.go:134-163).
THEOREM PostsInOrder == Spec => []OrderOfPosts
  <1>1. IInv => OrderOfPosts
    BY DEF IInv
  <1> QED
    BY <1>1, Initial, Inductive, PTL DEF Spec

-------------------------------------------------------------------------------
(* Each step of the service is a step of the contract or changes nothing   *)
(* of what the contract speaks about.                                      *)

\* A post that needs to be compressed and is not is refused when it arrives, and
\* one that is about to be recorded has been parsed.
CheckedInv ==
    \A p \in Payloads, n \in Attempts :
        /\ RequireGzip /\ ~kind[p].gzip => post[p][n] \in {"new", "400"}
        /\ post[p][n] \in {"sending", "recorded"} => kind[p].wellFormed

\* The IDs marked as seen are those of payloads a post of which has got that far.
GotToID(p, n) ==
    post[p][n] \notin {"new", "reading", "500"} /\ (RequireGzip => kind[p].gzip)
SeenIsKnown ==
    \A p \in Payloads :
        p \in payloadIDsSeen <=> kind[p].id /\ \E n \in Attempts : GotToID(p, n)

RInv == IInv /\ CheckedInv /\ SeenIsKnown

\* What has become of the n-th post of p.
Seen(p, n) ==
    IF post[p][n] \in {"new", "reading"} THEN "none"
    ELSE IF post[p][n] = "500" \/ (RequireGzip /\ ~kind[p].gzip) THEN "refused"
    ELSE IF post[p][n] = "discarded" THEN "duplicate"
    ELSE IF post[p][n] = "recorded" THEN "recorded"
    ELSE IF kind[p].wellFormed THEN "accepted" ELSE "malformed"

LEMMA OutcomesAre ==
    /\ contractOutcome = [p \in Payloads |-> [n \in Attempts |-> Seen(p, n)]]
    /\ contractOutcome' = [p \in Payloads |-> [n \in Attempts |-> Seen(p, n)']]
    /\ Attempts = Contract!Attempts /\ Kinds = Contract!Kinds
  BY DEF contractOutcome, Seen, Attempts, Contract!Attempts, Kinds, Contract!Kinds

\* The contract knows a payload exactly if its ID has been marked.
LEMMA KnownIs ==
    ASSUME RInv, NEW p \in Payloads
    PROVE  /\ Contract!Known(p) <=> \E n \in Attempts : GotToID(p, n)
           /\ Contract!Ignored(p) <=>
                  ignoreDuplicatePayload /\ kind[p].id /\ p \in payloadIDsSeen
  <1>1. \A n \in Attempts : GotToID(p, n) <=> Seen(p, n) \notin {"none", "refused"}
    BY DEF GotToID, Seen
  <1>2. Contract!Known(p) <=> \E n \in Attempts : Seen(p, n) \notin {"none", "refused"}
    BY OutcomesAre DEF Contract!Known
  <1>3. Contract!Known(p) <=> \E n \in Attempts : GotToID(p, n)
    BY <1>1, <1>2
  <1> QED
    BY <1>3 DEF RInv, SeenIsKnown, Contract!Ignored

\* A post that goes on to another stage is decided, or is not.
LEMMA PostGoes ==
    ASSUME RInv, NEW p \in Payloads, NEW n \in Attempts, NEW stage \in Stages,
           Goes(p, n, stage), UNCHANGED kind
    PROVE  /\ post'[p][n] = stage
           /\ \A q \in Payloads, m \in Attempts :
                  ~(q = p /\ m = n) => post'[q][m] = post[q][m] /\ Seen(q, m)' = Seen(q, m)
           /\ \A result : Seen(p, n)' = result => Contract!Becomes(p, n, result)
           /\ Seen(p, n)' = Seen(p, n) => contractOutcome' = contractOutcome
  <1>1. \A q \in Payloads, m \in Attempts :
            post'[q][m] = IF q = p /\ m = n THEN stage ELSE post[q][m]
    BY GoesTo DEF RInv, IInv
  <1>2. \A q \in Payloads, m \in Attempts :
            ~(q = p /\ m = n) => post'[q][m] = post[q][m] /\ Seen(q, m)' = Seen(q, m)
    BY <1>1 DEF Seen
  <1>3. ASSUME NEW result, Seen(p, n)' = result
        PROVE  contractOutcome' = [contractOutcome EXCEPT ![p][n] = result]
    BY <1>2, <1>3, OutcomesAre
  <1>4. Seen(p, n)' = Seen(p, n) => contractOutcome' = contractOutcome
    BY <1>2, OutcomesAre
  <1> QED
    BY <1>1, <1>2, <1>3, <1>4 DEF Contract!Becomes

\* What the contract needs to know of the posts stays true.
LEMMA CheckedStays ==
    ASSUME RInv, NEW p \in Payloads, NEW n \in Attempts, UNCHANGED kind,
           \A q \in Payloads, m \in Attempts :
               ~(q = p /\ m = n) => post'[q][m] = post[q][m],
           RequireGzip /\ ~kind[p].gzip => post'[p][n] \in {"new", "400"},
           post'[p][n] \in {"sending", "recorded"} => kind[p].wellFormed,
           payloadIDsSeen' = IF GotToID(p, n)' /\ ~GotToID(p, n) /\ kind[p].id
                             THEN payloadIDsSeen \union {p} ELSE payloadIDsSeen,
           GotToID(p, n) => GotToID(p, n)'
    PROVE  CheckedInv' /\ SeenIsKnown'
  <1>1. CheckedInv'
    BY DEF RInv, CheckedInv
  <1>2. \A q \in Payloads, m \in Attempts :
            ~(q = p /\ m = n) => (GotToID(q, m)' <=> GotToID(q, m))
    BY DEF GotToID
  <1>3. SeenIsKnown'
    <2> SUFFICES ASSUME NEW q \in Payloads
                 PROVE  q \in payloadIDsSeen' <=> kind[q].id /\ \E m \in Attempts : GotToID(q, m)'
      BY DEF SeenIsKnown
    <2>1. q \in payloadIDsSeen <=> kind[q].id /\ \E m \in Attempts : GotToID(q, m)
      BY DEF RInv, SeenIsKnown
    <2>2. CASE q # p
      <3>1. \A m \in Attempts : GotToID(q, m)' <=> GotToID(q, m)
        BY <1>2, <2>2
      <3>2. q \in payloadIDsSeen' <=> q \in payloadIDsSeen
        BY <2>2
      <3> QED
        BY <2>1, <3>1, <3>2
    <2>3. CASE q = p /\ GotToID(p, n)'
      <3>1. p \in payloadIDsSeen' <=> kind[p].id
        BY <2>1, <2>3
      <3> QED
        BY <2>3, <3>1
    <2>4. CASE q = p /\ ~GotToID(p, n)'
      <3>1. ~GotToID(p, n) /\ payloadIDsSeen' = payloadIDsSeen
        BY <2>4
      <3>2. \A m \in Attempts : GotToID(p, m)' <=> GotToID(p, m)
        BY <1>2, <2>4, <3>1
      <3> QED
        BY <2>1, <2>4, <3>1, <3>2
    <2> QED
      BY <2>2, <2>3, <2>4
  <1> QED
    BY <1>1, <1>3

\* Before its ID is checked a post can only be refused.
LEMMA ArrivalRefines ==
    ASSUME RInv, NEW p \in Payloads, NEW n \in Attempts, Post(p, n) \/ ReadFails(p, n)
    PROVE  CheckedInv' /\ SeenIsKnown' /\ [Contract!Next]_(Contract!contractVars)
  <1> DEFINE stage == IF ReadFails(p, n) THEN "500"
                      ELSE IF RequireGzip /\ ~kind[p].gzip THEN "400" ELSE "reading"
  <1>1. /\ Goes(p, n, stage) /\ stage \in Stages /\ post[p][n] \in {"new", "reading"}
        /\ UNCHANGED <<kind, ignoreDuplicatePayload, payloadIDsSeen, queue, received>>
    BY DEF Post, ReadFails, Stages
  <1>2. /\ stage \in {"500", "400", "reading"}
        /\ RequireGzip /\ ~kind[p].gzip => stage = "400"
        /\ stage = "400" => RequireGzip /\ ~kind[p].gzip
    <2>1. ReadFails(p, n) => post[p][n] = "reading"
      BY DEF ReadFails
    <2> QED
      BY <2>1 DEF RInv, CheckedInv
  <1> HIDE DEF stage
  <1>3. /\ post'[p][n] = stage
        /\ \A q \in Payloads, m \in Attempts :
               ~(q = p /\ m = n) => post'[q][m] = post[q][m]
        /\ \A result : Seen(p, n)' = result => Contract!Becomes(p, n, result)
        /\ Seen(p, n)' = Seen(p, n) => contractOutcome' = contractOutcome
    BY <1>1, PostGoes
  <1>4. ~GotToID(p, n) /\ ~GotToID(p, n)'
    BY <1>1, <1>2, <1>3 DEF GotToID
  <1>5. CheckedInv' /\ SeenIsKnown'
    BY <1>1, <1>2, <1>3, <1>4, CheckedStays
  <1>6. Seen(p, n) = "none" /\ Recorded' = Recorded
    BY <1>1 DEF Recorded, Seen
  <1>7. CASE stage = "reading"
    <2>1. Seen(p, n)' = "none"
      BY <1>3, <1>7 DEF Seen
    <2> QED
      BY <1>1, <1>3, <1>5, <1>6, <2>1 DEF Contract!contractVars
  <1>8. CASE stage # "reading"
    <2>1. Seen(p, n)' = "refused"
      BY <1>1, <1>2, <1>3, <1>8 DEF Seen
    <2>2. contractOutcome[p][n] = "none"
      BY <1>6, OutcomesAre
    <2>3. Contract!Refuse(p, n)
      BY <1>1, <1>3, <1>6, <2>1, <2>2 DEF Contract!Refuse
    <2> QED
      BY <1>5, <2>3, OutcomesAre DEF Contract!Next
  <1> QED
    BY <1>7, <1>8

\* The critical section decides about the post.
LEMMA CheckPayloadIDRefines ==
    ASSUME RInv, NEW p \in Payloads, NEW n \in Attempts, CheckPayloadID(p, n)
    PROVE  CheckedInv' /\ SeenIsKnown' /\ [Contract!Next]_(Contract!contractVars)
  <1> DEFINE duplicate == kind[p].id /\ p \in payloadIDsSeen
             stage == IF ignoreDuplicatePayload /\ duplicate THEN "discarded" ELSE "parsing"
  <1>1. /\ Goes(p, n, stage) /\ post[p][n] = "reading"
        /\ payloadIDsSeen' = IF kind[p].id THEN payloadIDsSeen \union {p} ELSE payloadIDsSeen
        /\ UNCHANGED <<kind, ignoreDuplicatePayload, queue, received>>
    BY DEF CheckPayloadID
  <1>2. /\ stage \in Stages /\ stage \in {"discarded", "parsing"}
        /\ stage = "discarded" <=> Contract!Ignored(p)
    BY KnownIs DEF Stages
  <1> HIDE DEF stage
  <1>3. /\ post'[p][n] = stage
        /\ \A q \in Payloads, m \in Attempts :
               ~(q = p /\ m = n) => post'[q][m] = post[q][m]
        /\ \A result : Seen(p, n)' = result => Contract!Becomes(p, n, result)
    BY <1>1, <1>2, PostGoes
  <1>4. RequireGzip => kind[p].gzip
    BY <1>1 DEF RInv, CheckedInv
  <1>5. ~GotToID(p, n) /\ GotToID(p, n)'
    BY <1>1, <1>2, <1>3, <1>4 DEF GotToID
  <1>6. CheckedInv' /\ SeenIsKnown'
    BY <1>1, <1>2, <1>3, <1>4, <1>5, CheckedStays
  <1>7. contractOutcome[p][n] = "none" /\ Recorded' = Recorded /\ Contract!Readable(p)
    BY <1>1, <1>4, OutcomesAre DEF Recorded, Contract!Readable, Seen
  <1>8. CASE stage = "discarded"
    <2>1. Seen(p, n)' = "duplicate"
      BY <1>1, <1>3, <1>4, <1>8 DEF Seen
    <2>2. Contract!Discard(p, n)
      BY <1>1, <1>2, <1>3, <1>7, <1>8, <2>1 DEF Contract!Discard
    <2> QED
      BY <1>6, <2>2, OutcomesAre DEF Contract!Next
  <1>9. CASE stage = "parsing"
    <2>1. Seen(p, n)' = IF kind[p].wellFormed THEN "accepted" ELSE "malformed"
      BY <1>1, <1>3, <1>4, <1>9 DEF Seen
    <2>2. ~Contract!Ignored(p)
      BY <1>2, <1>9
    <2>3. Contract!Accept(p, n)
      BY <1>1, <1>3, <1>7, <2>1, <2>2 DEF Contract!Accept
    <2> QED
      BY <1>6, <2>3, OutcomesAre DEF Contract!Next
  <1> QED
    BY <1>2, <1>8, <1>9

LEMMA ParseRefines ==
    ASSUME RInv, NEW p \in Payloads, NEW n \in Attempts, Parse(p, n)
    PROVE  CheckedInv' /\ SeenIsKnown' /\ UNCHANGED Contract!contractVars
  <1> DEFINE stage == IF kind[p].wellFormed THEN "sending" ELSE "400"
  <1>1. /\ Goes(p, n, stage) /\ post[p][n] = "parsing" /\ stage \in Stages
        /\ UNCHANGED <<kind, ignoreDuplicatePayload, payloadIDsSeen, queue, received>>
    BY DEF Parse, Stages
  <1>2. /\ stage \in {"sending", "400"} /\ (stage = "sending" => kind[p].wellFormed)
    OBVIOUS
  <1> HIDE DEF stage
  <1>3. /\ post'[p][n] = stage
        /\ \A q \in Payloads, m \in Attempts :
               ~(q = p /\ m = n) => post'[q][m] = post[q][m]
        /\ Seen(p, n)' = Seen(p, n) => contractOutcome' = contractOutcome
    BY <1>1, PostGoes
  <1>4. RequireGzip => kind[p].gzip
    BY <1>1 DEF RInv, CheckedInv
  <1>5. GotToID(p, n) /\ GotToID(p, n)'
    BY <1>1, <1>2, <1>3, <1>4 DEF GotToID
  <1>6. CheckedInv' /\ SeenIsKnown'
    BY <1>1, <1>2, <1>3, <1>4, <1>5, CheckedStays
  <1>7. Seen(p, n)' = Seen(p, n)
    <2>1. Seen(p, n) = IF kind[p].wellFormed THEN "accepted" ELSE "malformed"
      BY <1>1, <1>4 DEF Seen
    <2>2. Seen(p, n)' = IF kind[p].wellFormed THEN "accepted" ELSE "malformed"
      BY <1>1, <1>2, <1>3, <1>4 DEF Seen
    <2> QED
      BY <2>1, <2>2
  <1> QED
    BY <1>1, <1>3, <1>6, <1>7 DEF Contract!contractVars, Recorded

LEMMA SendRefines ==
    ASSUME RInv, NEW p \in Payloads, NEW n \in Attempts, Send(p, n)
    PROVE  CheckedInv' /\ SeenIsKnown' /\ [Contract!Next]_(Contract!contractVars)
  <1>1. /\ Goes(p, n, "recorded") /\ post[p][n] = "sending"
        /\ Len(queue) < eventsChannelBufferSize
        /\ UNCHANGED <<kind, ignoreDuplicatePayload, payloadIDsSeen, received>>
    BY DEF Send
  <1>2. "recorded" \in Stages
    BY DEF Stages
  <1>3. /\ post'[p][n] = "recorded"
        /\ \A q \in Payloads, m \in Attempts :
               ~(q = p /\ m = n) => post'[q][m] = post[q][m]
        /\ \A result : Seen(p, n)' = result => Contract!Becomes(p, n, result)
    BY <1>1, <1>2, PostGoes
  <1>4. (RequireGzip => kind[p].gzip) /\ kind[p].wellFormed
    BY <1>1 DEF RInv, CheckedInv
  <1>5. GotToID(p, n) /\ GotToID(p, n)'
    BY <1>1, <1>3, <1>4 DEF GotToID
  <1>6. CheckedInv' /\ SeenIsKnown'
    BY <1>1, <1>3, <1>4, <1>5, CheckedStays
  <1>7. Seen(p, n) = "accepted" /\ Seen(p, n)' = "recorded"
    BY <1>1, <1>3, <1>4 DEF Seen
  <1>8. Recorded' = Append(Recorded, p)
    BY SendAppends DEF RInv, IInv
  <1>9. Len(Recorded) < Len(received) + eventsChannelBufferSize
    <2>1. received \in Seq(Payloads) /\ queue \in Seq(Payloads)
      BY DEF RInv, IInv, TypeOK
    <2>2. Len(Recorded) = Len(received) + Len(queue)
      BY <2>1 DEF Recorded
    <2> QED
      BY <1>1, <2>1, <2>2, ConstantsAssumption
  <1>10. contractOutcome[p][n] = "accepted"
    BY <1>7, OutcomesAre
  <1>11. Contract!Record(p, n)
    BY <1>1, <1>3, <1>7, <1>8, <1>9, <1>10 DEF Contract!Record
  <1> QED
    BY <1>6, <1>11, OutcomesAre DEF Contract!Next

LEMMA RefinementStep ==
    ASSUME RInv, [Next]_vars
    PROVE  RInv' /\ [Contract!Next]_(Contract!contractVars)
  <1>1. IInv'
    BY Inductive DEF RInv
  <1>2. ASSUME NEW p \in Payloads, NEW n \in Attempts, PostStep(p, n)
        PROVE  CheckedInv' /\ SeenIsKnown' /\ [Contract!Next]_(Contract!contractVars)
    BY <1>2, ArrivalRefines, CheckPayloadIDRefines, ParseRefines, SendRefines DEF PostStep
  <1>3. ASSUME UNCHANGED <<kind, post, payloadIDsSeen>>
        PROVE  CheckedInv' /\ SeenIsKnown' /\ contractOutcome' = contractOutcome
    BY <1>3 DEF RInv, CheckedInv, SeenIsKnown, GotToID, contractOutcome
  <1>4. CASE AwaitAnalyticsEventPayload
    <2>1. /\ queue # <<>> /\ received' = Append(received, Head(queue))
          /\ UNCHANGED <<kind, post, payloadIDsSeen, ignoreDuplicatePayload>>
      BY <1>4 DEF AwaitAnalyticsEventPayload
    <2>2. received \in Seq(Payloads) /\ queue \in Seq(Payloads)
      BY DEF RInv, IInv, TypeOK
    <2>3. /\ Len(received') = Len(received) + 1 /\ Len(received) < Len(Recorded)
      BY <2>1, <2>2 DEF Recorded
    <2>4. Recorded' = Recorded
      BY <1>4, AwaitKeepsRecorded DEF RInv, IInv
    <2>5. Contract!Take
      BY <1>3, <2>1, <2>3, <2>4 DEF Contract!Take
    <2> QED
      BY <1>1, <1>3, <2>1, <2>5 DEF RInv, Contract!Next
  <1>5. CASE SetIgnoreDuplicatePayload
    <2>1. /\ ignoreDuplicatePayload /\ ignoreDuplicatePayload' = FALSE
          /\ UNCHANGED <<kind, post, payloadIDsSeen, queue, received>>
      BY <1>5 DEF SetIgnoreDuplicatePayload
    <2>2. Contract!TurnOff
      BY <1>3, <2>1 DEF Contract!TurnOff, Recorded
    <2> QED
      BY <1>1, <1>3, <2>1, <2>2 DEF RInv, Contract!Next
  <1>6. CASE UNCHANGED vars
    <2>1. UNCHANGED <<kind, post, payloadIDsSeen, ignoreDuplicatePayload, queue, received>>
      BY <1>6 DEF vars
    <2> QED
      BY <1>1, <1>3, <2>1 DEF RInv, Recorded, Contract!contractVars
  <1> QED
    BY <1>1, <1>2, <1>4, <1>5, <1>6 DEF RInv, Next

LEMMA RefinementInit == Init => RInv /\ Contract!Init
  <1> SUFFICES ASSUME Init PROVE RInv /\ Contract!Init
    OBVIOUS
  <1>1. \A p \in Payloads, n \in Attempts : post[p][n] = "new"
    BY DEF Init
  <1>2. CheckedInv /\ SeenIsKnown
    BY <1>1 DEF Init, CheckedInv, SeenIsKnown, GotToID
  <1>3. contractOutcome = [p \in Payloads |-> [n \in Contract!Attempts |-> "none"]]
    BY <1>1, OutcomesAre DEF Seen
  <1>4. Recorded = <<>> /\ Len(received) = 0
    BY DEF Init, Recorded
  <1>5. Contract!Init
    BY <1>3, <1>4, OutcomesAre DEF Init, Contract!Init
  <1> QED
    BY <1>2, <1>5, Initial DEF RInv

\* Handlers, table of IDs and channel are together one log: of the overlapping posts
\* of a payload the critical section makes one the first, what that carries is
\* recorded unless it is malformed, and the log is never further ahead of the test
\* than the channel is long (mockld/events_service.go:71-163).
THEOREM Refinement == Spec => ImplementsContract
  <1>1. Spec => ImplementsContract
    BY RefinementInit, RefinementStep, PTL DEF Spec, ImplementsContract, Contract!Spec
  <1> QED
    BY <1>1
===============================================================================
