------------------------------- MODULE EventTests -------------------------------
(***************************************************************************)
(* What the tests of analytics events have in common: the SDK's event      *)
(* processor, as far as the tests depend on it, and the steps of a test.   *)
(* A case is one test of a Go test function, and its script is what the    *)
(* test asks of the SDK and expects in the payloads.                       *)
(*                                                                         *)
(* Two things are not in the script's hands: the SDK takes a streamed      *)
(* update some time after it was pushed, and it takes note of the date in  *)
(* the answer to its post some time after the test has the payload.        *)
(***************************************************************************)
EXTENDS ContractTests
LOCAL INSTANCE TLC
LOCAL INSTANCE SequencesExt

MaxPolls == 3 \* how often a test sees the old value before an update arrives
Now == 4  \* the host's time: earlier and later times are below and above it

IsClientSide == "client-side" \in capabilities
IsPHP == "php" \in capabilities

-------------------------------------------------------------------------------
(* Contexts and flags. *)

\* A context is a set of individual contexts, one for each kind.
OfKind(kind, key) ==
    {[kind |-> kind, key |-> key, anonymous |-> FALSE, attributes |-> {}, private |-> {}]}
User(key) == OfKind("user", key)
AsAnonymous(context) == {[c EXCEPT !.anonymous = TRUE] : c \in context}
WithAttributes(context, attributes) == {[c EXCEPT !.attributes = attributes] : c \in context}
WithPrivate(context, private) == {[c EXCEPT !.private = private] : c \in context}
AllKeys(context) == {<<c.kind, c.key>> : c \in context}
KindsOf(context) == {c.kind : c \in context}

\* What HasContextObjectWithMatchingKeys looks at: of a single context the key,
\* whatever its kind, and of a multi-kind context each kind with its key.
MatchedKeys(context) ==
    IF Cardinality(context) = 1 THEN {<<"any kind", c.key>> : c \in context}
    ELSE AllKeys(context)

\* NewContextFactoriesForSingleAndMultiKind: one context of each category,
\* whose keys differ unless the test makes them the same.
ForCategories(key) ==
    <<User(key[1]), OfKind("org", key[2]), OfKind("org", key[3]) \cup OfKind("other", key[3])>>
SingleAndMultiKind(key) == ForCategories([i \in 1..3 |-> ToString(<<i, key>>)])

\* A flag serves "value" but to the users in "targets".  A malformed flag has
\* no variation to serve.
EventFlag ==
    [version |-> 0, flagVersion |-> {}, value |-> "value", variation |-> {0},
     reason |-> "FALLTHROUGH", targets |-> <<>>, prerequisites |-> <<>>, tracked |-> FALSE,
     experiment |-> FALSE, debugUntil |-> {}, samplingRatio |-> 1, excluded |-> FALSE]
MalformedFlag ==
    [EventFlag EXCEPT !.version = 1, !.variation = {}, !.reason = "MALFORMED_FLAG",
                      !.tracked = TRUE]

-------------------------------------------------------------------------------
(* Scripts. *)

EventCase ==
    [test |-> "", needs |-> {}, unless |-> {}, flags |-> <<>>, context |-> User("initial"),
     config |-> [capacity |-> {}, omitAnonymous |-> FALSE, disabled |-> FALSE,
                 allPrivate |-> FALSE, private |-> {}],
     hostTime |-> Now, client |-> "new", script |-> <<>>]

\* A client-side SDK evaluates for its current context, whatever is given.
Evaluation(key, context, default) ==
    [do |-> "evaluate", key |-> key, context |-> context, default |-> default,
     detail |-> FALSE, result |-> {}]
Identification(context) == [do |-> "identify", context |-> context]
CustomEvent(key, context) ==
    [do |-> "custom", key |-> key, context |-> context, metric |-> {}, data |-> {}]
AllFlags == [do |-> "all flags"]
InitialData(flags) == [do |-> "set data", flags |-> flags]
Update(flags) == [do |-> "push", flags |-> flags]
EvaluationUntil(key, context, default, old, new) ==
    [do |-> "poll", key |-> key, context |-> context, default |-> default, detail |-> FALSE,
     old |-> old, new |-> new]
Sleep == [do |-> "sleep"]
Flush == [do |-> "flush"]
Repeated(n, operation) == [i \in 1..n |-> operation]

\* The payload may be any of the alternatives.
ExpectOneOf(how, alternatives) ==
    <<Flush, [do |-> "expect", how |-> how, alternatives |-> alternatives]>>
ItemsInAnyOrder(events) == ExpectOneOf("any order", {events})
Items(events) == ExpectOneOf("in order", {events})
Discard == ExpectOneOf("ignored", {<<>>})
ExpectNoAnalyticsEvents == <<Flush, [do |-> "expect none"]>>

\* What tests expect of an event.
EventHasKind(kind) == [kind |-> kind]
IsIndexEvent == EventHasKind("index")
IsIdentifyEvent == EventHasKind("identify")
IsCustomEvent == EventHasKind("custom")
IsSummaryEvent == EventHasKind("summary")
ForContext(kind, context) == [kind |-> kind, context |-> MatchedKeys(context)]
IsValidSummaryEventWithFlags(features) == [kind |-> "summary", features |-> features]
FlagCounter(value, variation, version, count) ==
    [value |-> value, variation |-> variation, version |-> version, count |-> count]
UnknownFlagCounter(value, count) == [value |-> value, unknown |-> TRUE, count |-> count]

\* One event for each matcher and no other.  The matchers of a test are equal
\* or exclude each other, so that counting decides.
Matches(expected, event) ==
    \A f \in DOMAIN expected :
        /\ f \in DOMAIN event
        /\ IF f # "features" THEN event[f] = expected[f]
           ELSE /\ DOMAIN event[f] = DOMAIN expected[f]
                /\ \A k \in DOMAIN event[f] : Agrees(expected[f][k], event[f][k])

MatchesPayload(how, expected, payload) ==
    CASE how = "ignored" -> TRUE
      [] how = "count" -> Len(payload) = Len(expected)
      [] how = "in order" ->
             Len(payload) = Len(expected)
             /\ \A i \in DOMAIN payload : Matches(expected[i], payload[i])
      [] how = "any order" ->
             Len(payload) = Len(expected)
             /\ \A e \in ToSet(expected) :
                    Cardinality({i \in DOMAIN payload : Matches(e, payload[i])})
                    = Cardinality({i \in DOMAIN expected : expected[i] = e})

-------------------------------------------------------------------------------
(* The SDK's evaluations.  "e" is the state of the client under test.      *)

RECURSIVE Evaluations(_, _, _, _, _), PrerequisitesOf(_, _, _, _)

\* The evaluations that one of flag key makes, those of its prerequisites
\* first; "path" holds the flags on the way to it.
Evaluations(flags, key, context, path, default) ==
    IF key \notin DOMAIN flags
    THEN <<[key |-> key, unknown |-> TRUE, value |-> IF default = {} THEN "null"
                                                     ELSE CHOOSE d \in default : TRUE,
            default |-> default, reason |-> "FLAG_NOT_FOUND", flag |-> EventFlag]>>
    ELSE LET flag == flags[key]
             users == {c.key : c \in {i \in context : i.kind = "user"}}
             served == IF \E u \in users : u \in DOMAIN flag.targets
                       THEN flag.targets[CHOOSE u \in users : u \in DOMAIN flag.targets]
                       ELSE [value |-> flag.value, variation |-> flag.variation,
                             reason |-> flag.reason]
         IN  PrerequisitesOf(flags, flag.prerequisites, context, Append(path, key))
             \o <<[key |-> key, unknown |-> FALSE,
                   value |-> IF served.variation = {} THEN CHOOSE d \in default : TRUE
                             ELSE served.value,
                   variation |-> served.variation, reason |-> served.reason,
                   default |-> default, flag |-> flag,
                   prereqOf |-> IF path = <<>> \/ sdk = "losesPrereqOf" THEN {}
                                ELSE {path[Len(path)]}]>>

\* A prerequisite that is on the path closes a cycle and is not evaluated.
PrerequisitesOf(flags, keys, context, path) ==
    LET passed == Cardinality({i \in DOMAIN path : path[i] = Head(keys)})
        rest == PrerequisitesOf(flags, Tail(keys), context, path)
    IN  IF keys = <<>> \/ sdk = "ignoresPrerequisites" THEN <<>>
        ELSE IF \/ passed > (IF sdk = "followsCycles" THEN 1 ELSE 0)
                \/ sdk = "limitsDepth" /\ Len(path) > 10 THEN rest
        ELSE Evaluations(flags, Head(keys), context, path, {}) \o rest

\* The diamond: every path to a flag counts.
OnceEach(results) ==
    SelectSeq([i \in DOMAIN results |-> [n |-> i, result |-> results[i]]],
              LAMBDA x : \A j \in 1..(x.n - 1) : results[j].key # x.result.key)

EvaluationsOf(e, operation) ==
    LET results == Evaluations(e.flags, operation.key, e.context, <<>>, {operation.default})
        once == OnceEach(results)
    IN  IF sdk = "visitsOnce" THEN [i \in DOMAIN once |-> once[i].result] ELSE results

Version(flag) ==
    IF flag.flagVersion = {} \/ sdk = "reportsEnvironmentVersion" THEN flag.version
    ELSE CHOOSE v \in flag.flagVersion : TRUE

-------------------------------------------------------------------------------
(* The SDK's events. *)

\* The attributes of c that an event leaves out.  Those of anonymous contexts
\* are left out of feature events, and on the server side of custom events.
RedactedOf(e, c, kind) ==
    LET anonymous ==
            /\ c.anonymous
            /\ kind = "feature" \/ (kind = "custom" /\ (~IsClientSide \/ sdk = "redactsCustom"))
            /\ kind = "feature" \/ sdk # "redactsFeaturesOnly"
            /\ sdk # "keepsAnonymous"
    IN  IF \/ anonymous
           \/ e.config.allPrivate /\ sdk # "redactsNamedOnly"
        THEN c.attributes
        ELSE c.attributes \intersect (c.private \cup e.config.private \cup e.leaked)

RedactedFrom(e, context, kind) ==
    LET all == sdk = "redactsEveryKind" /\ kind = "feature" /\ (\E c \in context : c.anonymous)
        redacted(c) == IF all THEN c.attributes
                       ELSE IF sdk = "mergesKinds" THEN
                           UNION {RedactedOf(e, d, kind) : d \in context} \intersect c.attributes
                       ELSE RedactedOf(e, c, kind)
    IN  UNION {{<<c.kind, a>> : a \in redacted(c)} : c \in context}

\* An event with its context, its attributes as far as they are not redacted.
EventFor(e, kind, context) ==
    [kind |-> kind, context |-> MatchedKeys(context), redacted |-> RedactedFrom(e, context, kind)]

\* SDKs that take the private attributes of a context for their own, or lose
\* their own with them.
Merged(e, context) ==
    IF sdk = "keepsPrivate" THEN [e EXCEPT !.leaked = @ \cup UNION {c.private : c \in context}]
    ELSE IF sdk = "forgetsConfigured" /\ (\E c \in context : c.private # {})
    THEN [e EXCEPT !.config.private = {}]
    ELSE e

\* A full buffer drops the event.
Enqueue(e, event) ==
    IF /\ sdk # "ignoresCapacity"
       /\ \E n \in e.config.capacity : Len(e.queue) >= n
    THEN e ELSE [e EXCEPT !.queue = Append(@, event)]

\* What is left of a context when anonymous ones are omitted.
Reported(e, context) ==
    IF e.config.omitAnonymous /\ sdk # "reportsAnonymous"
    THEN IF sdk = "omitsMixed" /\ (\E c \in context : c.anonymous) THEN {}
         ELSE {c \in context : ~c.anonymous}
    ELSE context

\* Contexts are told apart by all of their kinds and keys.
Known(context) ==
    IF sdk = "knowsByKey" THEN {<<"any", c.key>> : c \in context} ELSE AllKeys(context)

EnqueueIndex(e, context) ==
    LET reported == Reported(e, context)
        noted == [e EXCEPT !.known = @ \cup {Known(context)}]
    IN  IF \/ IsClientSide \/ IsPHP \/ reported = {} \/ Known(context) \in e.known
        THEN noted
        ELSE Enqueue(IF sdk = "forgetsIndexed" THEN e ELSE noted,
                     EventFor(e, "index", reported))

EnqueueIdentify(e, context) ==
    LET reported == Reported(e, context)
        noted == IF sdk = "indexesIdentified" THEN e
                 ELSE IF sdk = "forgetsMultiKind" /\ Cardinality(context) > 1 THEN e
                 ELSE [e EXCEPT !.known = @ \cup {Known(context)}]
    IN  IF reported = {} \/ sdk = "ignoresIdentify" THEN noted
        ELSE Merged(Enqueue(noted, EventFor(e, "identify", reported)), reported)

FeatureEvent(result, detail) ==
    [key |-> result.key, version |-> {Version(result.flag)}, value |-> result.value, variation |-> result.variation,
     reason |-> IF \/ detail /\ sdk # "losesReason"
                   \/ result.flag.experiment /\ sdk # "explainsOnDemand"
                   \/ sdk = "alwaysGivesReason"
                THEN {result.reason} ELSE {},
     default |-> IF sdk = "losesDefault" THEN {} ELSE result.default,
     prereqOf |-> IF IsClientSide THEN {} ELSE result.prereqOf,
     trackEvents |-> result.flag.tracked, debugEventsUntilDate |-> result.flag.debugUntil,
     excludeFromSummaries |-> result.flag.excluded /\ sdk # "losesExclusion"]

IsTracked(result) ==
    \/ IsPHP
    \/ result.flag.tracked /\ sdk # "ignoresTracking"
    \/ result.flag.experiment /\ sdk # "ignoresExperiments"
    \/ sdk = "tracksAll"

\* Debugging ends at the earlier of the SDK's time and the last known time of
\* LaunchDarkly.
IsDebugged(e, result) ==
    /\ ~IsPHP
    /\ \E until \in result.flag.debugUntil :
           /\ until > Now \/ sdk = "ignoresOwnTime"
           /\ sdk = "ignoresServiceTime" \/ (\A t \in e.serviceTime : until > t)
    /\ sdk # "neverDebugs"

Sampled(result) == result.flag.samplingRatio # 0 \/ sdk = "ignoresSampling"

EnqueueEvaluation(e, result, operation) ==
    LET event(kind) == FeatureEvent(result, operation.detail) @@ EventFor(e, kind, e.context)
        sent == ~result.unknown /\ Sampled(result)
        tracked == IF sent /\ IsTracked(result) THEN Enqueue(e, event("feature")) ELSE e
        debugged == IF sent /\ IsDebugged(e, result) THEN Enqueue(tracked, event("debug"))
                    ELSE tracked
    IN  IF \/ IsPHP
           \/ result.flag.excluded /\ sdk # "countsExcluded"
           \/ result.unknown /\ sdk = "countsKnownOnly"
        THEN debugged
        ELSE [debugged EXCEPT !.evaluated =
                 Append(@, result @@ [context |-> e.context])]

\* The summary of the evaluations for one context, or for all.
CounterOf(result) ==
    IF result.unknown THEN [value |-> result.value, unknown |-> TRUE]
    ELSE [value |-> result.value, variation |-> result.variation,
          version |-> IF sdk = "mergesVersions" THEN 0 ELSE Version(result.flag)]

Feature(results) ==
    LET counted(c) == Cardinality({i \in DOMAIN results : CounterOf(results[i]) = c})
    IN  [default |-> results[IF sdk = "reportsLastDefault" THEN Len(results) ELSE 1].default,
         counters |-> {c @@ [count |-> IF sdk = "countsOnce" THEN 1 ELSE counted(c)] :
                          c \in {CounterOf(results[i]) : i \in DOMAIN results}},
         contextKinds |-> IF sdk = "reportsFirstKind" THEN KindsOf(results[1].context)
                          ELSE UNION {KindsOf(results[i].context) : i \in DOMAIN results}]

SummaryEvent(results, context) ==
    [kind |-> "summary", context |-> context,
     features |-> [k \in {results[i].key : i \in DOMAIN results} |->
                      Feature(SelectSeq(results, LAMBDA r : r.key = k))]]

Summaries(e) ==
    LET contexts == SetToSeq({e.evaluated[i].context : i \in DOMAIN e.evaluated})
    IN  IF \/ e.evaluated = <<>>
           \/ /\ sdk = "countsSummaryAsEvent"
              /\ \E n \in e.config.capacity : Len(e.queue) >= n
        THEN <<>>
        ELSE IF "client-per-context-summaries" \in capabilities /\ sdk # "mergesContexts"
        THEN [i \in DOMAIN contexts |->
                 SummaryEvent(SelectSeq(e.evaluated, LAMBDA r : r.context = contexts[i]),
                              MatchedKeys(contexts[i]))]
        ELSE <<SummaryEvent(e.evaluated, {})>>

-------------------------------------------------------------------------------
(* The steps of a test. *)

\* NewSDKClient: a client-side SDK identifies its initial context.
NewClient(c) ==
    LET e == [flags |-> c.flags, data |-> c.flags, context |-> c.context, config |-> c.config,
              known |-> {}, queue |-> <<>>, evaluated |-> <<>>, leaked |-> {},
              serviceTime |-> {}, hostTime |-> c.hostTime, answered |-> TRUE, update |-> {}, posted |-> <<>>]
    IN  IF IsClientSide THEN EnqueueIdentify(e, c.context) ELSE e

LaunchEventCase(c) ==
    [at |-> "script", step |-> 1, ok |-> TRUE, polls |-> 0,
     client |-> IF c.client = "new" THEN NewClient(c) ELSE run.client]

RECURSIVE EnqueueEvaluations(_, _, _)
EnqueueEvaluations(e, results, operation) ==
    IF results = <<>> THEN e
    ELSE EnqueueEvaluations(EnqueueEvaluation(e, Head(results), operation),
                            Tail(results), operation)

For(e, context) == IF IsClientSide THEN e ELSE [e EXCEPT !.context = context]

EvaluateFlag(e, operation) ==
    LET f == For(e, operation.context)
    IN  EnqueueEvaluations(EnqueueIndex(f, f.context), EvaluationsOf(f, operation), operation)

EvaluationResult(e, operation) ==
    LET results == EvaluationsOf(For(e, operation.context), operation)
    IN  results[Len(results)].value

SendCustomEvent(e, operation) ==
    LET f == For(e, operation.context)
    IN  Enqueue(EnqueueIndex(f, f.context),
            [key |-> operation.key, metric |-> IF sdk = "omitsZeroMetric" /\ operation.metric = {"0"} THEN {}
                        ELSE operation.metric,
             data |-> IF sdk = "losesData" THEN {} ELSE operation.data]
            @@ EventFor(f, "custom", f.context))

\* A client-side SDK fetches the data for the context that it identifies.
SendIdentifyEvent(e, operation) ==
    LET f == EnqueueIdentify(e, operation.context)
    IN  IF IsClientSide THEN [f EXCEPT !.context = operation.context, !.flags = f.data] ELSE f

\* FlushEvents: the SDK posts what it has, if anything.
FlushEvents(e) ==
    LET summaries == Summaries(e)
        payload == e.queue \o summaries
        sent == [e EXCEPT !.queue = IF sdk = "keepsQueue" THEN @ ELSE <<>>,
                          !.evaluated = IF sdk = "keepsCounters" THEN @ ELSE <<>>]
    IN  IF payload = <<>> \/ (e.config.disabled /\ sdk # "ignoresDisabling") THEN sent
        ELSE [sent EXCEPT !.posted = Append(@, payload), !.answered = FALSE]

\* The SDK takes note of the date in the answer to its post.
ProcessAnswer ==
    /\ ~run.client.answered
    /\ During([run EXCEPT !.client.answered = TRUE,
                       !.client.serviceTime = {run.client.hostTime}])

\* The SDK takes the update from its stream.
ReceiveUpdate ==
    \E flags \in run.client.update :
        During([run EXCEPT !.client.flags = IF sdk = "ignoresUpdates" THEN @ ELSE flags,
                           !.client.update = {}])

\* An assertion that fails lets the test go on; require.Fail ends it.
Continue(client, ok) ==
    During([run EXCEPT !.step = @ + 1, !.polls = 0, !.client = client, !.ok = @ /\ ok])

Require(c, client, ok) ==
    During([run EXCEPT !.step = IF ok THEN @ + 1 ELSE Len(c.script) + 1, !.polls = 0,
                       !.client = client, !.ok = @ /\ ok])

\* checkForUpdatedValue: neither the old nor the new value fails the test, and
\* so does an update that does not arrive in time.
Poll(c, operation) ==
    LET result == EvaluationResult(run.client, operation)
        client == EvaluateFlag(run.client, operation)
    IN  IF result # operation.old THEN Continue(client, result = operation.new)
        ELSE IF run.polls < MaxPolls
        THEN During([run EXCEPT !.polls = @ + 1, !.client = client])
        ELSE run.client.update = {} /\ Require(c, client, FALSE)

\* The test takes the oldest payload that it has not seen.
Expect(c, operation) ==
    IF run.client.posted = <<>> THEN Require(c, run.client, FALSE)
    ELSE Continue([run.client EXCEPT !.posted = Tail(@)],
             \E events \in operation.alternatives :
                 MatchesPayload(operation.how, events, Head(run.client.posted)))

\* The next step of the script.
Perform(c, operation) ==
    LET e == run.client IN
    CASE operation.do = "evaluate" ->
             Require(c, EvaluateFlag(e, operation),
                     operation.result \in {{}, {EvaluationResult(e, operation)}})
      [] operation.do = "identify" -> Continue(SendIdentifyEvent(e, operation), TRUE)
      [] operation.do = "custom" -> Continue(SendCustomEvent(e, operation), TRUE)
      [] operation.do = "all flags" ->
             Continue(IF sdk = "tracksAllFlags" THEN Enqueue(e, EventFor(e, "feature", e.context)) ELSE e,
                      TRUE)
      [] operation.do = "set data" -> Continue([e EXCEPT !.data = operation.flags], TRUE)
      [] operation.do = "push" -> Continue([e EXCEPT !.update = {operation.flags}], TRUE)
      [] operation.do = "poll" -> Poll(c, operation)
      [] operation.do = "sleep" -> e.answered /\ Continue(e, TRUE)
      [] operation.do = "flush" -> Continue(FlushEvents(e), TRUE)
      [] operation.do = "expect" -> Expect(c, operation)
      [] operation.do = "expect none" -> Continue(e, e.posted = <<>>)

EventSteps(cases) ==
    \/ Begin(cases, LaunchEventCase)
    \/ /\ run.at = "script"
       /\ LET c == cases[position] IN
          \/ ProcessAnswer
          \/ ReceiveUpdate
          \/ run.step <= Len(c.script) /\ Perform(c, c.script[run.step])
          \/ run.step > Len(c.script)
             /\ VerdictLeaving(c, run.ok, Idle @@ [client |-> run.client])
=================================================================================
