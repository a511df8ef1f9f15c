---------------------------- MODULE FeatureEventTests ----------------------------
(***************************************************************************)
(* The tests of feature events and debug events, of experiments and of     *)
(* prerequisites: sdktests/server_side_events_eval.go,                     *)
(* client_side_events_eval.go, php_events_eval.go and *_experimentation.go.*)
(* One value type stands for all that the tests go through.                *)
(***************************************************************************)
EXTENDS EventTests
LOCAL INSTANCE TLC
LOCAL INSTANCE SequencesExt

Both == <<FALSE, TRUE>>

WithDetail(detail, evaluation) == [evaluation EXCEPT !.detail = detail]
Returning(value, evaluation) == [evaluation EXCEPT !.result = {value}]

maybeReason(withReason, reason) == IF withReason THEN {reason} ELSE {}

\* The fields of a feature or debug event that are the result of an evaluation.
ResultIs(key, version, value, variation, reason) ==
    [key |-> key, version |-> {version}, value |-> value, variation |-> variation,
     reason |-> reason]

\* A feature event that is not for a prerequisite.
IsValidFeatureEvent(context, result, default) ==
    ForContext("feature", context) @@ result @@ [default |-> {default}, prereqOf |-> {}]
IsFeatureEventFor(context, key) == ForContext("feature", context) @@ [key |-> key]
MatchDebugEvent(context, result, default) ==
    ForContext("debug", context) @@ result @@ [default |-> {default}]

\* The index event and the summary event that come with an evaluation for a
\* context that the SDK has not seen.
WithIndexAndSummary(context, events) ==
    <<ForContext("index", context)>> \o events \o <<IsSummaryEvent>>

anonymousAttributes == {"name", "setup", "punchline"}
AnonymousUser(key) == WithAttributes(AsAnonymous(User(key)), anonymousAttributes)
\* An anonymous user with an organisation that is not anonymous.
PartlyAnonymous(key) ==
    AnonymousUser(key) \cup WithAttributes(OfKind("org", key), anonymousAttributes)
RedactsUser == [redacted |-> {"user"} \X anonymousAttributes]

-------------------------------------------------------------------------------
(* Server-side SDKs.                                                       *)

TrackedFlag == [EventFlag EXCEPT !.version = 1, !.tracked = TRUE]

featureFlags ==
    "untracked" :> [EventFlag EXCEPT !.version = 1]
    @@ "tracked" :> TrackedFlag
    @@ "bad-flag" :> MalformedFlag
    @@ "zero-sampling-ratio" :> [EventFlag EXCEPT !.version = 1, !.samplingRatio = 0]

\* The subtests share a client, which the first of them creates.
FeatureCase(test) ==
    [EventCase EXCEPT !.test = test, !.flags = featureFlags, !.client = "same"]

onlyIndexAndSummaryForUntrackedFlag ==
    [i \in 1..2 |->
        LET context == User(ToString(i)) IN
        [FeatureCase("onlyIndexAndSummaryForUntrackedFlag")
            EXCEPT !.client = IF i = 1 THEN "new" ELSE "same",
                   !.script = <<Returning("value", WithDetail(Both[i],
                                    Evaluation("untracked", context, "default")))>>
                              \o ItemsInAnyOrder(WithIndexAndSummary(context, <<>>))]]

fullFeatureEventForTrackedFlag ==
    LET doFeatureEventTest(category, withReason, isBadFlag) ==
            LET key == IF isBadFlag THEN "bad-flag" ELSE "tracked"
                context == SingleAndMultiKind(ToString(<<withReason, isBadFlag>>))[category]
                value == IF isBadFlag THEN "default" ELSE "value"
                result == ResultIs(key, 1, value, IF isBadFlag THEN {} ELSE {0},
                              maybeReason(withReason, IF isBadFlag THEN "MALFORMED_FLAG"
                                                      ELSE "FALLTHROUGH"))
            IN  [FeatureCase("fullFeatureEventForTrackedFlag") EXCEPT !.script =
                    <<Returning(value, WithDetail(withReason, Evaluation(key, context, "default")))>>
                    \o ItemsInAnyOrder(WithIndexAndSummary(context,
                           <<IsValidFeatureEvent(context, result, "default")>>))]
    IN  Listed({doFeatureEventTest(category, withReason, isBadFlag) :
                    category \in 1..3, withReason \in BOOLEAN, isBadFlag \in BOOLEAN})

anonymousContextIsRedacted ==
    LET redacts(context) ==
            [FeatureCase("anonymousContextIsRedacted") EXCEPT
                !.needs = {"anonymous-redaction", "inline-context-all"},
                !.script = <<Returning("value", Evaluation("tracked", context, "default"))>>
                    \o ItemsInAnyOrder(WithIndexAndSummary(context,
                           <<ForContext("feature", context) @@ RedactsUser>>))]
    IN  <<redacts(AnonymousUser("anonymous")), redacts(PartlyAnonymous("multi"))>>

\* The flag is not tracked in the first place.
disableFullFeatureEventThroughSampling ==
    <<[FeatureCase("disableFullFeatureEventThroughSampling") EXCEPT !.needs = {"event-sampling"},
        !.script = <<Evaluation("zero-sampling-ratio", User("example"), "false")>>
            \o ItemsInAnyOrder(WithIndexAndSummary(User("example"), <<>>))]>>

evaluatingAllFlagsGeneratesNoEvents ==
    <<[FeatureCase("evaluatingAllFlagsGeneratesNoEvents") EXCEPT
        !.script = <<AllFlags>> \o ExpectNoAnalyticsEvents]>>

doServerSideFeatureEventTests ==
    onlyIndexAndSummaryForUntrackedFlag \o fullFeatureEventForTrackedFlag
    \o anonymousContextIsRedacted \o disableFullFeatureEventThroughSampling
    \o evaluatingAllFlagsGeneratesNoEvents

-------------------------------------------------------------------------------
(* Debug events, for both kinds of SDKs.  Times are minutes, and "known"   *)
(* is LaunchDarkly's time if the SDK has seen it.                          *)

doDebugEventTestCases ==
    LET row(see, until, known) == [see |-> see, until |-> until, known |-> known]
        future == Now + 60
        past == Now - 60
    IN  <<row(TRUE, future, {}), row(TRUE, future, {future - 1}),
          row(FALSE, past, {}), row(FALSE, past, {past - 1}), row(FALSE, past, {past + 1}),
          row(FALSE, future, {future + 1})>>

DebuggedFlag(until) == [EventFlag EXCEPT !.version = 1, !.debugUntil = {until}]

\* Without reasons, then with reasons.  "learn" makes the SDK see the date.
DoDebugTests(context(_), flag(_), learn(_), events(_, _)) ==
    FlattenSeq([i \in DOMAIN doDebugEventTestCases |->
        LET c == doDebugEventTestCases[i]
            flags == "flag" :> flag(c.until)
            debugged(user, withReasons) ==
                IF c.see
                THEN <<MatchDebugEvent(user,
                           ResultIs("flag", 1, "value", {0}, maybeReason(withReasons, "FALLTHROUGH")),
                           "default")>>
                ELSE <<>>
            case(withReasons) ==
                LET user == context(withReasons) IN
                [EventCase EXCEPT !.test = "debugEventTestCases", !.flags = flags,
                    !.context = context(FALSE),
                    !.hostTime = IF c.known = {} THEN Now ELSE CHOOSE t \in c.known : TRUE,
                    !.client = IF withReasons THEN "same" ELSE "new",
                    !.script = (IF withReasons THEN <<>> ELSE learn(c))
                        \o <<Returning("value",
                                 WithDetail(withReasons, Evaluation("flag", user, "default")))>>
                        \o ItemsInAnyOrder(events(user, debugged(user, withReasons)))]
        IN  <<case(FALSE), case(TRUE)>>])

serverDebugContext(withReasons) == User(IF withReasons THEN "user-2" ELSE "user-1")

\* Fault: the evaluation does not wait until the SDK has processed the answer.
LearnTimeByIdentify_NoSleep(c) ==
    IF c.known = {} THEN <<>> ELSE <<Identification(User("unimportant"))>> \o Discard

\* "Hacky arbitrary sleep": the payload is there before the SDK has the date.
LearnTimeByIdentify(c) ==
    IF c.known = {} THEN <<>>
    ELSE <<Identification(User("unimportant"))>> \o Discard \o <<Sleep>>

samplingRatioCanDisableDebugEvent ==
    <<[EventCase EXCEPT !.test = "samplingRatioCanDisableDebugEvent",
        !.needs = {"event-sampling"}, !.flags = featureFlags,
        !.script = <<Returning("value",
                         Evaluation("zero-sampling-ratio", User("user-1"), "false"))>>
            \o ItemsInAnyOrder(WithIndexAndSummary(User("user-1"), <<>>))]>>

doServerSideDebugEventTests ==
    DoDebugTests(serverDebugContext, DebuggedFlag,
                 LearnTimeByIdentify, WithIndexAndSummary)
    \o samplingRatioCanDisableDebugEvent

\* The prerequisites' events name the flag whose prerequisite they are, and
\* have no default.
doServerSideFeaturePrerequisiteEventTests ==
    LET user == User("user-key")
        flag(version, value, variation, reason, prerequisites) ==
            [TrackedFlag EXCEPT !.version = version, !.value = value, !.variation = {variation},
                !.reason = reason, !.prerequisites = prerequisites]
        flags == "flag1" :> flag(100, "value1", 1, "FALLTHROUGH", <<"flag2">>)
                 @@ "flag2" :> flag(200, "ok2", 2, "TARGET_MATCH", <<"flag3">>)
                 @@ "flag3" :> flag(300, "ok3", 3, "RULE_MATCH", <<>>)
        case(script) ==
            [EventCase EXCEPT !.test = "doServerSideFeaturePrerequisiteEventTests",
                              !.flags = flags, !.script = script]
        prerequisite(result, of) ==
            ForContext("feature", user) @@ result @@ [default |-> {}, prereqOf |-> {of}]
        feature(withReason) ==
            <<ForContext("feature", user) @@ [prereqOf |-> {}]
                  @@ ResultIs("flag1", 100, "value1", {1}, maybeReason(withReason, "FALLTHROUGH")),
              prerequisite(ResultIs("flag2", 200, "ok2", {2},
                                    maybeReason(withReason, "TARGET_MATCH")), "flag1"),
              prerequisite(ResultIs("flag3", 300, "ok3", {3},
                                    maybeReason(withReason, "RULE_MATCH")), "flag2")>>
        evaluated(withReason, events) ==
            case(<<Returning("value1", WithDetail(withReason, Evaluation("flag1", user, "default")))>>
                 \o ItemsInAnyOrder(events))
        both(withReason) ==
            <<[evaluated(withReason, WithIndexAndSummary(user, feature(withReason)))
                  EXCEPT !.unless = {"php"}],
              [evaluated(withReason, feature(withReason)) EXCEPT !.needs = {"php"}]>>
    IN  both(FALSE) \o both(TRUE) \o <<case(<<AllFlags>> \o ExpectNoAnalyticsEvents)>>

\* An experiment is tracked and explained, whatever the application asks for.
doServerSideExperimentationEventTests ==
    LET user == User("user-key")
        flag(reason) == [EventFlag EXCEPT !.version = 1, !.value = "good", !.variation = {1},
                                          !.reason = reason, !.experiment = TRUE]
        feature(reason) ==
            <<IsValidFeatureEvent(user, ResultIs("flag-key", 1, "good", {1}, {reason}), "default")>>
        case(reason, events) ==
            [EventCase EXCEPT !.test = "doServerSideExperimentationEventTests",
                !.flags = "flag-key" :> flag(reason),
                !.script = <<Returning("good", Evaluation("flag-key", user, "default"))>>
                           \o ItemsInAnyOrder(events)]
        both(reason) ==
            <<[case(reason, WithIndexAndSummary(user, feature(reason))) EXCEPT !.unless = {"php"}],
              [case(reason, feature(reason)) EXCEPT !.needs = {"php"}]>>
    IN  both("RULE_MATCH inExperiment") \o both("FALLTHROUGH inExperiment")

-------------------------------------------------------------------------------
(* Client-side SDKs evaluate for the context that they have identified.    *)

\* The memoizing factory gives the flag version 1 and the environment's 11.
ClientFlag == [EventFlag EXCEPT !.version = 11, !.flagVersion = {1}]
ForCurrent(key) == Evaluation(key, {}, "default")

clientContext == User("doClientSideFeatureEventTests")
IdentifyAndDiscard(context) == <<Identification(context)>> \o Discard

ClientFeatureCase(test) ==
    [EventCase EXCEPT !.test = test, !.context = clientContext, !.client = "same",
        !.flags = "untracked" :> ClientFlag @@ "tracked" :> [ClientFlag EXCEPT !.tracked = TRUE]]

\* The initial identify event is discarded first.
onlySummaryForUntrackedFlag ==
    <<[ClientFeatureCase("onlySummaryForUntrackedFlag") EXCEPT !.client = "new",
        !.script = Discard \o <<Returning("value", ForCurrent("untracked"))>>
                   \o ItemsInAnyOrder(<<IsSummaryEvent>>)]>>

clientFullFeatureEventForTrackedFlag ==
    [i \in 1..2 |-> [ClientFeatureCase("clientFullFeatureEventForTrackedFlag") EXCEPT
        !.script = <<Returning("value", WithDetail(Both[i], ForCurrent("tracked")))>>
            \o ItemsInAnyOrder(<<IsValidFeatureEvent(clientContext, ResultIs("tracked", 1, "value",
                                     {0}, maybeReason(Both[i], "FALLTHROUGH")), "default"),
                                 IsSummaryEvent>>)]]

\* The last step restores the client's context.
clientAnonymousContextIsRedacted ==
    LET redacts(context, after) ==
            [ClientFeatureCase("clientAnonymousContextIsRedacted") EXCEPT
                !.needs = {"anonymous-redaction"},
                !.script = IdentifyAndDiscard(context)
                    \o <<Returning("value", ForCurrent("tracked"))>>
                    \o ItemsInAnyOrder(<<ForContext("feature", context) @@ RedactsUser,
                                         IsSummaryEvent>>)
                    \o after]
    IN  <<redacts(AnonymousUser("anonymous"), <<>>),
          redacts(PartlyAnonymous("multi"), IdentifyAndDiscard(clientContext))>>

clientEvaluatingAllFlagsGeneratesNoEvents ==
    <<[ClientFeatureCase("clientEvaluatingAllFlagsGeneratesNoEvents") EXCEPT
        !.script = <<AllFlags>> \o ExpectNoAnalyticsEvents]>>

doClientSideFeatureEventTests ==
    onlySummaryForUntrackedFlag \o clientFullFeatureEventForTrackedFlag
    \o clientAnonymousContextIsRedacted \o clientEvaluatingAllFlagsGeneratesNoEvents

\* The flush of the initial identify event makes the SDK see the date.
LearnTimeByInitialIdentify(c) == Discard \o (IF c.known = {} THEN <<>> ELSE <<Sleep>>)

doClientSideDebugEventTests ==
    LET context(withReasons) == User("doClientSideDebugEventTests")
        flag(until) == [ClientFlag EXCEPT !.debugUntil = {until}]
        events(user, debugged) == Append(debugged, IsSummaryEvent)
    IN  DoDebugTests(context, flag,
                     LearnTimeByInitialIdentify, events)

doClientSideExperimentationEventTests ==
    LET user == User("user-key")
        case(reason) ==
            [EventCase EXCEPT !.test = "doClientSideExperimentationEventTests", !.context = user,
                !.flags = "flag-key" :> [EventFlag EXCEPT !.flagVersion = {100}, !.version = 120,
                    !.value = "good", !.variation = {1}, !.reason = reason,
                    !.tracked = TRUE, !.experiment = TRUE],
                !.script = <<Returning("good", ForCurrent("flag-key"))>>
                    \o ItemsInAnyOrder(<<IsIdentifyEvent, IsValidFeatureEvent(user,
                           ResultIs("flag-key", 100, "good", {1}, {reason}), "default"),
                           IsSummaryEvent>>)]
    IN  <<case("FALLTHROUGH inExperiment"), case("RULE_MATCH inExperiment")>>

\* The tests of prerequisites: the events that one evaluation generates.
ClientPrerequisiteCase(test, graph, key, default, features) ==
    [EventCase EXCEPT !.test = test, !.context = User("user"), !.needs = {"client-prereq-events"},
        !.flags = [k \in DOMAIN graph |->
                      [EventFlag EXCEPT !.tracked = TRUE, !.prerequisites = graph[k]]],
        !.script = <<Returning("value", Evaluation(key, {}, default))>>
            \o ItemsInAnyOrder(<<ForContext("identify", User("user"))>> \o features
                               \o <<IsSummaryEvent>>)]

\* In any order, for all its name; "preqreq2" is no flag.
doClientSideInOrderPrereqEventTests ==
    LET graph == "topLevel" :> <<"prereq1", "preqreq2">> @@ "prereq1" :> <<"prereq2">>
                 @@ "prereq2" :> <<>>
        feature(key) == ForContext("feature", User("user"))
                        @@ [key |-> key, version |-> {0}, value |-> "value", variation |-> {0},
                            prereqOf |-> {}]
    IN  <<ClientPrerequisiteCase("doClientSideInOrderPrereqEventTests", graph, "topLevel", "null",
              <<feature("prereq2"), feature("prereq1"), feature("topLevel")>>)>>

deepChain == [i \in 0..19 |-> ToString(i)]

\* An edge that closes a cycle is skipped; every other way to a flag counts.
doClientSidePrereqCycleTests ==
    LET runCase(graph, key, keys) ==
            [ClientPrerequisiteCase("doClientSidePrereqCycleTests", graph, key, "null",
                 [i \in DOMAIN keys |-> IsFeatureEventFor(User("user"), keys[i])])
                EXCEPT !.needs = @ \cup {"client-prereq-cycle-detection"}]
        twoCycle == [A |-> <<"B">>, B |-> <<"A">>]
        chain == [k \in {deepChain[i] : i \in 0..19} |->
                     LET i == CHOOSE j \in 0..19 : deepChain[j] = k
                     IN  IF i < 19 THEN <<deepChain[i + 1]>> ELSE <<>>]
    IN  <<runCase([A |-> <<"A">>], "A", <<"A">>),
          runCase([A |-> <<"A", "B">>, B |-> <<>>], "A", <<"B", "A">>),
          runCase(twoCycle, "A", <<"B", "A">>), runCase(twoCycle, "B", <<"A", "B">>),
          runCase([A |-> <<"B">>, B |-> <<"C">>, C |-> <<"A">>], "A", <<"C", "B", "A">>),
          runCase([A |-> <<"X", "B">>, X |-> <<>>, B |-> <<"C">>, C |-> <<"B">>], "A",
                  <<"X", "C", "B", "A">>),
          runCase([A |-> <<"B", "C">>, B |-> <<"D">>, C |-> <<"D">>, D |-> <<>>], "A",
                  <<"D", "B", "D", "C", "A">>),
          runCase(chain, "0", [i \in 1..20 |-> deepChain[20 - i]])>>

-------------------------------------------------------------------------------
(* PHP: every evaluation generates a feature event and nothing else, which *)
(* carries what the summaries are made from elsewhere.                     *)

phpFeatureEvents ==
    LET doFeatureEventTest(category, withReason, tracked, withDebug, malformed) ==
            LET context == SingleAndMultiKind("user")[category]
                debugUntil == IF withDebug THEN {Now} ELSE {}
                flag == [(IF malformed THEN MalformedFlag ELSE EventFlag) EXCEPT
                            !.version = 1, !.tracked = tracked, !.debugUntil = debugUntil]
                value == IF malformed THEN "default" ELSE "value"
                result == ResultIs("flag", 1, value, flag.variation,
                                   maybeReason(withReason, flag.reason))
            IN  [EventCase EXCEPT !.test = "phpFeatureEvents", !.flags = "flag" :> flag,
                    !.script = <<Returning(value,
                                     WithDetail(withReason, Evaluation("flag", context, "default")))>>
                        \o Items(<<IsValidFeatureEvent(context, result, "default")
                                   @@ [trackEvents |-> tracked,
                                       debugEventsUntilDate |-> debugUntil]>>)]
    IN  Listed({doFeatureEventTest(category, withReason, tracked, withDebug, malformed) :
                    category \in 1..3, withReason \in BOOLEAN, tracked \in BOOLEAN,
                    withDebug \in BOOLEAN, malformed \in BOOLEAN})

phpAnonymousContextIsRedacted ==
    LET redacts(context) ==
            [EventCase EXCEPT !.test = "phpAnonymousContextIsRedacted",
                !.needs = {"anonymous-redaction"}, !.flags = "flag" :> TrackedFlag,
                !.script = <<Returning("value",
                                 WithDetail(TRUE, Evaluation("flag", context, "default")))>>
                    \o Items(<<ForContext("feature", context) @@ RedactsUser>>)]
    IN  <<redacts(AnonymousUser("anonymous")), redacts(PartlyAnonymous("multi"))>>

phpExcludeFromSummaries ==
    <<[EventCase EXCEPT !.test = "phpExcludeFromSummaries", !.needs = {"event-sampling"},
        !.flags = "exclude-from-summaries" :>
                      [EventFlag EXCEPT !.version = 1, !.excluded = TRUE],
        !.script = <<Evaluation("exclude-from-summaries", User("user-key"), "false")>>
            \o Items(<<ForContext("feature", User("user-key"))
                       @@ [excludeFromSummaries |-> TRUE]>>)]>>

doPHPFeatureEventTests ==
    phpAnonymousContextIsRedacted \o phpFeatureEvents
    \o evaluatingAllFlagsGeneratesNoEvents \o phpExcludeFromSummaries
=================================================================================
