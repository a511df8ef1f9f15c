---------------------------- MODULE CommonEventTests ----------------------------
(***************************************************************************)
(* The event tests that server-side, client-side and PHP SDKs share        *)
(* (sdktests/common_tests_events_*.go), with those of index events         *)
(* (server_side_events_index.go) and the three suites.                     *)
(***************************************************************************)
EXTENDS SummaryEventTests, FeatureEventTests
LOCAL INSTANCE TLC
LOCAL INSTANCE SequencesExt

ServerCase(test) == [EventCase EXCEPT !.test = test, !.unless = {"client-side", "php"}]
ClientCase(test) == [EventCase EXCEPT !.test = test, !.needs = {"client-side"}]
PHPCase(test) == [EventCase EXCEPT !.test = test, !.needs = {"php"}]

\* The index event that comes first for a server-side SDK's new context.
PlusIndex(context, events) == <<ForContext("index", context)>> \o events

\* The same steps with what each kind of SDK is expected to send.
ForEachKind(test, script, server, client, php) ==
    <<[ServerCase(test) EXCEPT !.script = script \o server],
      [ClientCase(test) EXCEPT !.script = script \o client],
      [PHPCase(test) EXCEPT !.script = script \o php]>>

-------------------------------------------------------------------------------
(* IdentifyEvents. *)

identifyBasicProperties ==
    FlattenSeq([i \in 1..3 |->
        LET context == SingleAndMultiKind("identified")[i]
            identified == ForContext("identify", context)
        IN  ForEachKind("identifyBasicProperties", <<Identification(context)>>,
                Items(<<identified>>), Items(<<IsIdentifyEvent, identified>>),
                Items(<<identified>>))])

AnonymousOnly(key) == AsAnonymous(User(key))
AllAnonymous(key) == AsAnonymous(User(key) \cup OfKind("other", key))
NotAnonymous(key) == OfKind("other", key)
PartlyNotAnonymous(key) == AnonymousOnly(key) \cup NotAnonymous(key)

OmittingCase(test, script) ==
    [EventCase EXCEPT !.test = test, !.needs = {"omit-anonymous-contexts"},
        !.config.omitAnonymous = TRUE, !.script = script]

canOmitAnonymousContextsFromIdentifyEvents ==
    LET case(context, expectation) ==
            OmittingCase("canOmitAnonymousContextsFromIdentifyEvents",
                         <<Identification(context)>> \o expectation)
    IN  <<case(AnonymousOnly("context1"), ExpectNoAnalyticsEvents),
          case(AllAnonymous("context1"), ExpectNoAnalyticsEvents),
          case(PartlyNotAnonymous("context2"),
               Items(<<ForContext("identify", NotAnonymous("context2"))>>))>>

\* Once for each category of contexts, but always with a user.
identifyEventMakesIndexEventUnnecessary ==
    [i \in 1..3 |->
        LET context == User(ToString(i)) IN
        [ServerCase("identifyEventMakesIndexEventUnnecessary") EXCEPT !.script =
            <<Identification(context), CustomEvent("event-key", context)>>
            \o ItemsInAnyOrder(<<ForContext("identify", context), IsCustomEvent>>)]]

IdentifyEvents ==
    identifyBasicProperties \o canOmitAnonymousContextsFromIdentifyEvents
    \o identifyEventMakesIndexEventUnnecessary

-------------------------------------------------------------------------------
(* CustomEvents. *)

\* One client for all parameters; a client-side SDK's initial identify event
\* is ignored.  Null data may be left out.
customEventsParameterizedTests ==
    LET params == Listed({[metric |-> metric, data |-> data] :
                             metric \in {{}, {"0"}, {"-1.5"}, {"1.5"}}, data \in {{}, {"data"}}})
        user(i) == User(ToString(i))
        custom(i) == [kind |-> "custom", key |-> "event-key"] @@ params[i]
        subtest(i) ==
            LET script == <<params[i] @@ CustomEvent("event-key", user(i))>> IN
            ForEachKind("customEventsParameterizedTests", script,
                ItemsInAnyOrder(PlusIndex(user(i), <<custom(i)>>)),
                ItemsInAnyOrder(<<custom(i)>>), ItemsInAnyOrder(<<custom(i)>>))
        first == ForEachKind("customEventsParameterizedTests", <<>>, <<>>, Discard, <<>>)
        same(case) == [case EXCEPT !.client = "same"]
        subtests == FlattenSeq([i \in DOMAIN params |-> subtest(i)])
    IN  first \o [i \in DOMAIN subtests |-> same(subtests[i])]

\* Fault: it asks whether the SDK is for clients, and not whether it is PHP's.
customBasicProperties_IndexForPHP ==
    FlattenSeq([i \in 1..3 |->
        LET context == SingleAndMultiKind("custom")[i]
            custom == ForContext("custom", context)
            script == <<CustomEvent("event-key", context)>>
                      \o ItemsInAnyOrder(PlusIndex(context, <<custom>>))
        IN  <<[ServerCase("customBasicProperties") EXCEPT !.script = script],
              [PHPCase("customBasicProperties") EXCEPT !.script = script]>>])

customBasicProperties ==
    FlattenSeq([i \in 1..3 |->
        LET context == SingleAndMultiKind("custom")[i]
            custom == ForContext("custom", context)
            sent == <<CustomEvent("event-key", context)>>
        IN  <<[ServerCase("customBasicProperties") EXCEPT
                 !.script = sent \o ItemsInAnyOrder(PlusIndex(context, <<custom>>))],
              [ClientCase("customBasicProperties") EXCEPT
                 !.script = IdentifyAndDiscard(context) \o sent \o ItemsInAnyOrder(<<custom>>)],
              [PHPCase("customBasicProperties") EXCEPT
                 !.script = sent \o ItemsInAnyOrder(<<custom>>)]>>])

redactingCapabilities == {"anonymous-redaction", "inline-context-all"}
NotRedacted == [redacted |-> {}]

\* Of server-side SDKs only.
customEventRedactsAnonymousContexts ==
    FlattenSeq([i \in 1..2 |->
        LET context == <<AnonymousUser("anonymous"), PartlyAnonymous("multi")>>[i]
            custom == ForContext("custom", context) @@ RedactsUser
            sent == <<CustomEvent("event-key", context)>>
            needing(case) == [case EXCEPT !.needs = @ \cup redactingCapabilities]
        IN  <<needing([ServerCase("customEventRedactsAnonymousContexts") EXCEPT
                  !.script = sent \o ItemsInAnyOrder(PlusIndex(context, <<custom>>))]),
              needing([PHPCase("customEventRedactsAnonymousContexts") EXCEPT
                  !.script = sent \o ItemsInAnyOrder(<<custom>>)])>>])

customEventDoesNotRedactOnTheClient ==
    [i \in 1..2 |->
        LET context == <<AnonymousUser("anonymous"), PartlyAnonymous("multi")>>[i] IN
        [ClientCase("customEventDoesNotRedactOnTheClient") EXCEPT
            !.needs = @ \cup redactingCapabilities,
            !.script = IdentifyAndDiscard(context) \o <<CustomEvent("event-key", context)>>
                \o ItemsInAnyOrder(<<ForContext("custom", context) @@ NotRedacted>>)]]

CustomEvents ==
    customEventsParameterizedTests \o customBasicProperties
    \o customEventRedactsAnonymousContexts \o customEventDoesNotRedactOnTheClient

-------------------------------------------------------------------------------
(* Index events, of server-side SDKs only. *)

Unknown(context) == Evaluation("arbitrary-flag-key", context, "null")

indexBasicProperties ==
    <<[EventCase EXCEPT !.test = "indexBasicProperties",
        !.script = <<Unknown(User("user"))>>
            \o ItemsInAnyOrder(<<ForContext("index", User("user")), IsSummaryEvent>>)]>>

\* Contexts of different categories that share their keys.
uniqueContexts == ForCategories(<<"1", "1", "1">>) \o ForCategories(<<"2", "2", "2">>)
indexEvents == [i \in DOMAIN uniqueContexts |-> ForContext("index", uniqueContexts[i])]
ThreeTimes(events) == events \o events \o events

onlyOneIndexEventPerEvaluationContext ==
    LET case(operations, events) ==
            [EventCase EXCEPT !.test = "onlyOneIndexEventPerEvaluationContext",
                !.script = ThreeTimes(operations) \o ItemsInAnyOrder(indexEvents \o events)]
    IN  <<case([i \in DOMAIN uniqueContexts |-> Unknown(uniqueContexts[i])],
               <<IsSummaryEvent>>),
          case([i \in DOMAIN uniqueContexts |-> CustomEvent("event1", uniqueContexts[i])],
               Repeated(3 * Len(uniqueContexts), IsCustomEvent))>>

canOmitAnonymousContextsFromIndexEvents ==
    LET scenario(action(_), matcher) ==
            LET case(context, expectation) ==
                    OmittingCase("canOmitAnonymousContextsFromIndexEvents",
                                 <<action(context)>> \o expectation)
            IN  <<case(AnonymousOnly("context1"), Items(<<matcher>>)),
                  case(AllAnonymous("context1"), Items(<<matcher>>)),
                  case(PartlyNotAnonymous("context2"), ItemsInAnyOrder(
                      <<matcher, ForContext("index", NotAnonymous("context2"))>>))>>
    IN  scenario(LAMBDA context : CustomEvent("event1", context), IsCustomEvent)
        \o scenario(Unknown, IsSummaryEvent)

doServerSideIndexEventTests ==
    indexBasicProperties \o onlyOneIndexEventPerEvaluationContext
    \o canOmitAnonymousContextsFromIndexEvents

-------------------------------------------------------------------------------
(* EventContexts: what each kind of event tells of its context.  The nested *)
(* properties of an attribute are attributes of their own, and one custom   *)
(* attribute stands for those of every type.                                *)

\* A context that "oldUser" holds for can also be given as a user of the old
\* form, which is the same context.
makeEventContextTestParams ==
    LET plain == EventCase.config
        row(config, context, redacted, oldUser) ==
            [config |-> config, context |-> context, redacted |-> redacted, oldUser |-> oldUser]
        named(attributes) == WithAttributes(User(""), attributes)
    IN  <<row(plain, User(""), {}, TRUE),
          row(plain, OfKind("org", "") \cup OfKind("other", ""), {}, FALSE),
          row(plain, WithAttributes(OfKind("org", ""), {"name", "b"}), {}, FALSE),
          row([plain EXCEPT !.allPrivate = TRUE], AsAnonymous(named({"name", "b"})),
              {"user"} \X {"name", "b"}, TRUE),
          row([plain EXCEPT !.private = {"name"}],
              WithPrivate(named({"name", "b", "d"}), {"b"}), {"user"} \X {"name", "b"}, TRUE),
          row([plain EXCEPT !.private = {"/c/prop2/sub1"}],
              WithPrivate(named({"name", "/b/prop1", "/b/prop2", "/c/prop1/sub1",
                                 "/c/prop2/sub1", "/c/prop2/sub2"}), {"/b/prop1"}),
              {"user"} \X {"/b/prop1", "/c/prop2/sub1"}, FALSE),
          row(plain, named({"attr"}), {}, TRUE)>>

EventContextsOf(p) ==
    LET at(key) == {[c EXCEPT !.key = key] : c \in p.context}
        about(kind, context) == ForContext(kind, context) @@ [redacted |-> p.redacted]
        with(case, client, script) ==
            [case EXCEPT !.client = client, !.config = p.config, !.context = at("initial"),
                !.flags = "flag" :> EventFlag
                          @@ "debugged-flag" :> [EventFlag EXCEPT !.debugUntil = {Now + 1000}],
                !.script = script]
        oldUser(case) == IF p.oldUser THEN <<[case EXCEPT !.needs = @ \cup {"user-type"}]>> ELSE <<>>
        server(script) == with(ServerCase("eventContexts"), "same", script)
        client(script) == with(ClientCase("eventContexts"), "same", script)
        php(script) == with(PHPCase("eventContexts"), "same", script)
        evaluated(key, context) == <<Evaluation(key, context, "default")>>
        initial == with(ClientCase("eventContexts"), "new", Items(<<about("identify", at("initial"))>>))
        feature == php(evaluated("flag", at("feature")) \o Items(<<about("feature", at("feature"))>>))
        debug == evaluated("debugged-flag", at("debug"))
        debugEvents == <<about("debug", at("debug")), IsSummaryEvent>>
        clientDebug ==
            client(<<Identification(at("debug"))>> \o debug
                   \o ItemsInAnyOrder(Append(debugEvents, IsIdentifyEvent)))
        identify ==
            [with([EventCase EXCEPT !.test = "eventContexts"], "same",
                  <<Identification(at("identify"))>>
                  \o Items(<<about("identify", at("identify"))>>)) EXCEPT !.needs = {}]
        index(key, operation, event) ==
            server(<<operation>> \o ItemsInAnyOrder(<<about("index", at(key)), event>>))
        custom(key) == index(key, CustomEvent("event-key", at(key)), IsCustomEvent)
        unknown(key) == index(key, Unknown(at(key)), IsSummaryEvent)
    IN  <<[server(<<>>) EXCEPT !.client = "new"], initial, [php(<<>>) EXCEPT !.client = "new"],
          feature>> \o oldUser(feature)
        \o <<server(debug \o ItemsInAnyOrder(Append(debugEvents, IsIndexEvent)))>>
        \o oldUser(server(debug \o ItemsInAnyOrder(debugEvents)))
        \o <<clientDebug>> \o oldUser(clientDebug)
        \o <<identify>> \o oldUser(identify)
        \o <<unknown("evaluation")>> \o oldUser(unknown("evaluation.olduser"))
        \o <<custom("custom")>> \o oldUser(custom("custom.olduser"))
        \o oldUser(initial)

\* Fault: the expectations do not include a configured private attribute.
GlobalPrivateAttributes_None == {}

\* "An SDK cannot pass these subtests by discarding its configured private
\* attributes along with the per-context ones."
GlobalPrivateAttributes == {"globallyPrivate"}

\* Attributes that a context declares private are private in that context.
eventContextPrivateAttributeScoping ==
    LET noPrivate(context) ==
            WithAttributes(context, {"selfPrivate", "globallyPrivate", "visible"})
        selfPrivate(context) == WithPrivate(noPrivate(context), {"selfPrivate"})
        globally(kind) == {kind} \X GlobalPrivateAttributes
        self(kind) == globally(kind) \cup {<<kind, "selfPrivate">>}
        identified(context, redacted) ==
            <<Identification(context)>>
            \o Items(<<ForContext("identify", context) @@ [redacted |-> redacted]>>)
        case(test, script) ==
            LET configured(c, discarded) ==
                    [c EXCEPT !.config.private = GlobalPrivateAttributes,
                        !.context = noPrivate(User("initial")), !.script = discarded \o script]
            IN  <<configured(ServerCase(test), <<>>), configured(ClientCase(test), Discard),
                  configured(PHPCase(test), <<>>)>>
        ofOneKind(declaring, other) ==
            case("privateAttributesOfOneKind",
                identified(selfPrivate(OfKind(declaring, "key")) \cup noPrivate(OfKind(other, "key")),
                           self(declaring) \cup globally(other)))
    IN  case("privateAttributesOfOneContext",
             identified(selfPrivate(User("self")), self("user"))
             \o identified(noPrivate(User("none")), globally("user")))
        \o ofOneKind("org", "user") \o ofOneKind("user", "org")

EventContexts ==
    FlattenSeq([i \in DOMAIN makeEventContextTestParams |->
                   EventContextsOf(makeEventContextTestParams[i])])
    \o eventContextPrivateAttributeScoping

-------------------------------------------------------------------------------
(* BufferBehavior: the first event of each kind of SDK takes up a place.    *)

capacity == 20
extraItemsOverCapacity == 3

customEvents(count) ==
    [i \in 1..count |-> CustomEvent(ToString(i), User("context"))]
makeCustomEventExpectations(first, count) ==
    <<first>> \o [i \in 1..(count - 1) |-> [kind |-> "custom", key |-> ToString(i)]]

BufferCase(test, script(_)) ==
    LET case(c, first) ==
            [c EXCEPT !.config.capacity = {capacity}, !.context = User("context"),
                      !.script = script(first)]
    IN  <<case(ServerCase(test), IsIndexEvent), case(ClientCase(test), IsIdentifyEvent)>>

capacityIsEnforced ==
    BufferCase("capacityIsEnforced", LAMBDA first :
        customEvents(capacity + extraItemsOverCapacity)
        \o ItemsInAnyOrder(makeCustomEventExpectations(first, capacity)))

bufferIsResetAfterFlush ==
    BufferCase("bufferIsResetAfterFlush", LAMBDA first :
        customEvents(capacity + extraItemsOverCapacity)
        \o ExpectOneOf("count", {makeCustomEventExpectations(first, capacity)})
        \o <<CustomEvent("one-more-event-key", User("context"))>>
        \o Items(<<[kind |-> "custom", key |-> "one-more-event-key"]>>))

\* One event fewer than in the tests above; the client's context is its own.
summaryEventIsStillIncluded ==
    LET cases == BufferCase("summaryEventIsStillIncluded", LAMBDA first :
            Append(customEvents(capacity + extraItemsOverCapacity - 1),
                   Unknown(User("context")))
            \o ItemsInAnyOrder(Append(makeCustomEventExpectations(first, capacity), IsSummaryEvent)))
    IN  [i \in DOMAIN cases |-> [cases[i] EXCEPT !.context = User("initial")]]

BufferBehavior ==
    capacityIsEnforced \o bufferIsResetAfterFlush \o summaryEventIsStillIncluded

-------------------------------------------------------------------------------
(* DisablingEvents, if the sink can be configured without enabling events.  *)

DisablingEvents ==
    LET doTest(operation) ==
            [EventCase EXCEPT !.test = "disablingEvents", !.needs = {"service-endpoints"},
                !.config.disabled = TRUE, !.script = <<operation>> \o ExpectNoAnalyticsEvents]
        context == User("user-key")
    IN  <<doTest(Evaluation("nonexistent-flag", context, "null")),
          doTest(Identification(context)), doTest(CustomEvent("event-key", context))>>

-------------------------------------------------------------------------------
(* The suites (the *_events_all.go files), and the defects that their tests *)
(* are about.                                                               *)

doServerSideEventTests ==
    doServerSideSummaryEventTests \o doServerSideFeatureEventTests
    \o doServerSideDebugEventTests \o doServerSideFeaturePrerequisiteEventTests
    \o doServerSideExperimentationEventTests \o IdentifyEvents \o CustomEvents
    \o doServerSideIndexEventTests \o EventContexts \o BufferBehavior \o DisablingEvents

doClientSideEventTests ==
    doClientSideSummaryEventTests \o doClientSideFeatureEventTests
    \o doClientSideDebugEventTests \o doClientSideExperimentationEventTests
    \o IdentifyEvents \o CustomEvents \o EventContexts \o BufferBehavior \o DisablingEvents
    \o doClientSideInOrderPrereqEventTests \o doClientSidePrereqCycleTests

doPHPEventTests ==
    doPHPFeatureEventTests \o doServerSideFeaturePrerequisiteEventTests
    \o doServerSideExperimentationEventTests \o IdentifyEvents \o CustomEvents \o EventContexts

\* What every suite is about.
CommonEventDefects ==
    [keepsQueue |-> "customEventsParameterizedTests",
     ignoresIdentify |-> "identifyBasicProperties",
     losesData |-> "customEventsParameterizedTests",
     omitsZeroMetric |-> "customEventsParameterizedTests",
     redactsNamedOnly |-> "eventContexts",
     keepsPrivate |-> "privateAttributesOfOneContext",
     forgetsConfigured |-> "privateAttributesOfOneContext",
     mergesKinds |-> "privateAttributesOfOneKind"]

\* The suites of SDKs that summarize and debug.
SummaryEventDefects ==
    [ignoresOwnTime |-> "debugEventTestCases", ignoresServiceTime |-> "debugEventTestCases",
     neverDebugs |-> "debugEventTestCases", ignoresCapacity |-> "capacityIsEnforced",
     countsSummaryAsEvent |-> "summaryEventIsStillIncluded",
     ignoresDisabling |-> "disablingEvents"]

\* Nothing is sampled that would be tracked or debugged, and a multi-kind
\* context is never identified before it is used.
ServerSideEventDefects ==
    [countsOnce |-> "doServerSideSummaryEventBasicTest",
     countsKnownOnly |-> "doServerSideSummaryEventUnknownFlagTest",
     countsExcluded |-> "flagPreqIsExcludedFromSummaries",
     keepsCounters |-> "doServerSideSummaryEventResetTest",
     mergesVersions |-> "doServerSideSummaryEventVersionTest",
     ignoresUpdates |-> "doServerSideSummaryEventVersionTest",
     reportsFirstKind |-> "doServerSideSummaryEventContextKindsTest",
     tracksAll |-> "onlyIndexAndSummaryForUntrackedFlag",
     ignoresTracking |-> "fullFeatureEventForTrackedFlag",
     losesReason |-> "fullFeatureEventForTrackedFlag",
     alwaysGivesReason |-> "fullFeatureEventForTrackedFlag",
     losesDefault |-> "fullFeatureEventForTrackedFlag",
     keepsAnonymous |-> "anonymousContextIsRedacted",
     redactsEveryKind |-> "anonymousContextIsRedacted",
     redactsFeaturesOnly |-> "customEventRedactsAnonymousContexts",
     tracksAllFlags |-> "evaluatingAllFlagsGeneratesNoEvents",
     ignoresPrerequisites |-> "doServerSideFeaturePrerequisiteEventTests",
     losesPrereqOf |-> "doServerSideFeaturePrerequisiteEventTests",
     ignoresExperiments |-> "doServerSideExperimentationEventTests",
     explainsOnDemand |-> "doServerSideExperimentationEventTests",
     indexesIdentified |-> "identifyEventMakesIndexEventUnnecessary",
     forgetsIndexed |-> "onlyOneIndexEventPerEvaluationContext",
     knowsByKey |-> "onlyOneIndexEventPerEvaluationContext",
     reportsAnonymous |-> "canOmitAnonymousContextsFromIndexEvents",
     omitsMixed |-> "canOmitAnonymousContextsFromIndexEvents",
     ignoresSampling |-> Unnoticed, forgetsMultiKind |-> Unnoticed]
    @@ SummaryEventDefects @@ CommonEventDefects

ClientSideEventDefects ==
    [countsOnce |-> "doClientSideSummaryEventResetTest",
     countsKnownOnly |-> "doClientSideSummaryEventUnknownFlagTest",
     keepsCounters |-> "doClientSideSummaryEventResetTest",
     mergesVersions |-> "doClientSideSummaryEventResetTest",
     mergesContexts |-> "doClientSidePerContextSummaryEventBasicTest",
     reportsFirstKind |-> "doClientSideSummaryEventContextKindsTest",
     reportsLastDefault |-> "doClientSideSummaryBasicPrereqTest",
     reportsEnvironmentVersion |-> "clientFullFeatureEventForTrackedFlag",
     tracksAll |-> "onlySummaryForUntrackedFlag",
     ignoresTracking |-> "clientFullFeatureEventForTrackedFlag",
     losesReason |-> "clientFullFeatureEventForTrackedFlag",
     alwaysGivesReason |-> "clientFullFeatureEventForTrackedFlag",
     losesDefault |-> "clientFullFeatureEventForTrackedFlag",
     keepsAnonymous |-> "clientAnonymousContextIsRedacted",
     redactsEveryKind |-> "clientAnonymousContextIsRedacted",
     redactsCustom |-> "customEventDoesNotRedactOnTheClient",
     tracksAllFlags |-> "clientEvaluatingAllFlagsGeneratesNoEvents",
     explainsOnDemand |-> "doClientSideExperimentationEventTests",
     ignoresPrerequisites |-> "doClientSideInOrderPrereqEventTests",
     followsCycles |-> "doClientSidePrereqCycleTests",
     visitsOnce |-> "doClientSidePrereqCycleTests",
     limitsDepth |-> "doClientSidePrereqCycleTests",
     reportsAnonymous |-> Unnoticed, omitsMixed |-> Unnoticed]
    @@ SummaryEventDefects @@ CommonEventDefects

PHPEventDefects ==
    [losesReason |-> "phpFeatureEvents", alwaysGivesReason |-> "phpFeatureEvents",
     losesDefault |-> "phpFeatureEvents", losesExclusion |-> "phpExcludeFromSummaries",
     keepsAnonymous |-> "phpAnonymousContextIsRedacted",
     redactsEveryKind |-> "phpAnonymousContextIsRedacted",
     redactsFeaturesOnly |-> "customEventRedactsAnonymousContexts",
     tracksAllFlags |-> "evaluatingAllFlagsGeneratesNoEvents",
     ignoresPrerequisites |-> "doServerSideFeaturePrerequisiteEventTests",
     losesPrereqOf |-> "doServerSideFeaturePrerequisiteEventTests",
     explainsOnDemand |-> "doServerSideExperimentationEventTests",
     reportsAnonymous |-> "canOmitAnonymousContextsFromIdentifyEvents",
     omitsMixed |-> "canOmitAnonymousContextsFromIdentifyEvents"]
    @@ CommonEventDefects

EventNext ==
    \/ suite = "server-side events" /\ EventSteps(doServerSideEventTests)
    \/ suite = "client-side events" /\ EventSteps(doClientSideEventTests)
    \/ suite = "php events" /\ EventSteps(doPHPEventTests)

\* The event tests for server-side SDKs (sdktests/server_side_events_*.go) pass
\* for an SDK that conforms, whenever it takes an update or the date in an
\* answer, and each defect fails the test that is about it.
ServerSideEventTestsTellApart ==
    TellsApart("server-side events", doServerSideEventTests, ServerSideEventDefects)

\* The tests that fail for a client-side SDK that conforms, if it can omit
\* anonymous contexts: they take no account of the identify event for the
\* initial context, which NewSDKClient makes up and which is not anonymous.
ForgetInitialIdentify == {"canOmitAnonymousContextsFromIdentifyEvents"}

\* The event tests for client-side SDKs (sdktests/client_side_events_*.go) pass
\* for an SDK that conforms, although many of them share a client and its
\* current context, and each defect fails the test that is about it.  Only the
\* tests that forget the initial identify event may fail for any SDK, so that
\* they tell nothing about what it omits.
ClientSideEventTestsTellApart ==
    TellsApartBut(ForgetInitialIdentify, "client-side events", doClientSideEventTests,
                  ClientSideEventDefects)

\* The event tests that PHP shares with other SDKs (sdktests/php_events_all.go)
\* expect of it neither index events nor summaries: they pass for an SDK that
\* conforms, and each defect fails the test that is about it.
PHPEventTestsTellApart == TellsApart("php events", doPHPEventTests, PHPEventDefects)
=================================================================================
