----------------------------- MODULE SummaryEventTests -----------------------------
(***************************************************************************)
(* The tests of summary events: sdktests/server_side_events_summary.go and *)
(* sdktests/client_side_events_summary.go, one definition for each test    *)
(* function.                                                               *)
(***************************************************************************)
EXTENDS EventTests
LOCAL INSTANCE TLC
LOCAL INSTANCE SequencesExt

\* What a test expects of one flag in a summary; anyContextKindsList leaves
\* the kinds open.
Summarized(default, counters) == [default |-> {default}, counters |-> counters]
OnlyKinds(kinds) == [contextKinds |-> kinds]
OnlyCounters(counters) == [counters |-> counters]
ServerSummary(features) == IsValidSummaryEventWithFlags(features) @@ [context |-> {}]
SummaryForContext(context, features) ==
    IsValidSummaryEventWithFlags(features) @@ [context |-> MatchedKeys(context)]

-------------------------------------------------------------------------------
(* Server-side SDKs. *)

TargetingB(version, a, b) ==
    [EventFlag EXCEPT !.version = version, !.value = a,
        !.targets = "user-b" :> [value |-> b, variation |-> {1}, reason |-> "TARGET_MATCH"]]

basicFlags == "flag1" :> TargetingB(100, "value1a", "value1b")
              @@ "flag2" :> TargetingB(200, "value2a", "value2b")

basicEvaluations ==
    <<Evaluation("flag1", User("user-a"), "default1"),
      Evaluation("flag1", User("user-b"), "default1"),
      Evaluation("flag1", User("user-a"), "default1"),
      Evaluation("flag2", User("user-a"), "default2")>>

doServerSideSummaryEventBasicTest ==
    [EventCase EXCEPT !.test = "doServerSideSummaryEventBasicTest", !.flags = basicFlags,
        !.script = basicEvaluations \o ItemsInAnyOrder(<<IsIndexEvent, IsIndexEvent, ServerSummary(
            "flag1" :> Summarized("default1", {FlagCounter("value1a", {0}, 100, 2),
                                               FlagCounter("value1b", {1}, 100, 1)})
            @@ "flag2" :> Summarized("default2", {FlagCounter("value2a", {0}, 200, 1)}))>>)]

flagIsExcludedFromSummaries ==
    [EventCase EXCEPT !.test = "flagIsExcludedFromSummaries", !.needs = {"event-sampling"},
        !.flags = "flag1" :> [EventFlag EXCEPT !.value = "value1a", !.excluded = TRUE]
                  @@ "flag2" :> [EventFlag EXCEPT !.value = "value2a"],
        !.script = basicEvaluations \o ItemsInAnyOrder(<<IsIndexEvent, IsIndexEvent, ServerSummary(
            "flag2" :> Summarized("default2", {FlagCounter("value2a", {0}, 0, 1)}))>>)]

flagPreqIsExcludedFromSummaries ==
    [EventCase EXCEPT !.test = "flagPreqIsExcludedFromSummaries", !.needs = {"event-sampling"},
        !.flags = "flag1" :> [EventFlag EXCEPT !.value = "true", !.excluded = TRUE]
                  @@ "flag2" :> [EventFlag EXCEPT !.value = "true",
                                                  !.prerequisites = <<"flag1">>],
        !.script = <<Evaluation("flag2", User("user-a"), "false")>>
            \o ItemsInAnyOrder(<<IsIndexEvent, ServerSummary(
                   "flag2" :> Summarized("false", {FlagCounter("true", {0}, 0, 1)}))>>)]

doServerSideSummaryEventContextKindsTest ==
    LET evaluation(flag, kind, key) == Evaluation(flag, OfKind(kind, key), "default")
    IN  [EventCase EXCEPT !.test = "doServerSideSummaryEventContextKindsTest",
            !.flags = basicFlags,
            !.script = <<evaluation("flag1", "kind1", "key1"),
                         evaluation("flag2", "kind2", "key1"),
                         evaluation("flag1", "kind2", "key1"),
                         evaluation("flag2", "kind3", "key2"),
                         evaluation("flag1", "kind1", "key2")>>
                \o ItemsInAnyOrder(<<IsIndexEvent, IsIndexEvent, IsIndexEvent, IsIndexEvent, ServerSummary(
                       "flag1" :> OnlyKinds({"kind1", "kind2"})
                       @@ "flag2" :> OnlyKinds({"kind2", "kind3"}))>>)]

doServerSideSummaryEventUnknownFlagTest ==
    [EventCase EXCEPT !.test = "doServerSideSummaryEventUnknownFlagTest",
        !.script = Repeated(2, Evaluation("flag-x", User("user-key"), "default1"))
            \o ItemsInAnyOrder(<<ForContext("index", User("user-key")), ServerSummary(
                   "flag-x" :> Summarized("default1", {UnknownFlagCounter("default1", 2)}))>>)]

doServerSideSummaryEventResetTest ==
    LET evaluation(user) == Evaluation("flag1", User(user), "default1")
    IN  [EventCase EXCEPT !.test = "doServerSideSummaryEventResetTest",
            !.flags = "flag1" :> TargetingB(100, "value-a", "value-b"),
            !.script = Repeated(10, evaluation("user-a")) \o Repeated(3, evaluation("user-b"))
                \o ItemsInAnyOrder(<<IsIndexEvent, IsIndexEvent, ServerSummary("flag1" :>
                       Summarized("default1", {FlagCounter("value-a", {0}, 100, 10),
                                               FlagCounter("value-b", {1}, 100, 3)}))>>)
                \o Repeated(2, evaluation("user-b"))
                \o Items(<<ServerSummary("flag1" :>
                       Summarized("default1", {FlagCounter("value-b", {1}, 100, 2)}))>>)]

\* Each flag serves the variation that the one before it asks for.
prerequisiteFlags ==
    "flag1" :> [EventFlag EXCEPT !.value = "value1", !.variation = {1},
                                 !.prerequisites = <<"flag2">>]
    @@ "flag2" :> [EventFlag EXCEPT !.value = "ok2", !.variation = {2},
                       !.reason = "TARGET_MATCH", !.prerequisites = <<"flag3">>]
    @@ "flag3" :> [EventFlag EXCEPT !.value = "ok3", !.variation = {3},
                       !.reason = "RULE_MATCH"]

\* The default of a prerequisite is null, and may be present or not.
doServerSideSummaryEventPrerequisitesTest ==
    [EventCase EXCEPT !.test = "doServerSideSummaryEventPrerequisitesTest",
        !.flags = prerequisiteFlags,
        !.script = Repeated(3, Evaluation("flag1", User("user-key"), "default1"))
            \o ItemsInAnyOrder(<<IsIndexEvent, ServerSummary(
                   "flag1" :> Summarized("default1", {FlagCounter("value1", {1}, 0, 3)})
                   @@ "flag2" :> OnlyCounters({FlagCounter("ok2", {2}, 0, 3)})
                   @@ "flag3" :> OnlyCounters({FlagCounter("ok3", {3}, 0, 3)}))>>)]

\* flagCounterWithAnyCount: the first evaluation, and those before the update.
doServerSideSummaryEventVersionTest ==
    LET flag(version, value, variation) ==
            "flagkey" :> [EventFlag EXCEPT !.version = version, !.value = value,
                                           !.variation = {variation}]
    IN  [EventCase EXCEPT !.test = "doServerSideSummaryEventVersionTest",
            !.flags = flag(100, "a", 0),
            !.script = <<[Evaluation("flagkey", User("user-key"), "default")
                             EXCEPT !.result = {"a"}],
                         Update(flag(200, "b", 1)),
                         EvaluationUntil("flagkey", User("user-key"), "default", "a", "b")>>
                \o ExpectOneOf("any order",
                       {<<IsIndexEvent, ServerSummary("flagkey" :>
                            Summarized("default", {FlagCounter("a", {0}, 100, n),
                                                   FlagCounter("b", {1}, 200, 1)}))>>
                            : n \in 1..(MaxPolls + 1)})]

doServerSideSummaryEventTests ==
    <<doServerSideSummaryEventBasicTest, flagIsExcludedFromSummaries,
      flagPreqIsExcludedFromSummaries, doServerSideSummaryEventContextKindsTest,
      doServerSideSummaryEventUnknownFlagTest, doServerSideSummaryEventResetTest,
      doServerSideSummaryEventPrerequisitesTest, doServerSideSummaryEventVersionTest>>

-------------------------------------------------------------------------------
(* Client-side SDKs: the current context is the initial one until another  *)
(* is identified.                                                          *)

ClientResult(value, variation, version) ==
    [EventFlag EXCEPT !.value = value, !.variation = {variation}, !.version = version]
WithFlagVersion(result, flagVersion) == [result EXCEPT !.flagVersion = {flagVersion}]

Here(key, default) == Evaluation(key, {}, default)

\* The second flag has no version of its own and reports the environment's.
clientFlags ==
    "flag1" :> WithFlagVersion(ClientResult("value1-a", 0, 11), 1)
    @@ "flag2" :> ClientResult("value-b", 2, 13)
clientFlagsForB == "flag1" :> WithFlagVersion(ClientResult("value1-b", 2, 12), 2) @@ clientFlags

clientBasicScript ==
    <<Here("flag1", "default1"), Here("flag1", "default1"), Here("flag2", "default2"),
      InitialData(clientFlagsForB), Identification(User("user-b")), Here("flag1", "default1")>>

identifiedAB == <<ForContext("identify", User("user-a")), ForContext("identify", User("user-b"))>>

doClientSideSummaryEventBasicTest ==
    [EventCase EXCEPT !.test = "doClientSideSummaryEventBasicTest",
        !.unless = {"client-per-context-summaries"}, !.flags = clientFlags,
        !.context = User("user-a"),
        !.script = clientBasicScript \o ItemsInAnyOrder(Append(identifiedAB,
            IsValidSummaryEventWithFlags(
                "flag1" :> Summarized("default1", {FlagCounter("value1-a", {0}, 1, 2),
                                                   FlagCounter("value1-b", {2}, 2, 1)})
                @@ "flag2" :> Summarized("default2", {FlagCounter("value-b", {2}, 13, 1)}))))]

doClientSidePerContextSummaryEventBasicTest ==
    [EventCase EXCEPT !.test = "doClientSidePerContextSummaryEventBasicTest",
        !.needs = {"client-per-context-summaries"}, !.flags = clientFlags,
        !.context = User("user-a"),
        !.script = clientBasicScript \o ItemsInAnyOrder(identifiedAB \o
            <<SummaryForContext(User("user-a"),
                  "flag1" :> Summarized("default1", {FlagCounter("value1-a", {0}, 1, 2)})
                  @@ "flag2" :> Summarized("default2", {FlagCounter("value-b", {2}, 13, 1)})),
              SummaryForContext(User("user-b"),
                  "flag1" :> Summarized("default1", {FlagCounter("value1-b", {2}, 2, 1)}))>>)]

kindFlags == "flag1" :> ClientResult("value1-a", 0, 1) @@ "flag2" :> ClientResult("value-b", 2, 2)

doClientSideSummaryEventContextKindsTest ==
    [EventCase EXCEPT !.test = "doClientSideSummaryEventContextKindsTest",
        !.unless = {"client-per-context-summaries"}, !.flags = kindFlags,
        !.context = OfKind("other", "unimportant"),
        !.script = <<Identification(OfKind("kind1", "key1")), Here("flag1", "default"),
                     Identification(OfKind("kind1", "key2")), Here("flag1", "default"),
                     Identification(OfKind("kind2", "key1")), Here("flag1", "default"),
                     Here("flag2", "default"),
                     Identification(OfKind("kind3", "key2")), Here("flag2", "default")>>
            \o ItemsInAnyOrder(Append(Repeated(5, IsIdentifyEvent), IsValidSummaryEventWithFlags(
                   "flag1" :> OnlyKinds({"kind1", "kind2"})
                   @@ "flag2" :> OnlyKinds({"kind2", "kind3"}))))]

doClientSidePerContxtSummaryEventContextKindsTest ==
    LET contextMultiA == OfKind("kind1", "key1") \cup OfKind("kind2", "key2")
        contextMultiB == OfKind("kind2", "key1") \cup OfKind("kind3", "key2")
    IN  [EventCase EXCEPT !.test = "doClientSidePerContxtSummaryEventContextKindsTest",
            !.needs = {"client-per-context-summaries"}, !.flags = kindFlags,
            !.context = OfKind("other", "unimportant"),
            !.script = <<Identification(contextMultiA), Here("flag1", "default"),
                         Identification(contextMultiB), Here("flag1", "default"),
                         Here("flag2", "default")>>
                \o ItemsInAnyOrder(Repeated(3, IsIdentifyEvent) \o
                       <<SummaryForContext(contextMultiA, "flag1" :> OnlyKinds({"kind1", "kind2"})),
                         SummaryForContext(contextMultiB,
                             "flag1" :> OnlyKinds({"kind2", "kind3"})
                             @@ "flag2" :> OnlyKinds({"kind2", "kind3"}))>>)]

doClientSideSummaryEventUnknownFlagTest ==
    [EventCase EXCEPT !.test = "doClientSideSummaryEventUnknownFlagTest",
        !.context = User("user-key"),
        !.script = Repeated(2, Here("flag-x", "default1"))
            \o ItemsInAnyOrder(<<ForContext("identify", User("user-key")),
                   IsValidSummaryEventWithFlags("flag-x" :>
                       Summarized("default1", {UnknownFlagCounter("default1", 2)}))>>)]

doClientSideSummaryEventResetTest ==
    LET summary(counter) ==
            IsValidSummaryEventWithFlags("flag1" :> Summarized("default1", {counter}))
    IN  [EventCase EXCEPT !.test = "doClientSideSummaryEventResetTest",
            !.flags = "flag1" :> ClientResult("value-a", 0, 1), !.context = User("user-a"),
            !.script = Repeated(10, Here("flag1", "default1"))
                \o ItemsInAnyOrder(<<ForContext("identify", User("user-a")),
                                     summary(FlagCounter("value-a", {0}, 1, 10))>>)
                \o <<InitialData("flag1" :> ClientResult("value-b", 2, 2)),
                     Identification(User("user-b"))>>
                \o Repeated(3, Here("flag1", "default1"))
                \o ItemsInAnyOrder(<<ForContext("identify", User("user-b")),
                                     summary(FlagCounter("value-b", {2}, 2, 3))>>)]

\* What is first evaluated as a prerequisite has no default.
doClientSideSummaryBasicPrereqTest ==
    LET result(value, prerequisites) ==
            [WithFlagVersion(ClientResult(value, 0, 11), 1)
                EXCEPT !.prerequisites = prerequisites]
    IN  [EventCase EXCEPT !.test = "doClientSideSummaryBasicPrereqTest",
            !.needs = {"client-prereq-events"}, !.context = User("user-a"),
            !.flags = "flag1" :> result("value1-a", <<"prereq1", "prereq2">>)
                      @@ "prereq1" :> result("prereq1", <<"prereq3">>)
                      @@ "prereq2" :> result("prereq2", <<>>)
                      @@ "prereq3" :> result("prereq3", <<>>),
            !.script = <<Here("prereq1", "default1"), Here("flag1", "default2"),
                         Here("prereq2", "default3")>>
                \o ItemsInAnyOrder(<<ForContext("identify", User("user-a")),
                       IsValidSummaryEventWithFlags(
                           "flag1" :> Summarized("default2", {FlagCounter("value1-a", {0}, 1, 1)})
                           @@ "prereq1" :>
                                  Summarized("default1", {FlagCounter("prereq1", {0}, 1, 2)})
                           @@ "prereq2" :> [default |-> {},
                                            counters |-> {FlagCounter("prereq2", {0}, 1, 2)}]
                           @@ "prereq3" :> [default |-> {},
                                            counters |-> {FlagCounter("prereq3", {0}, 1, 2)}])>>)]

doClientSideSummaryPrereqUnknownFlagTest ==
    [EventCase EXCEPT !.test = "doClientSideSummaryPrereqUnknownFlagTest",
        !.needs = {"client-prereq-events"}, !.context = User("user-a"),
        !.flags = "flag1" :> [WithFlagVersion(ClientResult("value1-a", 0, 11), 1)
                                  EXCEPT !.prerequisites = <<"unknown">>],
        !.script = <<Here("flag1", "default1")>>
            \o ItemsInAnyOrder(<<ForContext("identify", User("user-a")),
                   IsValidSummaryEventWithFlags(
                       "flag1" :> Summarized("default1", {FlagCounter("value1-a", {0}, 1, 1)})
                       @@ "unknown" :> [default |-> {},
                                        counters |-> {UnknownFlagCounter("null", 1)}])>>)]

\* Edges of the graph that close a cycle count nothing; each way to a flag
\* that closes none counts.
doClientSideSummaryPrereqCycleTests ==
    LET runCase(graph, key, counts) ==
            [EventCase EXCEPT !.test = "doClientSideSummaryPrereqCycleTests",
                !.needs = {"client-prereq-events", "client-prereq-cycle-detection"},
                !.context = User("user"),
                !.flags = [k \in DOMAIN graph |->
                              [WithFlagVersion(ClientResult("true", 0, 1), 1)
                                  EXCEPT !.prerequisites = graph[k]]],
                !.script = <<Here(key, "default")>>
                    \o ItemsInAnyOrder(<<ForContext("identify", User("user")),
                           IsValidSummaryEventWithFlags([k \in DOMAIN counts |->
                               [default |-> IF k = key THEN {"default"} ELSE {},
                                counters |-> {FlagCounter("true", {0}, 1, counts[k])}]])>>)]
        twoCycle == [A |-> <<"B">>, B |-> <<"A">>]
    IN  <<runCase([A |-> <<"A">>], "A", [A |-> 1]),
          runCase([A |-> <<"A", "B">>, B |-> <<>>], "A", [A |-> 1, B |-> 1]),
          runCase(twoCycle, "A", [A |-> 1, B |-> 1]),
          runCase(twoCycle, "B", [A |-> 1, B |-> 1]),
          runCase([A |-> <<"B">>, B |-> <<"C">>, C |-> <<"A">>], "A",
                  [A |-> 1, B |-> 1, C |-> 1]),
          runCase([A |-> <<"X", "B">>, X |-> <<>>, B |-> <<"C">>, C |-> <<"B">>], "A",
                  [A |-> 1, X |-> 1, B |-> 1, C |-> 1]),
          runCase([A |-> <<"B", "C">>, B |-> <<"D">>, C |-> <<"D">>, D |-> <<>>], "A",
                  [A |-> 1, B |-> 1, C |-> 1, D |-> 2])>>

doClientSideSummaryEventTests ==
    <<doClientSideSummaryEventBasicTest, doClientSidePerContextSummaryEventBasicTest,
      doClientSideSummaryEventContextKindsTest,
      doClientSidePerContxtSummaryEventContextKindsTest,
      doClientSideSummaryEventUnknownFlagTest, doClientSideSummaryEventResetTest,
      doClientSideSummaryBasicPrereqTest, doClientSideSummaryPrereqUnknownFlagTest>>
    \o doClientSideSummaryPrereqCycleTests
=================================================================================
