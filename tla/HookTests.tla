-------------------------------- MODULE HookTests --------------------------------
(***************************************************************************)
(* The tests of hooks (sdktests/common_tests_hooks.go) with the services   *)
(* that record the callbacks (mockld/hook_callback_service.go and          *)
(* sdktests/testapi_hooks.go).                                             *)
(*                                                                         *)
(* The SDK posts a payload for each stage of each hook, one after another. *)
(* The handler stamps it with a sequence number and leaves it to a         *)
(* goroutine that waits on the hook's unbuffered channel: the test         *)
(* receives the payloads of a hook in any order, and what it never         *)
(* receives waits there when the next subtest of the same client runs.     *)
(***************************************************************************)
EXTENDS ContractTests
LOCAL INSTANCE TLC
LOCAL INSTANCE SequencesExt

-------------------------------------------------------------------------------
(* The cases: a test function with all subtests that share its client.     *)

\* "expecting" says how the test receives: one "call" for each operation, at
\* least one call for "each" hook, "none", or the "order" of the hooks.
HookCase ==
    [test |-> "", needs |-> {"evaluation-hooks"}, unless |-> {}, hooks |-> <<"hook">>,
     data |-> {}, errors |-> {}, environment |-> "", operations |-> <<>>,
     expecting |-> "call", stage |-> "afterEvaluation", fields |-> {}, order |-> <<>>]

Evaluate(flag, default, detail) ==
    [do |-> "evaluate", key |-> flag, default |-> default, detail |-> detail,
     metric |-> {}, data |-> {}]
MigrationVariation == [Evaluate("migration-flag", "off", FALSE) EXCEPT !.do = "migration"]
Track(key, metric, data) ==
    [do |-> "track", key |-> key, default |-> "", detail |-> FALSE,
     metric |-> metric, data |-> data]

variationTestParams(detail) ==
    <<Evaluate("bool-flag", "false", detail), Evaluate("string-flag", "default", detail),
      Evaluate("number-flag", "3.14", detail), Evaluate("number-flag", "314159265", detail),
      Evaluate("json-flag", "{}", detail)>>

trackTestParams ==
    <<Track("custom-event-1", {}, {}), Track("custom-event-2", {11111}, {}),
      Track("custom-event-3", {}, {"boolData", "stringData"}),
      Track("custom-event-4", {11111}, {"boolData", "stringData"})>>

\* The operation is the same with and without detail.
executesBeforeEvaluationStage ==
    [i \in 1..2 |-> [HookCase EXCEPT !.test = "executesBeforeEvaluationStage",
        !.operations = variationTestParams(FALSE), !.stage = "beforeEvaluation",
        !.fields = {"key", "default"}]]

executesBeforeEvaluationStageMigration ==
    <<[HookCase EXCEPT !.test = "executesBeforeEvaluationStageMigration",
        !.needs = @ \cup {"migrations"}, !.operations = <<MigrationVariation>>,
        !.stage = "beforeEvaluation", !.fields = {"key", "default"}]>>

executesAfterEvaluationStage ==
    LET case(detail) ==
            [HookCase EXCEPT !.test = "executesAfterEvaluationStage",
                !.operations = variationTestParams(detail),
                !.fields = {"key", "default", "value"}
                           \cup (IF detail THEN {"variation", "reason"} ELSE {})]
    IN  <<case(FALSE), case(TRUE)>>

executesAfterEvaluationStageMigration ==
    <<[HookCase EXCEPT !.test = "executesAfterEvaluationStageMigration",
        !.needs = @ \cup {"migrations"}, !.operations = <<MigrationVariation>>,
        !.fields = {"key", "default", "value"}]>>

beforeEvaluationDataPropagatesToAfter ==
    LET case(detail) ==
            [HookCase EXCEPT !.test = "beforeEvaluationDataPropagatesToAfter",
                !.data = {"someData"}, !.operations = variationTestParams(detail),
                !.fields = {"series"}]
    IN  <<case(FALSE), case(TRUE)>>

beforeEvaluationDataPropagatesToAfterMigration ==
    <<[HookCase EXCEPT !.test = "beforeEvaluationDataPropagatesToAfterMigration",
        !.needs = @ \cup {"migrations"}, !.data = {"someData"},
        !.operations = <<MigrationVariation>>, !.fields = {"series"}]>>

hookOrderTestNames == <<"hook-0", "hook-1", "hook-2">>

\* HOOKS:1.3.7: operations complete unaffected by an error of a stage.
errorInBeforeStageDoesNotAffectAfterStage ==
    <<[HookCase EXCEPT !.test = "errorInBeforeStageDoesNotAffectAfterStage",
        !.hooks = hookOrderTestNames, !.data = {"this_value"}, !.errors = {"beforeEvaluation"},
        !.operations = <<Evaluate("bool-flag", "false", FALSE)>>, !.expecting = "each"]>>

executesAfterTrackStage ==
    <<[HookCase EXCEPT !.test = "executesAfterTrackStage", !.needs = {"track-hooks"},
        !.operations = trackTestParams, !.stage = "afterTrack",
        !.fields = {"key", "metric", "data"}]>>

errorInHookPreventsAfterTrackStage ==
    <<[HookCase EXCEPT !.test = "errorInHookPreventsAfterTrackStage",
        !.needs = {"track-hooks"}, !.errors = {"afterTrack"},
        !.operations = <<Track("custom-event", {}, {})>>, !.expecting = "none"]>>

OrderCase(test, needs, operation, stage, order) ==
    [HookCase EXCEPT !.test = test, !.needs = needs, !.hooks = hookOrderTestNames,
        !.operations = <<operation>>, !.expecting = "order", !.stage = stage, !.order = order]

executesAfterTrackHooksInRegistrationOrder ==
    <<OrderCase("executesAfterTrackHooksInRegistrationOrder", {"track-hooks"},
                Track("custom-event", {}, {}), "afterTrack", hookOrderTestNames)>>

executesBeforeEvaluationHooksInRegistrationOrder ==
    <<OrderCase("executesBeforeEvaluationHooksInRegistrationOrder", {"evaluation-hooks"},
                Evaluate("bool-flag", "false", FALSE), "beforeEvaluation", hookOrderTestNames)>>

executesAfterEvaluationHooksInReverseRegistrationOrder ==
    <<OrderCase("executesAfterEvaluationHooksInReverseRegistrationOrder", {"evaluation-hooks"},
                Evaluate("bool-flag", "false", FALSE), "afterEvaluation",
                Reverse(hookOrderTestNames))>>

\* With the default data source, and with polling where the SDK can poll.
evaluationSeriesContextIncludesEnvironmentID ==
    LET case(needs, unless) ==
            [HookCase EXCEPT !.test = "evaluationSeriesContextIncludesEnvironmentID",
                !.needs = @ \cup {"hook-environment-id"} \cup needs, !.unless = unless,
                !.environment = "env-12345", !.fields = {"environment"},
                !.operations = <<Evaluate("bool-flag", "false", FALSE)>>]
    IN  <<case({}, {}), case({"client-side"}, {}),
          case({"server-side-polling"}, {"client-side"})>>

\* doCommonHooksTests.
HookCases ==
    executesBeforeEvaluationStage \o executesBeforeEvaluationStageMigration
    \o executesAfterEvaluationStage \o executesAfterEvaluationStageMigration
    \o errorInBeforeStageDoesNotAffectAfterStage
    \o executesBeforeEvaluationHooksInRegistrationOrder
    \o executesAfterEvaluationHooksInReverseRegistrationOrder
    \o beforeEvaluationDataPropagatesToAfter
    \o evaluationSeriesContextIncludesEnvironmentID
    \o beforeEvaluationDataPropagatesToAfterMigration
    \o executesAfterTrackStage \o errorInHookPreventsAfterTrackStage
    \o executesAfterTrackHooksInRegistrationOrder

-------------------------------------------------------------------------------
(* The SDK: what the tests rely on, and the defects that they are about.   *)

HookDefects ==
    [skipsBeforeStage |-> "executesBeforeEvaluationStage",
     skipsMigrations |-> "executesBeforeEvaluationStageMigration",
     skipsAfterStage |-> "executesAfterEvaluationStage",
     reportsDefault |-> "executesAfterEvaluationStage",
     losesDetail |-> "executesAfterEvaluationStage",
     losesSeriesData |-> "beforeEvaluationDataPropagatesToAfter",
     skipsBeforeForDetail |-> "beforeEvaluationDataPropagatesToAfter",
     abortsAfterError |-> "errorInBeforeStageDoesNotAffectAfterStage",
     keepsDataOfError |-> "errorInBeforeStageDoesNotAffectAfterStage",
     beforeInReverse |-> "executesBeforeEvaluationHooksInRegistrationOrder",
     afterInOrder |-> "executesAfterEvaluationHooksInReverseRegistrationOrder",
     losesMetric |-> "executesAfterTrackStage",
     tracksDespiteError |-> "errorInHookPreventsAfterTrackStage",
     tracksInReverse |-> "executesAfterTrackHooksInRegistrationOrder",
     losesEnvironment |-> "evaluationSeriesContextIncludesEnvironmentID"]

\* createClientForHooks: flags whose variation 1 is served, and why.
FlagDetail ==
    LET on(v) == [value |-> v, reason |-> "FALLTHROUGH"]
    IN  "bool-flag" :> on("true") @@ "string-flag" :> on("string-on")
        @@ "json-flag" :> on("{value: true}") @@ "migration-flag" :> on("dualwrite")
        @@ "number-flag" :> [value |-> "42", reason |-> "OFF"]

BeforeRuns(c, operation) ==
    /\ sdk # "skipsBeforeStage"
    /\ ~(sdk = "skipsBeforeForDetail" /\ operation.detail)

AfterRuns(c) ==
    /\ sdk # "skipsAfterStage"
    /\ ~(sdk = "abortsAfterError" /\ "beforeEvaluation" \in c.errors)

\* The stages that the hooks execute for an operation, in order.  A hook that
\* is configured with an error for the stage raises it and posts nothing.
Executions(c, operation) ==
    LET stage(name, hooks) == [i \in DOMAIN hooks |-> [hook |-> hooks[i], stage |-> name]]
        reversed(defect) == IF sdk = defect THEN Reverse(c.hooks) ELSE c.hooks
        posts(x) == x.stage \notin c.errors \/ sdk = "tracksDespiteError"
    IN  SelectSeq(
            IF operation.do = "track" THEN stage("afterTrack", reversed("tracksInReverse"))
            ELSE IF operation.do = "migration" /\ sdk = "skipsMigrations" THEN <<>>
            ELSE (IF BeforeRuns(c, operation)
                  THEN stage("beforeEvaluation", reversed("beforeInReverse")) ELSE <<>>)
                 \o (IF AfterRuns(c)
                     THEN stage("afterEvaluation",
                                IF sdk = "afterInOrder" THEN c.hooks ELSE Reverse(c.hooks))
                     ELSE <<>>),
            posts)

\* The data that the before stage of a hook left for its after stage.
SeriesData(c, operation) ==
    IF \/ sdk = "losesSeriesData"
       \/ ~BeforeRuns(c, operation)
       \/ "beforeEvaluation" \in c.errors /\ sdk # "keepsDataOfError"
    THEN {} ELSE c.data

Payload(c, operation, x) ==
    LET plain == [hook |-> x.hook, stage |-> x.stage, key |-> operation.key]
    IN  plain @@
        IF x.stage = "afterTrack"
        THEN [metric |-> IF sdk = "losesMetric" THEN {} ELSE operation.metric,
              data |-> operation.data]
        ELSE LET detail == FlagDetail[operation.key]
                 evaluation == [default |-> operation.default,
                                environment |-> IF sdk = "losesEnvironment" THEN ""
                                                ELSE c.environment]
             IN  IF x.stage = "beforeEvaluation" THEN evaluation
                 ELSE evaluation @@
                      [value |-> IF sdk = "reportsDefault" THEN operation.default
                                 ELSE detail.value,
                       series |-> SeriesData(c, operation),
                       variation |-> 1,
                       reason |-> IF sdk = "losesDetail" THEN "" ELSE detail.reason]

-------------------------------------------------------------------------------
(* The steps of a case. *)

ThisHookCase == HookCases[position]

StartOperation(c, n, waiting, sequence, ok) ==
    [at |-> "executing", operation |-> n, left |-> Executions(c, c.operations[n]),
     waiting |-> waiting, sequence |-> sequence, observed |-> <<>>, ok |-> ok]

LaunchHooks(c) == StartOperation(c, 1, {}, 0, TRUE)

\* Fault: the payload is stamped by the goroutine that hands it over.
endpointHandler_StampsLater ==
    /\ run.at = "executing" /\ run.left # <<>>
    /\ LET c == ThisHookCase
           payload == Payload(c, c.operations[run.operation], Head(run.left))
       IN  \E n \in {run.sequence, run.sequence + 2} :
               During([run EXCEPT !.left = Tail(@), !.sequence = @ + 1,
                           !.waiting = @ \cup {payload @@ [sequence |-> n]}])

\* NewHookCallbackService: the handler of a hook's endpoint stamps the payload
\* and leaves it to a goroutine before it answers.
endpointHandler ==
    /\ run.at = "executing" /\ run.left # <<>>
    /\ LET c == ThisHookCase
           payload == Payload(c, c.operations[run.operation], Head(run.left))
       IN  During([run EXCEPT !.left = Tail(@), !.sequence = @ + 1,
                   !.waiting = @ \cup {payload @@ [sequence |-> run.sequence + 1]}])

\* The operation returns to the test.
Return ==
    /\ run.at = "executing" /\ run.left = <<>>
    /\ During([run EXCEPT !.at = "receiving"])

\* What the test expects of the fields that it looks at.
Expectation(c) ==
    LET operation == c.operations[run.operation]
        detail == IF operation.do = "track" THEN <<>> ELSE FlagDetail[operation.key]
    IN  [f \in c.fields |->
            CASE f = "series" -> c.data
              [] f = "environment" -> c.environment
              [] f \in {"value", "reason"} -> detail[f]
              [] f = "variation" -> 1
              [] OTHER -> operation[f]]

\* observedHookOrder: the names, sorted by the stamped numbers.
observedHookOrder(calls) ==
    LET sorted == SortSeq(calls, LAMBDA p, q : p.sequence < q.sequence)
    IN  [i \in DOMAIN sorted |-> sorted[i].hook]

\* The assertions on the payloads that the test has taken.
Judge(c, observed) ==
    CASE c.expecting = "call" -> Agrees(Expectation(c), observed[1])
      [] c.expecting = "order" -> observedHookOrder(observed) = c.order
      [] c.expecting = "each" -> \A i \in DOMAIN observed :
             observed[i].stage = "afterEvaluation" /\ observed[i].series = {}
      [] c.expecting = "none" -> FALSE

\* The subtest is over; the next one uses the same client.
EndSubtest(c, waiting, ok) ==
    IF run.operation < Len(c.operations)
    THEN During(StartOperation(c, run.operation + 1, waiting, run.sequence, run.ok /\ ok))
    ELSE Verdict(c, run.ok /\ ok)

WaitingFor(c) == {p \in run.waiting : p.hook = c.hooks[Len(run.observed) + 1]}

\* ExpectCall drops the payloads of other stages; the other expectations take
\* whatever comes first.
Takes(c, p) == c.expecting \in {"call", "order"} => p.stage = c.stage

Receive(p) ==
    LET c == ThisHookCase
        observed == Append(run.observed, p)
        left == run.waiting \ {p}
    IN  /\ p \in WaitingFor(c)
        /\ IF ~Takes(c, p) THEN During([run EXCEPT !.waiting = left])
           ELSE IF Len(observed) = Len(c.hooks) THEN EndSubtest(c, left, Judge(c, observed))
           ELSE During([run EXCEPT !.waiting = left, !.observed = observed])

\* Nothing comes in time: hookReceiveTimeout, hookWaitForNoCallTimeout.
ReceiveTimeout ==
    /\ WaitingFor(ThisHookCase) = {}
    /\ EndSubtest(ThisHookCase, run.waiting, ThisHookCase.expecting = "none")

HookNext ==
    /\ suite = "hooks"
    /\ \/ Begin(HookCases, LaunchHooks)
       \/ run.at # "idle" /\ (endpointHandler \/ Return)
       \/ /\ run.at = "receiving"
          /\ (\E p \in run.waiting : Receive(p)) \/ ReceiveTimeout

\* The tests of hooks (common_tests_hooks.go) pass for an SDK that conforms,
\* in whatever order the payloads of a hook are received and whatever earlier
\* subtests left behind, and each defect fails the test that is about it.
HookTestsTellApart == TellsApart("hooks", HookCases, HookDefects)
=================================================================================
