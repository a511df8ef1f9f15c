------------------------------ MODULE MigrationTests ------------------------------
(***************************************************************************)
(* The tests of migrations (sdktests/server_side_migrations.go) with the   *)
(* service that records which origins the SDK calls                        *)
(* (mockld/migration_callback_service.go).                                 *)
(*                                                                         *)
(* A case evaluates a stage (call "variation") or executes a read or a     *)
(* write (call "operation"), then flushes the events.  What the test sees: *)
(* the result, the origins called and their order, the bodies that they    *)
(* received, and the analytics events.                                     *)
(***************************************************************************)
EXTENDS ContractTests
LOCAL INSTANCE TLC

StageNames == <<"off", "dualwrite", "shadow", "live", "rampdown", "complete">>
MigrationStages == {StageNames[i] : i \in DOMAIN StageNames}
Origins == {"old", "new"}

stageToVariationIndex(stage) == (CHOOSE i \in DOMAIN StageNames : StageNames[i] = stage) - 1

\* createClient: the flags of the data source.
MigrationFlags(variationIndex) ==
    LET flag == [variations |-> StageNames, fallthrough |-> variationIndex, version |-> 0,
                 checkRatio |-> {}, samplingRatio |-> {}]
    IN  [k \in {"migration-key", "no-consistency-check", "no-sampling-ratio",
                "invalid-stage", "wrong-type"} |->
            CASE k = "migration-key" -> flag
              [] k = "no-consistency-check" -> [flag EXCEPT !.checkRatio = {0}]
              [] k = "no-sampling-ratio" ->
                     [flag EXCEPT !.checkRatio = {0}, !.samplingRatio = {0}]
              [] k = "invalid-stage" ->
                     [flag EXCEPT !.variations = <<"grief">>, !.fallthrough = 0]
              [] k = "wrong-type" ->
                     [flag EXCEPT !.variations = <<"true">>, !.fallthrough = 0, !.version = 10]]

-------------------------------------------------------------------------------
(* The cases: one operator per test function, whose tables are functions   *)
(* of the stage.                                                           *)

Always(handler) == [o \in Origins |-> handler]
Ok(body) == [ok |-> TRUE, body |-> body]
Failing == [ok |-> FALSE, body |-> ""]

PlainContext ==
    [attributes |-> {}, anonymous |-> FALSE, allPrivate |-> FALSE, private |-> {}]

\* "expect" has the fields result, calls (in order), origins (in any order)
\* and bodies, and as events the fields of the migration operation event, if
\* there must be one.
MigrationCase ==
    [test |-> "", needs |-> {}, unless |-> {}, call |-> "operation", op |-> "read",
     flagStage |-> "off", key |-> "migration-key", default |-> "dualwrite",
     order |-> "concurrent", handlers |-> Always(Ok("")), payload |-> "", track |-> {},
     context |-> PlainContext, expect |-> <<>>]

\* The table with both operations in every stage.
ReadsAndWrites(case, expect(_, _)) ==
    {[case EXCEPT !.op = op, !.flagStage = s, !.expect = expect(op, s)]
        : op \in {"read", "write"}, s \in MigrationStages}

withExecutionOrders(cases) ==
    {[c EXCEPT !.order = o, !.unless = IF o = "concurrent" THEN {"php"} ELSE {}]
        : c \in cases, o \in {"serial", "random", "concurrent"}}

\* The fields that the tests expect of every migration operation event.
ExpectedOp(key, op, stage) ==
    [samplingRatio |-> {}, operation |-> op, key |-> key, default |-> "dualwrite",
     value |-> stage, variation |-> {stageToVariationIndex(stage)}, reason |-> "FALLTHROUGH"]

identifyCorrectStageFromStringFlag ==
    {[MigrationCase EXCEPT !.test = "identifyCorrectStageFromStringFlag",
        !.call = "variation", !.flagStage = s, !.default = "off",
        !.expect = [result |-> s, events |-> {}]] : s \in MigrationStages}

usesDefaultWhenAppropriate ==
    {[MigrationCase EXCEPT !.test = "usesDefaultWhenAppropriate",
        !.call = "variation", !.key = k, !.default = s,
        !.expect = [result |-> s, events |-> {}]]
        : k \in {"missing-key", "invalid-stage", "wrong-type"}, s \in MigrationStages}

OldAndNew == [old |-> Ok("old read"), new |-> Ok("new read")]

\* Serial, so that the order of the requests can be verified.
executesOriginsInCorrectOrder ==
    LET requests == [off |-> <<"old">>, dualwrite |-> <<"old", "new">>,
                     shadow |-> <<"old", "new">>, live |-> <<"new", "old">>,
                     rampdown |-> <<"new", "old">>, complete |-> <<"new">>]
    IN  {[MigrationCase EXCEPT !.test = "executesOriginsInCorrectOrder",
            !.op = "write", !.flagStage = s, !.default = "off", !.order = "serial",
            !.handlers = OldAndNew,
            !.expect = [calls |-> requests[s], result |-> OldAndNew[requests[s][1]].body]]
            : s \in MigrationStages}

executesReads ==
    LET requests == [off |-> {"old"}, dualwrite |-> {"old"}, shadow |-> Origins,
                     live |-> Origins, rampdown |-> {"new"}, complete |-> {"new"}]
        result == [off |-> "old read", dualwrite |-> "old read", shadow |-> "old read",
                   live |-> "new read", rampdown |-> "new read", complete |-> "new read"]
    IN  {[MigrationCase EXCEPT !.test = "executesReads", !.flagStage = s, !.default = "off",
            !.order = "serial", !.handlers = OldAndNew,
            !.expect = [origins |-> requests[s], count |-> Cardinality(requests[s]),
                        result |-> result[s]]] : s \in MigrationStages}

\* The origins that a test expects to be called when every call succeeds.
ExpectedOrigins(op, stage) ==
    IF op = "read"
    THEN CASE stage \in {"off", "dualwrite"} -> {"old"}
           [] stage \in {"shadow", "live"} -> Origins
           [] stage \in {"rampdown", "complete"} -> {"new"}
    ELSE CASE stage = "off" -> {"old"}
           [] stage \in {"dualwrite", "shadow", "live", "rampdown"} -> Origins
           [] stage = "complete" -> {"new"}

payloadsArePassedThrough ==
    ReadsAndWrites([MigrationCase EXCEPT !.test = "payloadsArePassedThrough",
                    !.default = "off", !.payload = "example payload"],
        LAMBDA op, s : [origins |-> ExpectedOrigins(op, s), bodies |->
            [o \in Origins |-> IF o \in ExpectedOrigins(op, s) THEN "example payload" ELSE ""]])

tracksInvoked ==
    withExecutionOrders(ReadsAndWrites([MigrationCase EXCEPT !.test = "tracksInvoked"],
        LAMBDA op, s : [events |-> {ExpectedOp("migration-key", op, s) @@
            [version |-> {0}, measured |-> {"invoked"}, invoked |-> ExpectedOrigins(op, s)]}]))

\* Fault: a write that failed is expected to have called both origins.
tracksLatency_BothAfterFailure ==
    withExecutionOrders(UNION {
        ReadsAndWrites([MigrationCase EXCEPT !.test = "tracksLatency", !.track = {"latency"},
                        !.handlers = Always([ok |-> ok, body |-> ""])],
            LAMBDA op, s : [events |-> {ExpectedOp("migration-key", op, s) @@
                [measured |-> {"invoked", "latency_ms"}, latency |-> ExpectedOrigins(op, s)]}])
        : ok \in BOOLEAN})

\* When the writes fail, only the authoritative origin is called.
tracksLatency ==
    LET called(op, s, ok) ==
            CASE ok \/ op = "read" -> ExpectedOrigins(op, s)
              [] ~ok /\ op = "write" /\ s \in {"off", "dualwrite", "shadow"} -> {"old"}
              [] ~ok /\ op = "write" /\ s \in {"live", "rampdown", "complete"} -> {"new"}
    IN  withExecutionOrders(UNION {
            ReadsAndWrites([MigrationCase EXCEPT !.test = "tracksLatency", !.track = {"latency"},
                            !.handlers = Always([ok |-> ok, body |-> ""])],
                LAMBDA op, s : [events |-> {ExpectedOp("migration-key", op, s) @@
                    [measured |-> {"invoked", "latency_ms"}, latency |-> called(op, s, ok)]}])
            : ok \in BOOLEAN})

writeFailuresShouldGenerateErrorMetrics ==
    LET authoritative == [off |-> "old", dualwrite |-> "old", shadow |-> "old",
                          live |-> "new", rampdown |-> "new", complete |-> "new"]
        other == [dualwrite |-> "new", shadow |-> "new", live |-> "old", rampdown |-> "old"]
        row(s, failing) ==
            [MigrationCase EXCEPT !.test = "writeFailuresShouldGenerateErrorMetrics",
                !.op = "write", !.flagStage = s, !.track = {"errors"},
                !.handlers = [Always(Ok("")) EXCEPT ![failing] = Failing],
                !.expect = [events |-> {ExpectedOp("migration-key", "write", s) @@
                    [measured |-> {"invoked", "error"}, error |-> {failing}]}]]
    IN  withExecutionOrders({row(s, authoritative[s]) : s \in DOMAIN authoritative}
                            \cup {row(s, other[s]) : s \in DOMAIN other})

successfulHandlersShouldNotGenerateErrorMetrics ==
    withExecutionOrders(ReadsAndWrites(
        [MigrationCase EXCEPT !.test = "successfulHandlersShouldNotGenerateErrorMetrics",
                              !.track = {"errors"}],
        LAMBDA op, s :
            [events |-> {ExpectedOp("migration-key", op, s) @@ [measurements |-> 1]}]))

\* The default is the stage, and the event says why.
ExpectedError(key, op, stage, version, kind) ==
    [samplingRatio |-> {}, operation |-> op, key |-> key, default |-> stage, value |-> stage,
     variation |-> {}, version |-> version, reason |-> kind, measurements |-> 1]

itHandlesMigrationEventsForMissingFlags ==
    {[MigrationCase EXCEPT !.test = "itHandlesMigrationEventsForMissingFlags",
        !.op = op, !.key = "missing-key", !.default = s, !.track = {"errors"},
        !.expect = [events |-> {ExpectedError("missing-key", op, s, {}, "FLAG_NOT_FOUND")}]]
        : op \in {"read", "write"}, s \in MigrationStages}

itHandlesNonMigrationFlags ==
    {[MigrationCase EXCEPT !.test = "itHandlesNonMigrationFlags",
        !.op = op, !.key = "wrong-type", !.default = s,
        !.expect = [events |-> {ExpectedError("wrong-type", op, s, {10}, "WRONG_TYPE")}]]
        : op \in {"read", "write"}, s \in MigrationStages}

itRedactsAnonymousContextAttributes ==
    {[MigrationCase EXCEPT !.test = "itRedactsAnonymousContextAttributes",
        !.needs = {"anonymous-redaction"}, !.key = "missing-key", !.default = "off",
        !.track = {"errors"},
        !.context = [PlainContext EXCEPT !.anonymous = TRUE,
                                         !.attributes = {"name", "setup", "punchline"}],
        !.expect = [events |-> {ExpectedError("missing-key", "read", "off", {}, "FLAG_NOT_FOUND")
                                @@ [redacted |-> {"name", "setup", "punchline"}, kept |-> {}]}]]}

itRedactsPrivateContextAttributes ==
    LET row(all, private, attributes, redacted) ==
            [MigrationCase EXCEPT !.test = "itRedactsPrivateContextAttributes",
                !.needs = {"inline-context-all"}, !.key = "missing-key", !.default = "off",
                !.track = {"errors"},
                !.context = [PlainContext EXCEPT !.attributes = attributes,
                                                 !.allPrivate = all, !.private = private],
                !.expect = [events |-> {[operation |-> "read", redacted |-> redacted,
                                         kept |-> attributes \ redacted]}]]
    IN  {row(TRUE, {}, {"name", "email", "apiToken"}, {"name", "email", "apiToken"}),
         row(FALSE, {"email"}, {"name", "email", "visible"}, {"email"}),
         row(FALSE, {"email", "apiToken"}, {"name", "email", "apiToken", "visible"},
             {"email", "apiToken"}),
         row(FALSE, {"/address/city"}, {"name", "/address/street", "/address/city"},
             {"/address/city"})}

disableOpEventWithSamplingRatio ==
    ReadsAndWrites([MigrationCase EXCEPT !.test = "disableOpEventWithSamplingRatio",
                    !.needs = {"event-sampling"}, !.key = "no-sampling-ratio",
                    !.track = {"consistency"}],
                   LAMBDA op, s : [events |-> {}])

tracksConsistencyCorrectlyBasedOnStage ==
    LET agreeing == Always(Ok("LaunchDarkly"))
        case == [MigrationCase EXCEPT !.test = "tracksConsistencyCorrectlyBasedOnStage",
                                      !.track = {"consistency"}, !.handlers = agreeing]
        differing == {[agreeing EXCEPT ![o] = Ok("Catamorphic")] : o \in Origins}
        checked(s, handlers, consistent) ==
            [case EXCEPT !.flagStage = s, !.handlers = handlers,
                !.expect = [events |-> {ExpectedOp("migration-key", "read", s) @@
                    [measured |-> {"invoked", "consistent"}, consistent |-> {consistent}]}]]
        unchecked == ReadsAndWrites(case, LAMBDA op, s :
            [events |-> {ExpectedOp("migration-key", op, s) @@ [measurements |-> 1]}])
    IN  withExecutionOrders(
            {c \in unchecked : ~(c.op = "read" /\ c.flagStage \in {"shadow", "live"})}
            \cup {checked(s, agreeing, TRUE) : s \in {"shadow", "live"}}
            \cup {checked(s, h, FALSE) : s \in {"shadow", "live"}, h \in differing})

Unchecked(test, handlers) ==
    withExecutionOrders(ReadsAndWrites(
        [MigrationCase EXCEPT !.test = test, !.key = "no-consistency-check",
                              !.track = {"consistency"}, !.handlers = handlers],
        LAMBDA op, s : [events |-> {ExpectedOp("no-consistency-check", op, s) @@
                                    [measured |-> {"invoked"}]}]))

tracksConsistencyIsDisabledByCheckRatio ==
    Unchecked("tracksConsistencyIsDisabledByCheckRatio", Always(Ok("")))

tracksConsistencyIsDisabledIfCallbackFails ==
    Unchecked("tracksConsistencyIsDisabledIfCallbackFails", Always(Failing))

\* doServerSideMigrationTests.
MigrationCases ==
    Listed(identifyCorrectStageFromStringFlag) \o Listed(executesReads)
    \o Listed(payloadsArePassedThrough) \o Listed(executesOriginsInCorrectOrder)
    \o Listed(tracksInvoked) \o Listed(tracksLatency)
    \o Listed(writeFailuresShouldGenerateErrorMetrics)
    \o Listed(successfulHandlersShouldNotGenerateErrorMetrics)
    \o Listed(tracksConsistencyCorrectlyBasedOnStage)
    \o Listed(tracksConsistencyIsDisabledByCheckRatio)
    \o Listed(tracksConsistencyIsDisabledIfCallbackFails)
    \o Listed(disableOpEventWithSamplingRatio) \o Listed(usesDefaultWhenAppropriate)
    \o Listed(itHandlesMigrationEventsForMissingFlags) \o Listed(itHandlesNonMigrationFlags)
    \o Listed(itRedactsAnonymousContextAttributes) \o Listed(itRedactsPrivateContextAttributes)

-------------------------------------------------------------------------------
(* The SDK: what the tests rely on, and the defects that they are about.   *)

\* Each defect with the test that must fail for it.
MigrationDefects ==
    [ignoresFlag |-> "identifyCorrectStageFromStringFlag",
     ignoresDefault |-> "usesDefaultWhenAppropriate",
     writesOldFirst |-> "executesOriginsInCorrectOrder",
     readsAuthoritativeOnly |-> "executesReads",
     answersOld |-> "executesReads",
     dropsPayload |-> "payloadsArePassedThrough",
     tracksAuthoritativeOnly |-> "tracksInvoked",
     writesAfterFailure |-> "tracksLatency",
     losesErrors |-> "writeFailuresShouldGenerateErrorMetrics",
     errorsOfSuccess |-> "successfulHandlersShouldNotGenerateErrorMetrics",
     alwaysConsistent |-> "tracksConsistencyCorrectlyBasedOnStage",
     ignoresCheckRatio |-> "tracksConsistencyIsDisabledByCheckRatio",
     ignoresSamplingRatio |-> "disableOpEventWithSamplingRatio",
     wrongReason |-> "itHandlesNonMigrationFlags",
     omitsUnknownFlags |-> "itHandlesMigrationEventsForMissingFlags",
     redactsNothing |-> "itRedactsPrivateContextAttributes"]

EvaluateStage(c) ==
    LET flags == MigrationFlags(stageToVariationIndex(c.flagStage))
        default == IF sdk = "ignoresDefault" THEN "off" ELSE c.default
        error(version, kind) ==
            [value |-> default, variation |-> {}, version |-> version,
             reason |-> IF sdk = "wrongReason" THEN "FALLTHROUGH" ELSE kind]
    IN  IF c.key \notin DOMAIN flags THEN error({}, "FLAG_NOT_FOUND")
        ELSE LET flag == flags[c.key]
                 value == flag.variations[flag.fallthrough + 1]
             IN  IF value \notin MigrationStages THEN error({flag.version}, "WRONG_TYPE")
                 ELSE [value |-> IF sdk = "ignoresFlag" THEN c.default ELSE value,
                       variation |-> {flag.fallthrough}, version |-> {flag.version},
                       reason |-> "FALLTHROUGH"]

\* createClient and the call of the test function: the SDK evaluates first.
LaunchMigration(c) == [at |-> "calling", evaluation |-> EvaluateStage(c), history |-> <<>>]

Authoritative(stage) ==
    IF stage \in {"off", "dualwrite", "shadow"} THEN "old" ELSE "new"

OriginsOf(op, stage) ==
    CASE stage = "off" \/ (op = "read" /\ stage = "dualwrite") -> {"old"}
      [] stage = "complete" \/ (op = "read" /\ stage = "rampdown") -> {"new"}
      [] OTHER -> IF op = "read" /\ sdk = "readsAuthoritativeOnly"
                  THEN {Authoritative(stage)} ELSE Origins

Called == {run.history[i] : i \in DOMAIN run.history}

\* The origins that may be called next: a write and a serial read call the
\* authoritative one first, and a write that failed there goes no further.
Callable(c) ==
    LET stage == run.evaluation.value
        left == OriginsOf(c.op, stage) \ Called
        first == IF sdk = "writesOldFirst" /\ c.op = "write" THEN "old" ELSE Authoritative(stage)
    IN  IF c.call = "variation" THEN {}
        ELSE IF c.op = "read" /\ c.order # "serial" THEN left
        ELSE IF first \in left THEN {first}
        ELSE IF c.op = "write" /\ sdk # "writesAfterFailure"
                /\ \E o \in Called : ~c.handlers[o].ok THEN {}
        ELSE left

Measured(c) ==
    LET failures == {o \in Called : ~c.handlers[o].ok}
        flags == MigrationFlags(0)
        ratio == IF c.key \in DOMAIN flags THEN flags[c.key].checkRatio ELSE {}
        compared == /\ "consistency" \in c.track
                    /\ c.op = "read" /\ Called = Origins
                    /\ failures = {}
                    /\ ratio # {0} \/ sdk = "ignoresCheckRatio"
        bodies == {c.handlers[o].body : o \in Called}
    IN  [invoked |-> IF sdk = "tracksAuthoritativeOnly"
                     THEN {Authoritative(run.evaluation.value)} ELSE Called,
         latency |-> IF "latency" \in c.track THEN Called ELSE {},
         error |-> IF "errors" \notin c.track \/ sdk = "losesErrors" THEN {}
                   ELSE IF sdk = "errorsOfSuccess" THEN Called ELSE failures,
         consistent |-> IF ~compared THEN {}
                        ELSE {Cardinality(bodies) = 1 \/ sdk = "alwaysConsistent"}]

Redacted(context) ==
    IF sdk = "redactsNothing" THEN {}
    ELSE IF context.allPrivate \/ context.anonymous THEN context.attributes
    ELSE context.private

\* The migration operation event of the case, if the SDK sends one.
OpEvents(c) ==
    LET measured == Measured(c)
        keys == {"invoked"} \cup {k \in {"error", "consistent"} : measured[k] # {}}
                \cup {"latency_ms" : o \in measured.latency}
    IN  IF \/ c.call = "variation"
           \/ c.key = "no-sampling-ratio" /\ sdk # "ignoresSamplingRatio"
           \/ sdk = "omitsUnknownFlags" /\ c.key = "missing-key"
        THEN {}
        ELSE {run.evaluation @@ measured @@
              [samplingRatio |-> {}, operation |-> c.op, key |-> c.key, default |-> c.default,
               measured |-> keys, measurements |-> Cardinality(keys),
               redacted |-> Redacted(c.context),
               kept |-> c.context.attributes \ Redacted(c.context)]}

-------------------------------------------------------------------------------
(* The steps of a case. *)

ThisMigration == MigrationCases[position]

\* The SDK calls an origin: the handler enters it in the history, and answers.
trackCallHistory(origin) ==
    /\ origin \in Callable(ThisMigration)
    /\ During([run EXCEPT !.history = Append(@, origin)])

\* What the test sees when the SDK has answered and flushed its events.
SeenMigration(c) ==
    LET origin == IF sdk = "answersOld" THEN "old" ELSE Authoritative(run.evaluation.value)
    IN  [result |-> IF c.call = "variation" THEN run.evaluation.value
                    ELSE c.handlers[origin].body,
         calls |-> run.history, origins |-> Called, count |-> Len(run.history),
         bodies |-> [o \in Origins |->
                        IF o \in Called /\ sdk # "dropsPayload" THEN c.payload ELSE ""],
         events |-> OpEvents(c)]

\* expectEvents: exactly one event for each matcher.  Contexts are compared
\* only where the SDK inlines them.
expectEvents(expected, sent) ==
    LET compared(e) == IF "inline-context-all" \in capabilities THEN DOMAIN e
                       ELSE DOMAIN e \ {"redacted", "kept"}
    IN  /\ Cardinality(expected) = Cardinality(sent)
        /\ \A e \in expected, s \in sent : \A f \in compared(e) : s[f] = e[f]

FinishMigration ==
    LET c == ThisMigration
        seen == SeenMigration(c)
        plain == [f \in DOMAIN c.expect \ {"events"} |-> c.expect[f]]
    IN  /\ Callable(c) = {}
        /\ Verdict(c, /\ Agrees(plain, seen)
                      /\ "events" \in DOMAIN c.expect => expectEvents(c.expect.events, seen.events))

MigrationNext ==
    /\ suite = "migrations"
    /\ \/ Begin(MigrationCases, LaunchMigration)
       \/ /\ run.at # "idle"
          /\ (\E o \in Origins : trackCallHistory(o)) \/ FinishMigration

\* The tests of migrations (server_side_migrations.go) pass for an SDK that
\* conforms, in whatever order it calls the origins of a read that need not be
\* serial, and each defect fails the test that is about it.
MigrationTestsTellApart == TellsApart("migrations", MigrationCases, MigrationDefects)
=================================================================================
