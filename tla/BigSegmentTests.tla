----------------------------- MODULE BigSegmentTests -----------------------------
(***************************************************************************)
(* The tests of big segments (sdktests/server_side_big_segments.go) with   *)
(* the store that the SDK queries (mockld/big_segment_store.go and         *)
(* sdktests/testapi_sdk_big_segments.go).                                  *)
(*                                                                         *)
(* The SDK polls the store's metadata by itself, while the test runs: for  *)
(* the first time when it likes but before it reports a status, then again *)
(* if the interval is short.  An interval or cache time is "short" against *)
(* the tests' timeouts, or "long" and does not pass within a test, as      *)
(* those that a test leaves to the SDK do not.                             *)
(***************************************************************************)
EXTENDS ContractTests
LOCAL INSTANCE TLC
LOCAL INSTANCE SequencesExt
LOCAL INSTANCE FiniteSetsExt

-------------------------------------------------------------------------------
(* The cases. *)

\* A membership says of some segments, each with its generation, whether they
\* include the context.  The store may know none: "memberships" maps hashes to
\* sets of at most one.
bigSegmentRef(segment, generation) == <<segment, generation>>
Hash(key) == <<"sha256", key>>

\* "included" and "rule" are the keys in the regular list and in a rule's clause.
UnboundedSegment ==
    [generation |-> {100}, kind |-> "user", included |-> {}, rule |-> {}]

BigSegmentCase ==
    [test |-> "", needs |-> {"big-segments"}, unless |-> {}, status |-> {"HEALTHY"},
     segments |-> <<>>, flags |-> <<>>, userCacheSize |-> 1000, userCacheTime |-> "long",
     statusPollInterval |-> "long", script |-> <<>>]

\* What a test asks of its fixtures, one after another.
SetupMemberships(memberships) == [do |-> "memberships", memberships |-> memberships]
SetupMembershipError == [do |-> "membership error"]
SetupMetadataForStatus(status) == [do |-> "metadata", status |-> status]
EvaluateStoredFlag(flag, context, expect) ==
    [do |-> "evaluate", flag |-> flag, context |-> context, expect |-> expect, until |-> FALSE]
EvaluateUntil(flag, context, expect) ==
    [EvaluateStoredFlag(flag, context, expect) EXCEPT !.until = TRUE]
GetMembershipQueries(keys) ==
    [do |-> "queries", expect |-> [i \in DOMAIN keys |-> Hash(keys[i])]]
GetBigSegmentStoreStatus(status) == [do |-> "status", expect |-> status, until |-> FALSE]
StatusUntil(status) == [GetBigSegmentStoreStatus(status) EXCEPT !.until = TRUE]
ExpectMetadataQuery == [do |-> "metadata query"]
ExpectNoMoreMetadataQueries == [do |-> "no metadata query"]

user(key) == "user" :> key
bigSegmentsContext == user("user-key")
ValueIs(value) == [value |-> value]
Result(isMatch, status) ==
    [value |-> isMatch, reason |-> IF isMatch THEN "RULE_MATCH" ELSE "FALLTHROUGH",
     status |-> status]
expectBigSegmentsResult(isMatch, status) == Result(isMatch, {status})

\* A flag of doBigSegmentsEvaluateSegment refers to one segment.
EvaluationCase(test, status, script) ==
    [BigSegmentCase EXCEPT !.test = test, !.status = {status}, !.script = script,
        !.segments = "segment1" :> [UnboundedSegment EXCEPT !.included = {"other-user-key"}]
                  @@ "segment2" :> [UnboundedSegment EXCEPT !.rule = {"user-key"}]
                  @@ "segment3" :> [UnboundedSegment EXCEPT !.kind = "other"],
        !.flags = "flagkey1" :> <<"segment1">> @@ "flagkey2" :> <<"segment2">>
                  @@ "flagkey3" :> <<"segment3">>]

EvaluationsWithStatus(status) ==
    LET case(test, memberships, flag, isMatch) ==
            EvaluationCase(test, status,
                memberships
                \o <<EvaluateStoredFlag(flag, bigSegmentsContext,
                                  expectBigSegmentsResult(isMatch, status)),
                     GetMembershipQueries(<<"user-key">>)>>)
        given(membership) == <<SetupMemberships(Hash("user-key") :> membership)>>
        says(segment, included) == given({bigSegmentRef(segment, 100) :> included})
    IN  <<case("context not found", <<>>, "flagkey1", FALSE),
          case("empty membership", given({<<>>}), "flagkey1", FALSE),
          case("null membership", given({}), "flagkey1", FALSE),
          case("matched by segment rule", given({<<>>}), "flagkey2", TRUE),
          case("context included", says("segment1", TRUE), "flagkey1", TRUE),
          case("context excluded", says("segment1", FALSE), "flagkey1", FALSE),
          case("context excluded, matched by segment rule",
               says("segment2", FALSE), "flagkey2", FALSE)>>

doBigSegmentsEvaluateSegment ==
    EvaluationsWithStatus("HEALTHY") \o EvaluationsWithStatus("STALE")
    \o <<EvaluationCase("regular include list is ignored", "HEALTHY",
             <<EvaluateStoredFlag("flagkey1", user("other-user-key"),
                            expectBigSegmentsResult(FALSE, "HEALTHY"))>>),
         EvaluationCase("no query is done if context kind does not match", "HEALTHY",
             <<SetupMemberships(Hash("user-key") :> {bigSegmentRef("segment3", 100) :> TRUE}),
               EvaluateStoredFlag("flagkey3", bigSegmentsContext, Result(FALSE, {})),
               GetMembershipQueries(<<>>)>>)>>

-------------------------------------------------------------------------------
(* The tests of the cache: a flag with a rule for each of three segments. *)

CachingCase(test, script) ==
    [BigSegmentCase EXCEPT !.test = test, !.script = script,
        !.segments = "segment1" :> UnboundedSegment
                  @@ "segment2" :> [UnboundedSegment EXCEPT !.generation = {101}]
                  @@ "segment3" :> [UnboundedSegment EXCEPT !.generation = {102},
                                                            !.kind = "other"],
        !.flags = "flag-key" :> <<"segment1", "segment2", "segment3">>]

Says(in1, in2, in3) ==
    LET say(segment, generation, included) ==
            IF included = {} THEN <<>>
            ELSE bigSegmentRef(segment, generation) :> (TRUE \in included)
    IN  {say("segment1", 100, in1) @@ say("segment2", 101, in2) @@ say("segment3", 102, in3)}

Yes == {TRUE}
No == {FALSE}
Evaluates(context, value) == EvaluateStoredFlag("flag-key", context, ValueIs(value))
multi(key, other) == user(key) @@ "other" :> other

cachedWithinAnEvaluation ==
    CachingCase("membership query is cached for multiple tests in one evaluation",
        <<SetupMemberships(Hash("user1") :> Says(No, Yes, {})),
          Evaluates(user("user1"), TRUE),
          GetMembershipQueries(<<"user1">>)>>)

multipleContextKinds ==
    CachingCase("queries may be done for multiple context kinds",
        <<SetupMemberships(Hash("user1") :> Says(No, No, {}) @@ Hash("user2") :> Says({}, {}, Yes)),
          Evaluates(multi("user1", "user2"), TRUE),
          GetMembershipQueries(<<"user1", "user2">>)>>)

byKeyRegardlessOfKind ==
    CachingCase("query is by key regardless of context kind",
        <<SetupMemberships(Hash("user1") :> Says(No, No, Yes)),
          Evaluates(multi("user1", "user1"), TRUE),
          GetMembershipQueries(<<"user1">>)>>)

cachedAcrossEvaluations ==
    CachingCase("membership query is cached across evaluations for same context",
        <<SetupMemberships(Hash("user1") :> Says(Yes, {}, {})),
          Evaluates(user("user1"), TRUE),
          SetupMemberships(Hash("user1") :> Says(No, {}, {})),
          Evaluates(user("user1"), TRUE),
          GetMembershipQueries(<<"user1">>)>>)

cachedPerContext ==
    LET both(included) ==
            SetupMemberships(Hash("user1") :> Says(included, {}, {})
                             @@ Hash("user2") :> Says(included, {}, {}))
    IN  CachingCase("membership query is cached separately per context",
            <<both(Yes),
              Evaluates(user("user1"), TRUE), GetMembershipQueries(<<"user1">>),
              both(No),
              Evaluates(user("user1"), TRUE), GetMembershipQueries(<<"user1">>),
              Evaluates(user("user2"), FALSE), GetMembershipQueries(<<"user1", "user2">>),
              Evaluates(user("user1"), TRUE), GetMembershipQueries(<<"user1", "user2">>)>>)

cacheExpiration ==
    [CachingCase("context cache expiration (cache time)",
        <<SetupMemberships(Hash("user1") :> Says(Yes, {}, {})),
          Evaluates(user("user1"), TRUE), GetMembershipQueries(<<"user1">>),
          SetupMemberships(Hash("user1") :> Says(No, {}, {})),
          EvaluateUntil("flag-key", user("user1"), ValueIs(FALSE)),
          GetMembershipQueries(<<"user1", "user1">>)>>)
     EXCEPT !.userCacheTime = "short"]

cacheEviction ==
    [CachingCase("context cache eviction (cache size)",
        <<SetupMemberships(Hash("user1") :> Says(Yes, {}, {}) @@ Hash("user2") :> Says({}, Yes, {})
                           @@ Hash("user3") :> {}),
          Evaluates(user("user1"), TRUE), Evaluates(user("user2"), TRUE),
          GetMembershipQueries(<<"user1", "user2">>),
          Evaluates(user("user2"), TRUE), GetMembershipQueries(<<"user1", "user2">>),
          Evaluates(user("user3"), FALSE), GetMembershipQueries(<<"user1", "user2", "user3">>),
          Evaluates(user("user1"), TRUE),
          GetMembershipQueries(<<"user1", "user2", "user3", "user1">>)>>)
     EXCEPT !.userCacheSize = 2]

doBigSegmentsMembershipCachingTests ==
    <<cachedWithinAnEvaluation, multipleContextKinds, byKeyRegardlessOfKind,
      cachedAcrossEvaluations, cachedPerContext, cacheExpiration, cacheEviction>>

-------------------------------------------------------------------------------
(* The tests of status polling and of errors. *)

PollingCase(test, unless, interval, status, script) ==
    [BigSegmentCase EXCEPT !.test = test, !.unless = unless, !.status = {status},
                           !.statusPollInterval = interval, !.script = script]

\* makeFlagToCheckSegmentMatch, for one segment.
OneSegment(case, segment) ==
    [case EXCEPT !.segments = "segment-key" :> segment,
                 !.flags = "flag-key" :> <<"segment-key">>]

ListedSegment == [UnboundedSegment EXCEPT !.included = {"user-key"}]

StatusOf(status) ==
    [available |-> status # "STORE_ERROR", stale |-> status = "STALE"]

doStatusChangeTest(old, new) ==
    PollingCase("polling detects change of status", {}, "short", old,
        <<GetBigSegmentStoreStatus(StatusOf(old)), SetupMetadataForStatus(new),
          StatusUntil(StatusOf(new))>>)

doBigSegmentsStatusPollingTests ==
    <<PollingCase("polling can be set to a short interval", {"php"}, "short", "HEALTHY",
          [i \in 1..3 |-> ExpectMetadataQuery]),
      PollingCase("polling can be set to a long interval", {}, "long", "HEALTHY",
          <<GetBigSegmentStoreStatus(StatusOf("HEALTHY")), ExpectMetadataQuery,
            ExpectNoMoreMetadataQueries>>),
      doStatusChangeTest("HEALTHY", "STORE_ERROR"), doStatusChangeTest("STORE_ERROR", "HEALTHY"),
      doStatusChangeTest("HEALTHY", "STALE"), doStatusChangeTest("STALE", "HEALTHY"),
      OneSegment(
          PollingCase("evaluations don't cause another status poll", {"php"}, "long", "HEALTHY",
              <<GetBigSegmentStoreStatus(StatusOf("HEALTHY")), ExpectMetadataQuery>>
              \o [i \in 1..10 |-> EvaluateStoredFlag("flag-key", user(ToString(i)), <<>>)]
              \o <<ExpectNoMoreMetadataQueries>>),
          ListedSegment)>>

doBigSegmentsErrorHandlingTests ==
    LET case(test, status, segment, given, reason, queries) ==
            OneSegment([BigSegmentCase EXCEPT !.test = test, !.status = status,
                           !.script = given \o <<EvaluateStoredFlag("flag-key", bigSegmentsContext,
                                                     expectBigSegmentsResult(FALSE, reason))>>
                                      \o queries],
                       segment)
    IN  <<case("big segment store was not configured", {}, ListedSegment, <<>>,
               "NOT_CONFIGURED", <<>>),
          case("big segment with no generation is invalid", {"HEALTHY"},
               [UnboundedSegment EXCEPT !.generation = {}],
               <<SetupMemberships(Hash("user-key") :> {bigSegmentRef("segment-key", 0) :> TRUE})>>,
               "NOT_CONFIGURED", <<GetMembershipQueries(<<>>)>>),
          case("store error on context membership query", {"HEALTHY"}, UnboundedSegment,
               <<SetupMembershipError>>,
               "STORE_ERROR", <<GetMembershipQueries(<<"user-key">>)>>)>>

\* doServerSideBigSegmentsTests.
BigSegmentCases ==
    doBigSegmentsEvaluateSegment \o doBigSegmentsMembershipCachingTests
    \o doBigSegmentsStatusPollingTests \o doBigSegmentsErrorHandlingTests

-------------------------------------------------------------------------------
(* The store: what its handlers do under its lock, and what they answer. *)

\* The query is noted unless 20 are waiting for the test.
metadataQueries == 20

doGetMetadata(r) == [r EXCEPT !.pending = Min({@ + 1, metadataQueries})]
Metadata(r) == StatusOf(r.metadata)

\* A hash that the test does not know fails it from the handler's goroutine.
doGetMembership(r, hash) ==
    [r EXCEPT !.queries = Append(@, hash),
              !.ok = @ /\ (r.memberships.known => hash \in DOMAIN r.memberships.map)]

\* 500 for an error, else the memberships if there are any.
Membership(r, hash) ==
    [error |-> r.memberships.error,
     values |-> IF hash \in DOMAIN r.memberships.map THEN r.memberships.map[hash] ELSE {}]

Unset == [error |-> FALSE, known |-> FALSE, map |-> <<>>]

-------------------------------------------------------------------------------
(* The SDK: what the tests rely on, and the defects that they are about.   *)

BigSegmentDefects ==
    [queriesByKey |-> "context not found",
     omitsStatus |-> "context not found",
     alwaysHealthy |-> "empty membership",
     failsOnNull |-> "null membership",
     skipsSegmentRules |-> "matched by segment rule",
     ignoresMembership |-> "context included",
     rulesBeatExclusion |-> "context excluded, matched by segment rule",
     usesRegularList |-> "regular include list is ignored",
     ignoresSegmentKind |-> "no query is done if context kind does not match",
     cachesNothing |-> "membership query is cached for multiple tests in one evaluation",
     queriesForUserOnly |-> "queries may be done for multiple context kinds",
     queriesPerKind |-> "query is by key regardless of context kind",
     forgetsAfterEvaluation |-> "membership query is cached across evaluations for same context",
     sharesCacheEntry |-> "membership query is cached separately per context",
     ignoresCacheTime |-> "context cache expiration (cache time)",
     ignoresCacheSize |-> "context cache eviction (cache size)",
     evictsNewest |-> "context cache eviction (cache size)",
     ignoresPollInterval |-> "polling can be set to a short interval",
     pollsTooOften |-> "polling can be set to a long interval",
     pollsOnce |-> "polling detects change of status",
     hidesStaleness |-> "polling detects change of status",
     pollsOnEvaluation |-> "evaluations don't cause another status poll",
     healthyWithoutStore |-> "big segment store was not configured",
     acceptsNoGeneration |-> "big segment with no generation is invalid",
     hidesStoreError |-> "store error on context membership query",
     retriesQuery |-> "store error on context membership query"]

ThisBigSegmentCase == BigSegmentCases[position]

\* The status is polled again and again while a test waits.
PollsOften ==
    \/ sdk = "pollsTooOften"
    \/ ThisBigSegmentCase.statusPollInterval = "short"
       /\ sdk \notin {"ignoresPollInterval", "pollsOnce"}

Expires == ThisBigSegmentCase.userCacheTime = "short" /\ sdk # "ignoresCacheTime"

\* Asks the store for its status.
PollStore(r) ==
    [doGetMetadata(r) EXCEPT !.known = {[Metadata(r) EXCEPT
        !.stale = @ /\ sdk # "hidesStaleness"]}]
WithStatus(r) == IF r.known = {} \/ sdk = "pollsOnEvaluation" THEN PollStore(r) ELSE r
KnownStatus(r) == CHOOSE s \in r.known : TRUE

StatusReason(r) ==
    LET status == KnownStatus(r) IN
    IF sdk = "omitsStatus" THEN {}
    ELSE IF sdk = "alwaysHealthy" THEN {"HEALTHY"}
    ELSE IF ~status.available THEN {"STORE_ERROR"}
    ELSE IF status.stale THEN {"STALE"} ELSE {"HEALTHY"}

\* The cache: entries for context hashes, the least recently used first.
Cached(r, hash) == {i \in DOMAIN r.cache : r.cache[i].hash = hash}
Touch(cache, entry) ==
    Append(SelectSeq(cache, LAMBDA e : e.hash # entry.hash), entry)
Evict(cache, size) ==
    IF Len(cache) <= size \/ sdk = "ignoresCacheSize" THEN cache
    ELSE IF sdk = "evictsNewest" THEN RemoveAt(cache, Len(cache) - 1) ELSE Tail(cache)

CacheKey(kind, key) ==
    IF sdk = "sharesCacheEntry" THEN "shared"
    ELSE IF sdk = "queriesPerKind" THEN <<kind, Hash(key)>> ELSE Hash(key)

\* Looks the context up in the cache or in the store; "found" is the answer.
Lookup(c, r, kind, key) ==
    LET hash == CacheKey(kind, key)
        asked == IF sdk = "queriesByKey" THEN <<"plain", key>> ELSE Hash(key)
        answer == Membership(r, asked)
        query(q) == doGetMembership(q, asked)
        queried == IF answer.error /\ sdk = "retriesQuery" THEN query(query(r)) ELSE query(r)
        entry == IF Cached(r, hash) = {} THEN [hash |-> hash, answer |-> answer]
                 ELSE r.cache[CHOOSE i \in Cached(r, hash) : TRUE]
        state == IF Cached(r, hash) = {} THEN queried ELSE r
    IN  [WithStatus(state) EXCEPT
            !.found = entry.answer,
            !.cache = IF sdk = "cachesNothing" THEN <<>>
                      ELSE Evict(Touch(@, entry), c.userCacheSize)]

\* Whether a segment includes the context, given the store's answer.
Includes(segment, ref, key, answer) ==
    LET values == UNION {{<<s, m[s]>> : s \in DOMAIN m} : m \in answer.values}
        byRule == key \in segment.rule /\ sdk # "skipsSegmentRules"
    IN  \/ sdk # "ignoresMembership" /\ <<ref, TRUE>> \in values
        \/ sdk = "usesRegularList" /\ key \in segment.included
        \/ byRule /\ (<<ref, FALSE>> \in values => sdk = "rulesBeatExclusion")

\* A rule of the flag refers to the segment s; r.result is the result so far.
MatchSegment(c, r, context, s) ==
    LET segment == c.segments[s]
        applies == segment.kind \in DOMAIN context
        kind == IF applies /\ sdk # "queriesForUserOnly" THEN segment.kind ELSE "user"
        generation == IF segment.generation = {} THEN 0 ELSE CHOOSE g \in segment.generation : TRUE
        found == Lookup(c, r, kind, context[kind])
        fails == found.found.error \/ (sdk = "failsOnNull" /\ found.found.values = {})
        invalid == segment.generation = {} /\ sdk # "acceptsNoGeneration"
    IN  IF r.result.value THEN r
        ELSE IF invalid \/ c.status = {}
        THEN [r EXCEPT !.result = Result(FALSE,
                 IF sdk = "healthyWithoutStore" /\ c.status = {} THEN {"HEALTHY"}
                 ELSE {"NOT_CONFIGURED"})]
        ELSE IF ~applies /\ sdk # "ignoresSegmentKind" THEN r
        ELSE IF fails
        THEN [found EXCEPT !.result = Result(FALSE,
                 IF sdk = "hidesStoreError" THEN {"HEALTHY"} ELSE {"STORE_ERROR"})]
        ELSE [found EXCEPT !.result =
                 Result(Includes(segment, bigSegmentRef(s, generation), context[kind],
                                 found.found),
                        StatusReason(found))]

\* One evaluation: the first rule whose segment includes the context.
Evaluated(c, r, step) ==
    FoldLeft(LAMBDA state, s : MatchSegment(c, state, step.context, s),
             [r EXCEPT !.result = Result(FALSE, {}),
                       !.cache = IF sdk = "forgetsAfterEvaluation" THEN <<>> ELSE @],
             c.flags[step.flag])

\* The SDK polls for the first time, or its short interval has passed.
PollStatus ==
    /\ run.at = "script" /\ ThisBigSegmentCase.status # {}
    /\ run.known = {} \/ PollsOften
    /\ During(PollStore(run))

\* The cache time of the least recently used entry has passed.
ExpireEntry ==
    /\ run.at = "script" /\ Expires /\ run.cache # <<>>
    /\ During([run EXCEPT !.cache = Tail(@)])

-------------------------------------------------------------------------------
(* The steps of a test. *)

\* NewBigSegmentStore and NewSDKClient: a store and a client of the case's own.
LaunchBigSegments(c) ==
    [at |-> "script", step |-> 1, ok |-> TRUE,
     metadata |-> IF c.status = {} THEN "" ELSE CHOOSE s \in c.status : TRUE,
     memberships |-> Unset, pending |-> 0, queries |-> <<>>,
     known |-> {}, cache |-> <<>>, result |-> Result(FALSE, {}),
     found |-> [error |-> FALSE, values |-> {}]]

ThisStep == ThisBigSegmentCase.script[run.step]
At(do) ==
    /\ run.at = "script" /\ run.step <= Len(ThisBigSegmentCase.script)
    /\ ThisStep.do = do

\* assert: the test goes on.  require: it ends.
ContinueScript(r, holds) == During([r EXCEPT !.step = @ + 1, !.ok = @ /\ holds])
RequireInScript(r, holds) ==
    IF holds THEN ContinueScript(r, TRUE) ELSE Verdict(ThisBigSegmentCase, FALSE)

Setup ==
    \/ /\ At("memberships")
       /\ ContinueScript([run EXCEPT !.memberships =
              [error |-> FALSE, known |-> TRUE, map |-> ThisStep.memberships]], TRUE)
    \/ /\ At("membership error")
       /\ ContinueScript([run EXCEPT !.memberships = [Unset EXCEPT !.error = TRUE]], TRUE)
    \/ /\ At("metadata")
       /\ ContinueScript([run EXCEPT !.metadata = ThisStep.status], TRUE)

\* Fault: the value is looked at once.
Attempt_Once(after, holds, hopeless) == ContinueScript(after, holds)

\* One attempt, which AssertEventually repeats.
Attempt(after, holds, hopeless) ==
    IF ~ThisStep.until \/ holds THEN ContinueScript(after, holds)
    ELSE \/ During(after)
         \/ hopeless /\ ContinueScript(after, FALSE)

EvaluateStep ==
    /\ At("evaluate")
    /\ LET after == Evaluated(ThisBigSegmentCase, run, ThisStep)
       IN  Attempt(after, Agrees(ThisStep.expect, after.result), ~Expires)

\* The first status of a test is required, a later one asserted.
StatusStep ==
    /\ At("status")
    /\ LET after == IF run.known = {} THEN PollStore(run) ELSE run
           holds == KnownStatus(after) = ThisStep.expect
       IN  IF ThisStep.until THEN Attempt(after, holds, ~PollsOften)
           ELSE RequireInScript(after, holds)

QueriesStep == At("queries") /\ ContinueScript(run, run.queries = ThisStep.expect)

\* A timeout is long against a short interval: it passes only if no query comes.
MetadataQueryStep ==
    \/ /\ At("metadata query") /\ run.pending > 0
       /\ ContinueScript([run EXCEPT !.pending = @ - 1], TRUE)
    \/ /\ At("metadata query") /\ run.pending = 0 /\ run.known # {} /\ ~PollsOften
       /\ RequireInScript(run, FALSE)

NoMetadataQueryStep ==
    /\ At("no metadata query")
    /\ \/ run.pending > 0 /\ RequireInScript(run, FALSE)
       \/ /\ run.pending = 0 /\ run.known # {} /\ ~PollsOften
          /\ ContinueScript(run, TRUE)

EndBigSegmentTest ==
    /\ run.at = "script" /\ run.step > Len(ThisBigSegmentCase.script)
    /\ Verdict(ThisBigSegmentCase, run.ok)

BigSegmentNext ==
    /\ suite = "big segments"
    /\ \/ Begin(BigSegmentCases, LaunchBigSegments)
       \/ PollStatus
       \/ ExpireEntry
       \/ Setup
       \/ EvaluateStep
       \/ StatusStep
       \/ QueriesStep
       \/ MetadataQueryStep
       \/ NoMetadataQueryStep
       \/ EndBigSegmentTest

\* The tests of big segments (server_side_big_segments.go) pass for an SDK that
\* conforms, whenever it polls the store and whenever its cache expires, and
\* each defect fails the test that is about it.
BigSegmentTestsTellApart == TellsApart("big segments", BigSegmentCases, BigSegmentDefects)
=================================================================================
