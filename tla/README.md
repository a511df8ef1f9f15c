# A verification project for the LaunchDarkly SDK test harness

The repository is a contract-test harness for LaunchDarkly SDKs. It runs a
large suite of tests against a *test service*, a small HTTP program that wraps
one SDK, while pretending to be LaunchDarkly's own services. A flaw in the
harness shows as a test of an SDK that fails for no reason, passes for none, or
never ends. This directory holds TLA+ modules for the parts of the harness
where that could happen, configurations with which TLC checks them, and proofs
that TLAPS checks.

## The system

### What runs, and when

- **The test goroutine.** `main.run` runs the whole suite in one goroutine.
  Each `T.Run` calls the subtest within its parent; nothing runs in parallel.
- **Request goroutines.** `net/http` serves each request of the test service, or
  of the SDK in it, in a goroutine of its own, in `serveHTTP` and then in the
  handler of a mock service. They share the mock endpoint and the mock service
  with the test goroutine, by mutexes and channels.
- **The event loop of the `eventsource` library**, one goroutine per streaming
  service, which owns the subscriptions and calls `Replay`.
- **The SDK and the test service**, outside the repository, which connect,
  retry, hang up, answer or do not.

### Components

| Component | State | Operations | Interacts with |
|---|---|---|---|
| Mock endpoints, `framework/harness/mock_endpoints.go` | map of endpoints, ID counter; per endpoint the connection channel (10), the cancellers, the newest connection | `newMockEndpoint`, `serveHTTP`, `AwaitConnection` and variants, `Close` | requests from the SDK; the handler of a mock service; the test |
| Streaming service, `mockld/streaming_service.go` | initial data, `started`, `queuedEvents`; the library's subscriptions | `SetInitialData`, `RefreshAll`, `PushEvent`, `Replay` | test, library loop, SDK |
| Polling service, `mockld/polling_service.go` | data, etag, lock | `SetData`, `SetEtag`, the handler | test, SDK |
| Events service, `mockld/events_service.go` | payload IDs seen, payload channel (100), the filter flag | the handlers of posts, `AwaitAnalyticsEventPayload`, `SetIgnoreDuplicatePayload` | test, SDK |
| Test scopes, `framework/ldtest/test_scope.go`, `result.go` | the running `T`s with errors and cleanups; the results | `Run`, `Errorf`, `FailNow`, `Skip`, `NonCritical`, `Defer` | test code, loggers, filter |
| Test loggers, `junit_test_logger.go`, `test_logger.go` | status of each test, counts | `TestStarted`, `TestError`, `TestFinished`, `TestSkipped`, `EndLog` | test scopes, `main` |
| Filter and recorded failures, `filter.go`, `main.go` | patterns, the file of failures | `Match`, `loadSuppressions`, the recording of failures | test scopes, command line |
| SDK clients, `testapi_sdk_client.go`, `test_service.go` | instance counter, `closeOnce` | `NewSDKClient`, `TryNewSDKClient`, `Close` | test scopes, test service |
| Hook callbacks and their tests, `hook_callback_service.go`, `testapi_hooks.go`, `common_tests_hooks.go` | an unbuffered channel and a goroutine per callback | handler, `ExpectCall` and its relatives | SDK, test |
| Big segment store and its tests, `big_segment_store.go`, `testapi_sdk_big_segments.go`, `server_side_big_segments.go` | a query channel (20), query list, functions set by the test | handlers, `Setup...`, `Expect...` | SDK, test |
| Migration callbacks and their tests, `migration_callback_service.go`, `server_side_migrations.go` | call history | handlers, `GetCallHistory` | SDK, test |
| Retry tests, `server_side_stream_retry.go`, `client_side_stream_retry.go`, `server_side_poll_retry.go` | a sequence of answers and the time since each request | `AwaitConnection`, `RequireConnectionWithin`, `RequireNoMoreConnections` | mock endpoint, SDK |
| Persistence tests, `server_side_persistence_base.go` and the three stores | the database, a map per prefix | `WriteMap`, `WriteData`, `Reset`, polls of a flag's value | SDK, database |
| Event tests, `server_side_events_*.go`, `client_side_events_*.go`, `php_events_*.go`, `common_tests_events_*.go` | the payload that was last received | evaluate, identify, track, flush, expect | events service, SDK |
| Roku handshake, `roku.go` | user and mobile key of the last handshake | `ServeHandshake`, `Wrap` | SDK |
| Capturing logger, `framework/logger.go` | output, children | `Println`, `append`, `AddChildLogger`, `RemoveChildLogger` | tests, requests |
| Harness start-up, `harness.go` | listeners, service info | `NewTestHarness` | test service |
| Test data, `data/` | none, and memoised factories | parsing, substitution, factories | tests |
| The other tests, `sdktests/` | that of their fixtures | scripts against the above | all of the above |

`PROJECT.json` lists these components with their status; the section
[Not modelled](#not-modelled) says why some have no module.

### What makes each component correct

- *Mock endpoint:* closing it leaves nothing running and nothing announced
  later; a test is told of every connection it counts on.
- *Streaming service:* no pushed event is lost or doubled around the first
  subscription; a stream never shows data older than what it showed before.
- *Polling service:* each answer is the service's state at one instant, and
  every poll and every setter gets its turn.
- *Events service:* retries count once, nothing acknowledged is lost, order
  is kept, and posts block only for a full channel.
- *Scopes, loggers:* every test has one outcome, all reports agree on it, and
  so does the exit code; cleanups run.
- *Filter:* selecting a test selects its ancestors; recorded failures are
  skipped the next time.
- *Clients:* no client outlives its test; the guard for singleton SDKs stops
  exactly the tests that have two.
- *Tests:* an SDK that conforms passes, whatever the timing; an SDK that does not
  fails the test that is about its defect.

### What is hard to test

`PROJECT.json` lists the hazards, each with the line where it bites. The worst
sit between two critical sections: `Close` against a request that is being
registered or announced, a push against the first subscription, two posts of a
payload, data replaced during a poll. The others are channels at their
capacity, blocked senders, a lock that is not released on one path, paths by
which a test ends (return, failure, panic, skip), and counters that must be
counted back on every one of them.

The tests themselves have a hazard of another kind. Nobody runs them against
an SDK that is wrong on purpose, so that nobody sees when one has stopped
telling right from wrong: a flag that cannot show the behaviour, a loop variable
that is not used, an expectation that no SDK can meet or miss, a wait that is as
long as what it waits for.

## Modules

| Module | Models | State and actions |
|---|---|---|
| `MockEndpoint` | the manager, the endpoints, `serveHTTP`, `Close` | `pc[r]` is the place of request r in `serveHTTP`; one action per critical section and per channel operation. `CloseUnregister`, `CloseTake`, `CloseCancel`, `CloseReturn` are the steps of `Close`. |
| `EndpointContract` | what an endpoint promises its test | accepted requests are live until they end; `FinishClose` needs all of them to have ended. |
| `MockEndpointProofs` | | proofs about `MockEndpoint` |
| `StreamingService` | the service and, as the code uses it, the library's loop | the test's calls, the loop's `LoopPublish`, `LoopSubscribe`, the two critical sections of `Replay`, the handlers' writes |
| `StreamingContract` | what the service promises tests and SDKs | one data set and one count of events; `PushEvent` and `Refresh` append to all open streams at once; `Attach` opens a stream with data and, for the first, what was kept |
| `StreamingServiceProofs`, `StreamingContractProofs` | | proofs about either |
| `PollingService` | the service | a poll waits, takes the lock, reads and answers; a setter is called and takes the lock |
| `PollingContract` | what the service promises tests and SDKs | a poll, `SetData` and `SetEtag` take one step each; `stuck` once a poll has found the data unavailable |
| `PollingServiceProofs` | | proofs about `PollingService` |
| `EventsService` | the service | a post is read, checked against the IDs, parsed and sent; the test receives |
| `EventsContract` | what the service promises tests and SDKs | one log; a post is refused, a duplicate, malformed or accepted in one step, and recorded in another |
| `TestScope` | scopes, results, reports, exit code | a stack of scopes; `StartTest`, `Errorf`, `Skip`, `Return`, `Panic`, `EndOfCleanups`, `EndRun` |
| `TestRunContract` | what a run of tests promises | a test starts, or is left out; the innermost ends with its verdict; the run exits with 0 or 1 |
| `SDKClients` | clients and entities; extends `TestScope` | cleanups of a scope are clients; `NewSDKClient`, `CloseByTest`, `RunCleanup` |
| `TestFilter` | filter, the file of failures and two runs of the harness | `Match`, `Run`, `Exclude`; `Suppression` is the way of a test through the file, `RunAgain` the second run |
| `TestFilterProofs` | | proofs about `TestFilter` |
| `EventsServiceProofs` | | proofs about `EventsService` |
| `SDKClientsProofs` | | proofs about `SDKClients` and `TestScope` |
| `ContractTests` | what suites of tests have in common | `position` counts the cases that have started, `run` is the state of the case that runs; `Begin`, `During`, `Verdict` |
| `MigrationTests` | stages, reads and writes of migrations, with the callback service | `trackCallHistory`: the origins are called in any order; `FinishMigration` |
| `HookTests` | hooks, with the callback service | `endpointHandler` starts a goroutine for each payload; `Receive` takes any of them, `ReceiveTimeout` |
| `EventTests` | the SDK's event processor and the steps of a script | `Perform` a step of the script; `ReceiveUpdate` and `ProcessAnswer` come late |
| `SummaryEventTests`, `FeatureEventTests`, `CommonEventTests` | the scripts, one definition for each test function | |
| `BigSegmentTests` | big segments, with the store and its channels | `PollStatus`: the SDK's own polls of the metadata; `ExpireEntry`; a step for each kind of line of a script |
| `RetryTests` | reconnecting of streams and polls | `SendRequest` and `AnswerRequest` against `AwaitConnection`, `AwaitNoConnection` and `TimeSleep`, with times in milliseconds |
| `PersistenceTests` | persistent stores | `PollTick` and `PollTimeout` of the test's polls, `TakeData` at any time between |
| `SDKTests` | the suites of `testsuite_entry_point.go` | Init chooses a suite and an SDK |
| `MC...` | | model values for TLC |

The granularity is everywhere the same. A critical section of a mutex, a send
and a receive are one step each, and what two goroutines can do in between is
left free. Local computation is part of the step before or after it. Variables
marked *history* in the modules record what happened for the properties; no
guard reads them, except for bounds.

Definitions whose names end in `_Something` and whose comment begins with
"Fault" are wrong versions of the definition that follows. No specification
uses them. They document which mistake each property would show: put in place
of the definition, each makes TLC report the property that `PROJECT.json` pairs
it with.

### How a suite of tests is modelled

The test functions are scripts, and a script is data: a *case* is a record with
the capabilities it needs, the fixtures it makes (flags, stages, hooks, answers
of an endpoint), the steps it takes, and what it expects of each. The cases
are the leaves of the `t.Run` calls in the order of the code. Go's tables and
loops are functions and sequences of cases. The expectation of a case names the
fields that the test looks at and no others, so that a field that the code
forgets to look at is not in the model either.

The modules hold the machine that runs the cases: the steps of the SDK, of the
handlers and of the test, with the orders that goroutines and timing leave open.
The SDK is outside the repository. It is modelled as the documentation in
`docs/` and the tests describe it, with one *defect* or none. A defect is one
branch of that SDK that goes wrong. Each suite has a table of its defects with
the test that is about each of them.

`TellsApart` is the property of every suite: an SDK without a defect fails no
test, and one with a defect fails the test that the table names, provided the
test service has the capabilities for it. It is checked over all interleavings,
so that a conforming SDK must pass *whatever the timing* and a defect must be
noticed *for sure*. Where this does not hold of the code the table says
`Unnoticed`, and TLC checks that the suite passes. Those tests are listed
[below](#what-the-tests-do-not-notice).

### Abstractions

- *Mock endpoint:* a request is a model value, its path the endpoint it names
  (0 for a bad path). Bodies, headers and base URLs are left out. The channel
  holds `Capacity` requests instead of 10. A time-out of `AwaitConnection`
  changes nothing and has no action. `HandlerBlocks` stands for a handler that
  waits for what its context cannot give it: room in the channel of payloads
  (`events_service.go:162`), the lock that a poll has kept
  (`polling_service.go:110`), or a client that reads.
- *Streaming:* a data set is its version, an event its kind and number. The
  library is external: its loop, its bounded channel per subscription, and
  its closing of subscriptions that are full.
- *Polling:* a data set is its version, `Unavailable` the versions that
  serialize to nil. SDKs only send etags that they have been given.
- *Events:* a payload is a model value with the three facts the handler
  branches on: an ID, gzip, well-formed JSON. The tests' goroutine drains.
- *Scopes:* tests have distinct names and are numbered. Only whether there
  are errors is kept. A `T` is called by its own test's goroutine.
- *Filter:* a regular expression of the command line is the set of the names it
  matches. The way from a recorded test to a pattern is modelled step by step
  (`Line`, `QuoteMeta`, `AutoEscape`, `Matching`): a text has the names it
  occurs in and one or two kinds of characters to be quoted, with the number of
  backslashes before each. An expression that would not compile, or in which a
  character is not quoted, matches nothing; neither comes of a quoted line.
- *All suites:* one value type stands for those that a test goes through, and a
  string, a context's attribute or a JSON value for itself.
- *Migrations:* a latency is "measured" or not. All calls of an operation come
  before the SDK answers it.
- *Hooks:* the order in which goroutines reach an unbuffered channel is free, for
  each hook; what a test leaves there waits for the next subtest of the client.
- *Events:* a streamed update arrives after at most `MaxPolls` evaluations. The
  `time.Sleep` of 10 ms after a payload that sets the server's time is taken to
  be enough. An SDK reports what it has when it is flushed, and not before.
- *Big segments:* an interval or cache time is "short" against the tests' timeouts
  or "long". Those that a test leaves to the SDK are long.
- *Retries:* only waits and sleeps take time; what else a test does takes at most
  50 ms (`Slack`). The SDK's delays are those of the documentation, with jitter of
  up to one half. `MaxRequests` bounds the requests of a case. The capabilities
  "long-running" and "js-client-side" stand for the command line's flag and for
  the kind of SDK.
- *Persistence:* time passes while a test polls. A single call takes none. The SDK
  has taken in what it was sent by the second attempt of the next poll. A tick
  and a deadline that are due together may come in either order, as in
  Go's `select`. The suite has the name of its database; a database is a map for
  each prefix, with the item that says it is complete.

## What the runs check

All runs set `CHECK_DEADLOCK FALSE` but those of the endpoint and of the suites
of tests. There, `Finished` is the one state in which everything may stop and TLC
checks that there is no other: no case of any suite can hang. The other models stop because their bounded histories are used up, or,
in the polling service, because the code really stops.

| Run | Shows | Bounds |
|---|---|---|
| `endpoint_checks` | `CloseCancelsActive`, `LateRequestsGet404`, `ServedIsAnnounced`, `ClosedEndpointDrains`, `ImplementsContract` | 2 endpoints, 2 requests of which one streams, capacity 1 |
| `endpoint_answered` | violation of `AcceptedRequestsAreAnswered` | 1 endpoint |
| `streaming_checks` | `FirstClientSeesEveryPush`, `RefreshReachesAll`, `PushesFollowTheirData`, `PublishReturns`, `ImplementsContract` | 2 connections, 2 pushes, 2 versions, 1 refresh, 1 buffered event |
| `streaming_connected` | violation of `ConnectedClientsGetPush` | 2 connections, 1 push |
| `polling_checks` | `PollsAreLinearizable`, `ImplementsContract`, `PollsAnswered` | 2 polls, 3 versions of which the last is unavailable, 1 etag |
| `polling_unavailable` | violation of `SetDataTakesEffect` | the first version is unavailable |
| `events_checks` | `RetriesAreIgnored`, `AcknowledgedIsRecorded`, `OrderOfPosts`, `BlocksOnlyWhenFull` | 2 payloads of any kind, 2 posts of each, 2 places in the channel |
| `clients_checks` | `ReportsAgree`, `SummaryAddsUp`, `ExitTellsFailures`, `OneDelete`, `RefusedOnlyIfLive`, `NoClientOutlivesItsTest`, `ImplementsContract` | 3 tests, nested at most 2 deep, 2 clients |
| `clients_singleton` | violation of `SingletonGuard` | 2 tests, 3 clients |
| `clients_defer` | violation of `DeferIsGuaranteed` | 1 test, 2 clients |
| `filter_checks` | `NoSelectedTestIsHidden`, `RecordedAreSkipped` | 7 tests, 2 patterns of each kind in any combination; names that contain one another, that are empty, have metacharacters or a slash |
| `sdk_tests_checks` | `MigrationTestsTellApart`, `HookTestsTellApart`, `ServerSideEventTestsTellApart`, `ClientSideEventTestsTellApart`, `PHPEventTestsTellApart`, `BigSegmentTestsTellApart`, `RetryTestsTellApart`, `PersistenceTestsTellApart` | 11 suites, each with one to three sets of capabilities and with 214 defects in all, those of the three databases counted once |

### Why these bounds are enough

They let each hazard happen at least once with one more actor to disturb it.
Two requests at a channel of capacity 1 fill it; two endpoints are enough for a
request to name the wrong one. Two connections have a first and a later one;
with one buffered event, a second one overflows a slow client's channel, and
with two pushes there is one before and one after the first subscription, in
either order. Two versions of the data are the old and the new. In the polling
service the etag and the data change between any two steps of a poll, and the
second poll can send the etag of the first. In the events service two posts
of one payload overlap while another payload fills the channel. A test within a
test, with a third before or after it, gives all orders of ends and cleanups.
The filter's suite has a name that contains another, an empty one, one with
parentheses and other metacharacters, and one with a slash whose parts are names of
their own. A suite of tests needs no bound on its cases: all of
them run. Its sets of capabilities are such that every case that is for the suite's kind of
SDK runs in one of them, and every `unless` in a suite of one kind takes effect in
another; capabilities on which no case depends are left out.

Symmetry is used for the clients only, and only in runs without liveness.

### Fairness

- Goroutines of the harness that are able to run are scheduled: weak fairness of
  each step of `serveHTTP`, of `Close`, of `Replay` and of a post.
- A handler of a mock endpoint that is able to run returns, if it is not a
  stream or if its context is done. Nothing is assumed of one that has blocked
  (`HandlerBlocks`), which only others can let go on.
- Strong fairness of the steps that take the polling service's lock: Go's mutex
  hands itself over to a goroutine that has waited for long.
- Strong fairness of `LoopPublish`: the `select` of the library's loop chooses at
  random among the ready channels.
- The suites of tests state no fairness. Their properties say what has failed at
  the end, and the check for deadlocks that the end can always be reached: each
  case is a finite script.
- Nothing is assumed of SDKs and tests. An SDK may never read, never hang up
  and never send; a test may never receive.

## Findings

Five runs end in a counterexample, each against a comment of the code. The
lines and quotes are in `PROJECT.json`.

1. **A request can be aborted by `Close`** (`endpoint_answered`). `serveHTTP`
   sends on a copy of the connection channel after it has released the lock. A
   `Close` in between closes the channel, and the send panics.
2. **A push can miss a connected client** (`streaming_connected`). The queue of
   events goes to whoever subscribes first. In the trace one client is announced,
   the event is pushed and queued, a second client is announced, subscribes first
   and drains the queue; the first one opens its stream with the data only. The
   cause is the interval between announcement and subscription, which also loses
   events another way: `started` is never reset, so that once a client has
   subscribed an event that is pushed in another's interval is published to the
   subscriptions there are, and not queued.
3. **A poll of unavailable data keeps the lock** (`polling_unavailable`). The
   path that answers 404 lacks the `Unlock`; the next `SetData` hangs.
4. **The singleton guard counts too low** (`clients_singleton`). `Close` counts
   down on each call: twice for a client that is closed by its test and again by
   `Defer`, and once for a client of `TryNewSDKClient`, which was never counted up.
   In TLC's trace a single test does it all; the tests of the suite do it for those
   that follow.
5. **A skipped test's cleanups do not run** (`clients_defer`), although the
   comment on `Defer` guarantees it. No test of the suite skips itself after it
   has created something, so none suffers today.

The passing runs contain the same behaviours. Their properties are those that
hold in spite of them: `PollsAnswered` has the lost lock as its only exception, and
`ServedIsAnnounced` speaks of requests whose handler was started.
Other behaviours have no run of their own and are exceptions in a property:

- `ClosedEndpointDrains` excepts handlers that are blocked. A post waits for room in
  the channel of payloads whatever its context says, and a poll for a lock that is
  lost.
- `OrderOfPosts` counts a payload as acknowledged from the 202 of a duplicate only if
  the post it duplicates is no longer under way. While that one waits for room,
  its retry has its 202 already, and a payload that is posted then can be
  recorded first.
- `NoClientOutlivesItsTest` excepts clients that a skipped test left behind, and those
  whose creation was lost (`CreationLost`): the service has created the client, but
  its answer has no `Location` or cannot be read (`test_service.go:84-91`, `124-129`), so
  that no test ever knows of it.
- `RecordedAreSkipped` speaks of paths that survive the file of failures (`Recordable`). A
  slash in a name cuts it in two when the file is read, and the pattern, longer than
  the path, never matches: that test is run again. A path that is blank is
  skipped as a blank line; so is the failure of the suite itself, which has no path.
  No literal name of a test in the suite has a slash.

### What the tests do not notice

These came up when the suites were modelled. The table of defects in the module
has the name in parentheses, with `Unnoticed`; TLC checks that the suite passes.

*A test whose fixture cannot show the behaviour it is named for:*

- "tracks consistency is disabled if callback fails" (`server_side_migrations.go`,
  near 1345) uses a flag with a check ratio of 0, so that consistency would not be
  tracked anyway.
- The sampling tests of server-side feature and debug events use a flag that is
  not tracked, or has no `DebugEventsUntilDate` (`ignoresSampling`).
- In "data source updates respect versioning" (`server_side_persistence_base.go:395-437`)
  all three expectations are that a flag that was never written never has a
  certain value (`appliesOlderUpdates`, `comparesWithMemory`, `distrustsStore`).
- DynamoDB's `WriteMap` marks the store as complete, so that "ignores database
  initialization flag" does not show an SDK that reads only complete stores
  (`readsOnlyInited`). Consul's `WriteMap` deletes keys that do not exist: items that
  are not written stay.

*An argument that is not used:*

- "executes beforeEvaluation stage", with and without detail, ignores `detail`
  (`common_tests_hooks.go`).
- The test of identify events ignores its loop variable `contexts`
  (`forgetsMultiKind`).
- `HasContextObjectWithMatchingKeys` compares the key of a single context and not
  its kind.
- The client-side test "prerequisite events emit in order" expects its events in
  any order, and one of its flags is misspelt as "preqreq2".
- `MemoizingFactory.Create` (`data/generic_factory.go`) never increments its version.

*A wait without a margin:*

- "cache miss persists for TTL" (`server_side_persistence_base.go:296`) watches for
  `time.Microsecond*500` with a tick of 20 ms, so that it makes no attempt
  (`forgetsMisses`); the poll after it lasts exactly as long as the TTL, so that an
  SDK that conforms may fail. It is the one exception, `WithoutMargin`.
- For PHP the interval and the cache time of 1000 ms equal the second that
  `AssertEventually` waits (`server_side_big_segments.go:328-361`, `451-486`). No time
  is modelled in that suite; there the poll comes in time.
- A comment in `server_side_stream_retry.go` (near 109) says that other tests expect
  connections in much less than 500 ms; the timeout is 2 s, and a constant delay
  of 1 s passes (`constantDefaultDelay`). "does not permanently stop" sees
  one retry only (`stopsAfterTwoUnexpected`). What happens within and after the
  extended regime is seen once (`leavesExtendedRegimeAtOnce`,
  `pollsInNormalRegime`).
- JavaScript client-side SDKs have their first data by polling: a test may be over
  before they have connected to the stream, and what they do on the client side
  after an error (`ignoresRetryDelay`, `stopsAfterReconnectError`) is not
  surely noticed.

*A disagreement of tests and documentation:*

- `docs/service_spec.md:53-55` says that anonymous redaction concerns feature events
  only; `common_tests_events_custom.go` requires it of custom events.
- `docs/service_spec.md:275-279` describes `omit-anonymous-contexts` for every SDK.
  The three tests "can omit anonymous contexts from identify events"
  (`common_tests_events_identify.go:46-94`) make their client without an initial
  context of their own. On the client side `NewSDKClient` then makes one up, which
  is not anonymous (`testapi_sdk_client.go:162-163`), and the SDK sends an identify
  event for it that the tests do not expect: they fail for an SDK that does as
  the documentation says, and tell nothing about what it omits (`reportsAnonymous`,
  `omitsMixed`). They are the one exception of `ClientSideEventTestsTellApart`,
  `ForgetInitialIdentify`.
- `docs/service_spec.md:498` gives the command of "Get big segment store status" as
  "".

One more concerns the harness: `transportProtocol.Run` (`common_tests_base.go`, near
139) changes the harness's global service for the time of a subtest.

## Proofs

TLAPS checks seven modules, for every value of the constants. The mock endpoint,
the services for streams, polls and events and the runner of tests are proved to
implement their contracts, every safety property
that a run checks of them is proved to be invariant, and for
each of the five [findings](#findings) there is a theorem about its cause: what fails
there holds in every run without the step named in the table.

| Finding | Theorem | Fails only if |
|---|---|---|
| `AcceptedRequestsAreAnswered` | `MockEndpointProofs!AnsweredUnlessCloseIntervenes` | `Close` takes the channel while a request is between its registration and its announcement (`CloseKeepsOff`) |
| `ConnectedClientsGetPush` | `StreamingServiceProofs!PushReachesThoseSubscribed` | the test pushes while a connection that was announced to it has no subscription yet (`PushWaits`) |
| `SetDataTakesEffect` | `PollingServiceProofs!LockLostToUnavailable`, `LockLossIsFinal` | a poll has found the data unavailable; then every later call hangs |
| `SingletonGuard` | `SDKClientsProofs!GuardHoldsIfCountedOnce` | a test closes a client itself, or creates one with `TryNewSDKClient` |
| `DeferIsGuaranteed` | `SDKClientsProofs!DeferGuaranteedWithoutSkips` | a test is skipped after it has deferred a cleanup |

Four of them are of the form `Spec /\ [][A]_vars => []P`: `A` excludes one step in
some states, and all other interleavings remain. `SetDataTakesEffect` is about calls
that return, and liveness is beyond the provers; what is proved is by which path
the lock is lost and what can still happen afterwards.

**`MockEndpointProofs`**, from `ConstantsAssumption`: any requests, any number of
endpoints, any capacity above 0.

- `TypeCorrect`: `TypeOK` is invariant.
- `CloseCancels`: `CloseCancelsActive` is invariant. It is not inductive: that a
  request is cancelled when `Close` returns follows from what was known of its
  canceller before. `IInv` adds that (`CancellerHeld`) the canceller of an active
  request is with its endpoint, with `Close`, or has been called; that
  (`CloseInv`) after the second critical section the endpoint can only collect
  cancellers of requests it refuses, because the channel is closed; that
  (`RoutedInv`) a canceller is only ever with the request's own endpoint; and that
  (`RouteInv`) a closing endpoint has left the map. The lemmas `InvTest` and
  `InvRequest` prove that the steps of either side preserve it.
- `LateRequests`: a request sent after `Close` returned is never past `Lookup`
  but for the 404, from `RouteInv`.
- `Refinement`: `Spec => ImplementsContract`. An endpoint is open, closing or
  closed for its test; `Register` is `Accept`; cancelling, hanging up and the end
  of the handler are `End`; `CloseReturn` is `FinishClose`, which `CloseCancels`
  allows.
- `Announcements`: `ServedIsAnnounced` is invariant. A request whose handler has
  started was received, is in the channel, or met a channel with `Capacity` requests
  before it. `AnnounceInv` adds that the channel holds different requests of its own
  endpoint that are past `Announce` (`ChannelInv`); the lemma `ChannelFits` follows by
  cardinality: a full channel means that more requests were accepted than it holds. The
  requests sent so far are finitely many, which is an invariant and no assumption about
  `Requests`.
- `AnsweredUnlessCloseIntervenes`: as long as `Close` keeps off, the channel of a request
  that is about to be announced is open (`PushInv`), so that the send cannot panic. That
  the channel was open at the registration is the check of `Register`.

**`StreamingServiceProofs`**, from `ConstantsAssumption`: any connections, pushes, data
sets and refreshes, any capacity of the channels. The three properties need one another
and are proved from one `IInv`.

- `FirstClientServed`: `FirstClientSeesEveryPush` is invariant. The queue holds every
  push until the first `Replay` drains it, and nothing after (`QueueInv`); `FreshInv`
  says that a connection gets nothing before the end of its own `Replay`, so that the
  queue and what is published later join without a gap or a repetition (`CarriesQueue`,
  `CarriesPush`).
- `RefreshReaches`: `RefreshReachesAll` is invariant, also before any refresh, with the
  data that the service was created with. What `Replay` has read when it
  comes to the queue is no older than the last refresh (`DrainInv`), because `Replay`
  runs in the loop and the loop publishes nothing meanwhile. `ReachedInv` says it
  also of subscriptions that the loop has still to end.
- `PushesFollow`: `PushesFollowTheirData` is invariant. It compares with the data last
  published, at first that of the service's creation; data that was set and not
  refreshed is promised to nobody. The test waits in `Publish`, so
  that what it publishes is still current when the loop takes it (`PublishingInv`), and
  no event is sent that there has not been (`SentInv`, `BaseInv`).
- `Refinement`: `Spec => ImplementsContract`. An event that the test waits to publish
  counts as pushed once the loop has taken it (`contractPushed`), so that
  `LoopPublish` is the contract's `Refresh` or `PushEvent` and a subscription that is
  full is one that ends there. A stream opens with `ReplayDrain`, not with the
  subscription: `Replay` runs in the loop, and nothing is published while it does.
  That the data it opens with is between the last refresh and the current one is
  `DrainInv`, that it has just what was queued is `QueueInv`.
- `ClientsMissNothing`: `StreamsHaveNoGaps` of the contract holds of the service. It is
  proved of the contract, where it is short (`StreamingContractProofs!NoGaps`), and
  carried over by the refinement.
- `PushReachesThoseSubscribed`: a client that the test knew of when it pushed an event
  has the event, or will get it from the loop or from the first `Replay` (`GetsInv`).

**`StreamingContractProofs`**, without an assumption.

- `NoGaps`: every stream has the events from some moment on, once and in order, up to
  the last while it is open. `CarriesNext` is about an event at the end of a stream,
  `CarriesPut` about data there, `CarriesKept` about what the first stream opens with,
  and `PublishKeeps` about all streams at once.

**`TestFilterProofs`**, from `SuiteAssumption`: any suite, any patterns; a name
occurs in itself.

- `TypeCorrect`: `TypeOK` is invariant.
- `SelectedAreReached`: an excluded test was excluded by the current patterns
  (`ExcludedInv`), and the lemma `AncestorsAreSelected` says that a filter that
  selects a test selects its ancestors.
- `RecordedSkipped`: the patterns of the second run contain the suppression of
  every recorded test but those with a blank line (`RecordedInv`), and the lemma
  `SuppressionMatches` says that it matches the test and every subtest if no name
  on its path has a slash. It is the way through the file: without slashes the
  line has one part for each name (`LineOfNames`), and a part that was quoted and
  escaped once more matches its name, whatever characters it has (`QuotedMatches`).
  `Line` ranks the places of the parts by counting those up to each, because
  the provers can say nothing of a flattening by recursion.

**`PollingServiceProofs`**, from `ConstantsAssumption`: any polls, etags and data
sets; no poll is called as the free lock is.

- `TypeCorrect`: `TypeOK` is invariant.
- `Linearizable`: `PollsAreLinearizable` is invariant. It follows at the moment
  of the answer from two facts that `IInv` adds: the reader holds the lock, so
  that the etag it has read is still current (`ReaderInv`), and what is current
  is a moment of every poll in progress (`MomentInv`). The lemma `SetterStep`
  says so for a setter that has the lock, `AnswerStep` for a poll that is answered.
- `Refinement`: `Spec => ImplementsContract`. This is stronger: all polls and setters
  agree on *one* order. A poll's one step is that in which it is answered, under the
  lock, and a setter's that in which it has the lock. `RInv` adds what the code has
  checked on the way there: the poll that reads the data does not have it already
  (`MissInv`), the etag it came with was given to an SDK (`KnownInv`), and the value
  of a setter is the next (`SettingInv`). The lock that is lost is `stuck`, after
  which the contract allows nothing.
- `LockLostToUnavailable`: a poll that has left with the lock was answered 404 for data
  that is unavailable (`LossInv`); no other path leaves with it.
- `LockLossIsFinal`: from then on no call returns and nothing changes
  (`NothingAfterLoss`, an action property).

**`EventsServiceProofs`**, from `ConstantsAssumption`: any payloads and any capacity
of the channel.

- `RetriesIgnored`: while the filter is on, one post at most of the posts with an ID
  is past it (`OnePassesInv`), because one that is past it has marked the ID
  (`SeenInv`).
- `AcknowledgedRecorded`: a post is only discarded when its ID is marked
  (`DiscardedInv`), and then another post has passed and is recorded or will be
  (`SeenInv`, `RecordedInv`).
- `PostsInOrder`: what an SDK had been told is in when it first posted another
  payload, by the answer to a post or, once that is over, to its retry, is recorded
  (`AcknowledgedIsIn`) and stays recorded before it (`AfterInv`), because the record only grows at its end
  (`SendAppends`, `AwaitKeepsRecorded`).
- `TypeCorrect`: `TypeOK` is invariant.
- `Refinement`: `Spec => ImplementsContract`. The critical section on the table of IDs is
  the contract's `Discard` or `Accept`; reading and failing before it are no step or
  `Refuse`; the send is `Record`. It needs that what came to the check is
  readable (`CheckedInv`) and that the table has exactly the IDs of the posts that got
  to it (`SeenIsKnown`). This one is proved and not checked by a run.

**`SDKClientsProofs`**, from `BoundsAssumption`: any set of clients, any number of
tests, any depth of nesting. `IInv` has two halves.

- `ReportsAgreed`, `ExitCode`: `ReportsAgree` is about tests that are over, so
  that nothing follows from it for the test that is ending. `OpenInv` says what the
  reports hold of a test that is still open: nothing in the results while its
  function runs, all of its failure once it is at its cleanups. It needs that the
  open tests are different ones of those started (`StackInv`), that a test has
  errors exactly if it failed, which `Leave` sees to (`LeaveIs`), and that the
  lists hold only tests that were started (`ReportInv`). The lemma `LeaveStep` is
  about the end of a test function, `OverStep` about a scope that goes away.
  `ExitCode` follows from `ReportsAgree` as the run ends, with no scope left.
- `DeletedOnce`: what is closed is what has been sent a DELETE (`DeleteInv`).
- `RefusalsJustified`: the counter is at most the number of the clients that are
  counted and not closed (`GuardInv`); it may be less, or negative, because `Close`
  counts down each time. With a counter of 1 there is such a client, and it is
  alive because only a closed one is gone.
- `ClientsEnd`: `NoClientOutlivesItsTest` is kept by each step from what the step
  does to the clients that open tests have deferred to close (`Deferred`:
  `SetTopDefers`, `WithoutTopDefers`, `NewTestDefers`). A creation that fails leaves
  nothing to close, or a client that is marked as lost (`FailedCreationStep`).
- `TypeCorrect`: `TypeOK` needs that a test is counted as skipped once
  (`CountInv`).
- `SummaryTrue`: `SummaryAddsUp` is kept by a step that ends a test because that test
  has no result yet. `SumInv` adds this of every test whose function runs, and that
  results are those of tests that were started. `StartTestSums`, `SkipSums` and
  `LeaveSums` say which of the three numbers change.
- `Refinement`: `Spec => ImplementsContract`. Scopes and lists of results become one
  verdict for each test. `Leave` and `Skip` are `End` (`EndRefines`); cleanups, errors
  and clients change no verdict (`SameRefines`, `EndOfCleanupsRefines`). That the test
  that ends is the innermost that runs needs the numbers of the stack to ascend
  (`OrderInv`); that a test that starts has no verdict yet needs `SumInv` and
  `ReportInv`. `EndRunRefines` is about the exit code.
- `OnlySkipsAndLossesLeak`: when the run is over, a client that lives and that nobody
  tried to close was left by a skipped test, or lost when it was created
  (`LeftBehind`). From `ClientsEnd` and `EndInv`, by
  which no scope is left then.
- `DeferGuaranteedWithoutSkips`: without a skip of a test that has deferred something,
  nothing is left.
- `GuardHoldsIfCountedOnce`: where each client is counted and closed once, the counter is
  the number of guarded clients not yet closed, one at most; and the scope that
  is to close it is the only one with a cleanup (`SingleInv`). TLC shows that it is not
  enough to exclude only `CloseByTest` or only `TryNewSDKClient`.

With these, every invariant that the runs of the harness's own components check is
proved, and so are all five refinements. Only model-checked are:

- liveness (`ClosedEndpointDrains`, `PublishReturns`, `PollsAnswered`,
  `BlocksOnlyWhenFull`): `ENABLED` and fairness are beyond these provers;
- the suites of `ContractTests` (the eight `...TellApart`). Their modules are finite
  tables of cases and defects without a parameter, through which TLC goes whole; a
  proof would go through them once more. What a script's helper computes is defined by
  folds and, in `EventTests`, by recursion: the first would need induction over
  data, and in a module that reaches the second tlapm has no SMT backend;
- that the definition of `Carries` by quantifiers, in `StreamingService`, is the
  selection of the pushes from a stream: `MCStreamingService` assumes it of all short
  streams, and TLC evaluates the assumption.

To check: `tlc -config MockEndpoint_checks.cfg MCMockEndpoint` and alike (module
and configuration of each run are in `PROJECT.json`), and
`tlapm MockEndpointProofs.tla`.

## Not modelled

- *Planned*, see below: the Roku handshake, the capturing logger, start-up, the data
  files and factories.
- Within modelled components: diagnostic events take the path of analytics
  events; commands to a client change nothing in the harness; `Errorf` from a
  request's goroutine; console output. A callback of a migration that comes
  after the SDK has answered is not modelled, and neither are the errors of the
  clients of Redis, Consul and DynamoDB, which are I/O.
- Of the event tests, those of a request's headers, path, unique ID and compression
  (`common_tests_events_request.go`): they compare the request with constants.
- The tests of evaluation, of streaming and polling requests, of tags, of context
  types and of automatic environment attributes are tables of flags, contexts
  and expected values that are run one by one. What could go wrong is the expected
  value, which a model would only repeat. What they rely on is modelled with the
  services and with the scopes.
- The builders of JSON (`sdk_data.go`, `event_data.go`), the protocol types
  (`servicedef`, `serviceinfo`) and small helpers have no behaviour of their own.

## Plan

The order is that of importance; 1 to 10 are done.

1. `MockEndpoint`, `EndpointContract`: everything else is served through it.
2. `StreamingService`, `PollingService`, `EventsService`: what tests of an
   SDK rely on.
3. `TestScope` and `SDKClients`: whether a run's outcome can be believed.
4. `TestFilter`: what a run consists of.
5. First proofs: `MockEndpointProofs`, `TestFilterProofs`, `PollingServiceProofs`.
6. `ContractTests` and the suites on it: what the tests expect of an SDK, with
   an SDK that keeps to the documentation and with SDKs that do not. Hooks, big
   segments and migrations include the mock services that they are tested with.
   One run whose Init chooses the suite, so that the state spaces add up rather
   than multiply.
7. Stream and poll retry and the caching modes of a persistent store, in the same
   run, with time.
8. `EventsServiceProofs`, `SDKClientsProofs`.
9. `StreamingServiceProofs`; the abstract specifications `PollingContract` and
   `TestRunContract` with the proofs that they are implemented.
10. `StreamingContract` and `EventsContract` with the proofs that they are implemented;
    a theorem for the cause of each finding.

What is left:

11. `RokuServer`, `CapturingLogger`, `HarnessStart`: small and independent of each
    other. No line of a test's log in another test's output; start-up ends.
12. `DataFiles`, `DataFactories`: the expansion of parameters against a reference
    definition; unique keys.
13. Compositions: the streaming service behind a mock endpoint (does `Close` end
    subscriptions and can a push block it), the events service behind one (a
    handler that outlives its endpoint), `Errorf` from requests in `TestScope`.
