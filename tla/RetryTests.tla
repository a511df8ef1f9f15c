-------------------------------- MODULE RetryTests --------------------------------
(***************************************************************************)
(* The tests of how an SDK reconnects: server_side_stream_retry.go,        *)
(* client_side_stream_retry.go and server_side_poll_retry.go in sdktests/. *)
(*                                                                         *)
(* Times are in milliseconds.  The SDK connects again at some time within  *)
(* the interval that its delay allows; a wait of the test may see it, must *)
(* see it, or cannot, as the interval lies to the timeout.  Only waits and *)
(* sleeps take time; what else the test does takes at most Slack.          *)
(***************************************************************************)
EXTENDS ContractTests
LOCAL INSTANCE TLC
LOCAL INSTANCE SequencesExt
LOCAL INSTANCE FiniteSetsExt

Slack == 50
MaxRequests == 6 \* bounds what an SDK may send in a case

seconds(n) == 1000 * n
minutes(n) == seconds(60 * n)

-------------------------------------------------------------------------------
(* The cases. *)

briefDelay == 1
noMoreConnectionsTimeout == 100
extendedRegimeConnectionTimeout == minutes(5) + seconds(10)

IOError == 0
recoverableErrors == <<400, 408, 429, 500, 503>>
unexpectedErrors == <<401, 403, 405>>

\* What the endpoint answers to the requests, in order; the last one again and
\* again (httphelpers.SequentialHandler).
HandlerWithStatus(status) == [data |-> {}, status |-> status]
Handler(version) == [data |-> {version}, status |-> 200]

RetryCase ==
    [test |-> "", needs |-> {}, unless |-> {}, retryDelay |-> briefDelay, polling |-> FALSE,
     handlers |-> <<>>, script |-> <<>>]

\* The script of a test.  A flag value is the version of the data; 0 is null.
NewRetryClient(initCanFail) ==
    [do |-> "client", initCanFail |-> initCanFail, timeout |-> seconds(5)]
EvaluatesTo(version) == [do |-> "value", version |-> version, timeout |-> Slack]
RequireConnection(timeout) == [do |-> "connection", timeout |-> timeout]
RequireNoMoreConnections == [do |-> "no connection", timeout |-> noMoreConnectionsTimeout]
Cancel(nth) == [do |-> "cancel", nth |-> nth, timeout |-> Slack]
Wait(time) == [do |-> "sleep", timeout |-> time]
pollUntilFlagValueUpdated(previous, updated) ==
    [do |-> "updated", previous |-> {previous}, updated |-> updated, timeout |-> seconds(1)]

Connections(n, timeout) == [i \in 1..n |-> RequireConnection(timeout)]

\* The client has the first data and the test the first request.
Connected(timeout) == <<NewRetryClient(FALSE), EvaluatesTo(1), RequireConnection(timeout)>>

RetryAfterClose(timeout) ==
    [RetryCase EXCEPT !.test = "retry after stream is closed",
        !.handlers = <<Handler(1), Handler(2)>>,
        !.script = Connected(timeout)
            \o <<Cancel(1), RequireConnection(timeout), pollUntilFlagValueUpdated(1, 2)>>]

\* The subtests for an IO error and for each recoverable status.
ForRecoverable(phase, case(_)) ==
    LET named(status, kind) ==
            [case(status) EXCEPT !.test = "retry after " \o kind \o " on " \o phase]
    IN  <<named(IOError, "IO error")>>
        \o [i \in DOMAIN recoverableErrors |->
               named(recoverableErrors[i], "recoverable HTTP error")]

ForUnexpected(case(_)) == [i \in DOMAIN unexpectedErrors |-> case(unexpectedErrors[i])]

initialRetryDelayIsApplied ==
    [RetryCase EXCEPT !.test = "initial retry delay is applied", !.retryDelay = seconds(10),
        !.handlers = <<Handler(1)>>,
        !.script = Connected(seconds(2)) \o <<Cancel(1), RequireNoMoreConnections>>]

shouldRetryAfterErrorOnInitialConnect(status) ==
    [RetryCase EXCEPT
        !.handlers = <<HandlerWithStatus(status), HandlerWithStatus(status), Handler(1)>>,
        !.script = <<NewRetryClient(FALSE), EvaluatesTo(1)>> \o Connections(3, seconds(2))
                   \o <<RequireNoMoreConnections>>]

\* An SDK may have other data from elsewhere at first.
clientShouldRetryAfterErrorOnInitialConnect(status) ==
    [RetryCase EXCEPT
        !.handlers = <<HandlerWithStatus(status), HandlerWithStatus(status), Handler(2)>>,
        !.script = <<NewRetryClient(TRUE)>> \o Connections(3, seconds(10))
            \o <<RequireNoMoreConnections,
                 [pollUntilFlagValueUpdated(0, 2) EXCEPT !.previous = {0, 1},
                                                         !.timeout = seconds(5)]>>]

ErrorOnReconnect(status, timeout) ==
    [RetryCase EXCEPT
        !.handlers = <<Handler(1), HandlerWithStatus(status), HandlerWithStatus(status),
                       Handler(2)>>,
        !.script = Connected(timeout) \o <<Cancel(1)>> \o Connections(3, timeout)
                   \o <<pollUntilFlagValueUpdated(1, 2)>>]
shouldRetryAfterErrorOnReconnect(status) == ErrorOnReconnect(status, seconds(2))
clientShouldRetryAfterErrorOnReconnect(status) == ErrorOnReconnect(status, seconds(10))

-------------------------------------------------------------------------------
(* An SDK that conforms to RETRY goes on after any error, after minutes if *)
(* the error was unexpected; another stops.                                *)

Conforms(test) ==
    [RetryCase EXCEPT !.test = test, !.needs = {"retry-conformance-fdv1-streaming", "long-running"}]
Legacy(test) ==
    [RetryCase EXCEPT !.test = test, !.unless = {"retry-conformance-fdv1-streaming"}]

\* The client, the error, and the retry after minutes.
ExtendedRegime ==
    <<NewRetryClient(TRUE), RequireConnection(seconds(2)),
      RequireConnection(extendedRegimeConnectionTimeout)>>

retryAfterUnexpectedErrorOnInitialConnect(status) ==
    [Conforms("retry after unexpected HTTP error on initial connect") EXCEPT
        !.handlers = <<HandlerWithStatus(status), Handler(1)>>,
        !.script = Append(ExtendedRegime, pollUntilFlagValueUpdated(0, 1))]

retryAfterUnexpectedErrorOnReconnect(status) ==
    [Conforms("retry after unexpected HTTP error on reconnect") EXCEPT
        !.handlers = <<Handler(1), HandlerWithStatus(status), Handler(2)>>,
        !.script = <<NewRetryClient(FALSE), RequireConnection(seconds(2)), EvaluatesTo(1),
                     Cancel(1), RequireConnection(seconds(2)),
                     RequireConnection(extendedRegimeConnectionTimeout),
                     pollUntilFlagValueUpdated(1, 2)>>]

entersExtendedRegime ==
    [Conforms("enters extended-regime backoff after unexpected HTTP error") EXCEPT
        !.handlers = <<HandlerWithStatus(401), Handler(1)>>,
        !.script = <<NewRetryClient(TRUE), RequireConnection(seconds(2)), RequireNoMoreConnections,
                     RequireConnection(extendedRegimeConnectionTimeout)>>]

doesNotPermanentlyStop ==
    [Conforms("does not permanently stop under sustained unexpected HTTP errors") EXCEPT
        !.handlers = <<HandlerWithStatus(401)>>, !.script = ExtendedRegime]

\* Fault: the stream is not kept open for the minute that the SDK demands.
returnsToNormalRegime_TooSoon ==
    [Conforms("returns to normal-regime backoff after healthy operation") EXCEPT
        !.handlers = <<HandlerWithStatus(401), Handler(1), Handler(2)>>,
        !.script = ExtendedRegime
                   \o <<Wait(seconds(45)), Cancel(2), RequireConnection(seconds(30))>>]

returnsToNormalRegime ==
    [Conforms("returns to normal-regime backoff after healthy operation") EXCEPT
        !.handlers = <<HandlerWithStatus(401), Handler(1), Handler(2)>>,
        !.script = ExtendedRegime
                   \o <<Wait(seconds(75)), Cancel(2), RequireConnection(seconds(30))>>]

doNotRetryOnInitialConnect(case, status, timeout) ==
    [case EXCEPT
        !.handlers = <<HandlerWithStatus(status), Handler(1)>>,
        !.script = <<NewRetryClient(TRUE), RequireConnection(timeout), RequireNoMoreConnections>>]
doNotRetryOnReconnect(case, status, timeout) ==
    [case EXCEPT
        !.handlers = <<Handler(1), HandlerWithStatus(status), Handler(1)>>,
        !.script = Connected(timeout) \o <<Cancel(1), RequireConnection(timeout),
                                           RequireNoMoreConnections>>]

doServerSideStreamRetryTests ==
    LET legacy(phase) == Legacy("do not retry after unexpected HTTP error on " \o phase)
    IN  <<RetryAfterClose(seconds(2)), initialRetryDelayIsApplied>>
        \o ForRecoverable("initial connect", shouldRetryAfterErrorOnInitialConnect)
        \o ForRecoverable("reconnect", shouldRetryAfterErrorOnReconnect)
        \o ForUnexpected(retryAfterUnexpectedErrorOnInitialConnect)
        \o ForUnexpected(retryAfterUnexpectedErrorOnReconnect)
        \o <<entersExtendedRegime, doesNotPermanentlyStop, returnsToNormalRegime>>
        \o ForUnexpected(LAMBDA status : doNotRetryOnInitialConnect(
                                            legacy("initial connect"), status, seconds(2)))
        \o ForUnexpected(LAMBDA status : doNotRetryOnReconnect(
                                            legacy("reconnect"), status, seconds(2)))

doClientSideStreamRetryTests ==
    LET legacy(phase) ==
            [Legacy("do not retry after unrecoverable HTTP error on " \o phase) EXCEPT
                !.needs = {"client-event-source-http-errors"}]
    IN  <<RetryAfterClose(seconds(10))>>
        \o ForRecoverable("initial connect", clientShouldRetryAfterErrorOnInitialConnect)
        \o ForRecoverable("reconnect", clientShouldRetryAfterErrorOnReconnect)
        \o ForUnexpected(LAMBDA status : doNotRetryOnInitialConnect(
                                            legacy("initial connect"), status, seconds(10)))
        \o ForUnexpected(LAMBDA status : doNotRetryOnReconnect(
                                            legacy("reconnect"), status, seconds(10)))

PollRetryCase(test) ==
    [RetryCase EXCEPT !.test = test, !.polling = TRUE,
        !.needs = {"server-side-polling", "retry-conformance-fdv1-polling", "long-running"}]

retryAfterUnexpectedErrorOnInitialPoll(status) ==
    [PollRetryCase("retry after unexpected HTTP error on initial poll") EXCEPT
        !.handlers = <<HandlerWithStatus(status), Handler(1)>>,
        !.script = <<NewRetryClient(TRUE), RequireConnection(seconds(15)),
                     RequireConnection(extendedRegimeConnectionTimeout),
                     pollUntilFlagValueUpdated(0, 1)>>]

returnsToNormalCadence ==
    [PollRetryCase("returns to normal-regime cadence after two consecutive successful polls") EXCEPT
        !.handlers = <<HandlerWithStatus(401), Handler(1), Handler(1), Handler(1)>>,
        !.script = <<NewRetryClient(TRUE), RequireConnection(seconds(15))>>
                   \o Connections(2, extendedRegimeConnectionTimeout)
                   \o <<RequireConnection(seconds(60))>>]

doServerSidePollRetryTests ==
    Append(ForUnexpected(retryAfterUnexpectedErrorOnInitialPoll), returnsToNormalCadence)

ServerSideRetryCases == doServerSideStreamRetryTests \o doServerSidePollRetryTests

RetryCases ==
    IF suite = "client-side retry" THEN doClientSideStreamRetryTests ELSE ServerSideRetryCases

-------------------------------------------------------------------------------
(* The SDK: what the tests rely on, and the defects that they are about.   *)

\* Those that stop after errors from which an SDK should recover.
StopsAfter ==
    [stopsAfterIOError |-> {IOError}, stopsAfter400 |-> {400}, stopsAfter408 |-> {408},
     stopsAfter429 |-> {429}, stopsAfterServerError |-> {500, 503}]
StopDefects ==
    [d \in DOMAIN StopsAfter |->
        IF d = "stopsAfterIOError" THEN "retry after IO error on initial connect"
        ELSE "retry after recoverable HTTP error on initial connect"]

\* The defects that the tests of both kinds of SDK are about.
CommonRetryDefects ==
    StopDefects @@
    [doesNotReconnect |-> "retry after stream is closed",
     keepsOldData |-> "retry after stream is closed",
     connectsTwice |-> "retry after IO error on initial connect",
     retriesOnce |-> "retry after IO error on initial connect",
     constantDefaultDelay |-> Unnoticed]

ServerSideRetryDefects ==
    CommonRetryDefects @@
    [retriesAtOnce |-> "initial retry delay is applied",
     stopsAfterReconnectError |-> "retry after IO error on reconnect",
     ignoresRetryDelay |-> "retry after IO error on reconnect",
     retriesUnexpected |-> "do not retry after unexpected HTTP error on reconnect",
     stopsAfterUnexpected |-> "retry after unexpected HTTP error on initial connect",
     staysInNormalRegime |-> "enters extended-regime backoff after unexpected HTTP error",
     stopsAfterTwoUnexpected |-> Unnoticed,
     staysInExtendedRegime |-> "returns to normal-regime backoff after healthy operation",
     leavesExtendedRegimeAtOnce |-> Unnoticed,
     stopsPolling |-> "retry after unexpected HTTP error on initial poll",
     pollsInNormalRegime |-> Unnoticed,
     pollsInExtendedRegime |->
         "returns to normal-regime cadence after two consecutive successful polls"]

\* Not every client-side SDK lets its retry delay be configured.  The first
\* stream of one for JavaScript, which has its first data already, may be cancelled
\* before the SDK has connected, so that no test is sure to see an error after it.
ClientSideRetryDefects ==
    CommonRetryDefects @@
    [ignoresRetryDelay |-> Unnoticed,
     retriesUnexpected |-> "do not retry after unrecoverable HTTP error on initial connect"]

ThisRetryCase == RetryCases[position]
Interval(least, most) == [least |-> least, most |-> most]
AtOnce == Interval(0, 0)

\* A delay is subject to jitter of up to one half.
Jittered(delay) == Interval(delay \div 2, delay)
ExtendedDelay == Jittered(minutes(5))
PollDelay == Interval(seconds(30), seconds(30))

\* The delay doubles with each attempt.
Backoff(attempts) ==
    LET default == sdk \in {"ignoresRetryDelay", "constantDefaultDelay"}
        initial == IF default THEN seconds(1) ELSE ThisRetryCase.retryDelay
    IN  IF sdk = "retriesAtOnce" THEN AtOnce
        ELSE IF sdk = "constantDefaultDelay" THEN Jittered(initial)
        ELSE Jittered(initial * 2^attempts)

RetryConformance ==
    "retry-conformance-fdv1-" \o (IF ThisRetryCase.polling THEN "polling" ELSE "streaming")
        \in capabilities

\* Whether the error ends the data source for good.
Stops(r, status) ==
    \/ sdk \in DOMAIN StopsAfter /\ status \in StopsAfter[sdk]
    \/ sdk = "stopsAfterReconnectError" /\ r.answered > 0
    \/ sdk = "retriesOnce" /\ r.requests > 1
    \/ /\ status \in ToSet(unexpectedErrors)
       /\ IF RetryConformance
          THEN \/ sdk = "stopsAfterUnexpected" /\ ~ThisRetryCase.polling
               \/ sdk = "stopsPolling" /\ ThisRetryCase.polling
               \/ sdk = "stopsAfterTwoUnexpected" /\ r.requests > r.answered + 1
          ELSE sdk # "retriesUnexpected"

\* The next attempt, after a stream that was open for r.open.
Reconnect(r, extended) ==
    LET healthy == r.open >= minutes(1)
        stays == sdk = "staysInExtendedRegime"
        leaves == sdk = "leavesExtendedRegimeAtOnce" /\ r.answered > 0
        regime == extended \/ (r.extended /\ (stays \/ ~healthy) /\ ~leaves)
        attempts == IF healthy THEN 0 ELSE r.attempts
    IN  [r EXCEPT !.link = "waiting", !.open = 0, !.extended = regime,
                  !.attempts = attempts + 1,
                  !.due = IF regime THEN ExtendedDelay
                          ELSE IF ThisRetryCase.polling THEN PollDelay ELSE Backoff(attempts)]

\* The stream was closed by the other side.
StreamClosed(r) ==
    IF sdk = "doesNotReconnect" THEN [r EXCEPT !.link = "stopped"] ELSE Reconnect(r, FALSE)

\* The answer is an error.
RequestFailed(r, status) ==
    LET ignores == IF ThisRetryCase.polling THEN "pollsInNormalRegime" ELSE "staysInNormalRegime"
    IN  IF Stops(r, status) THEN [r EXCEPT !.link = "stopped"]
        ELSE Reconnect(r, RetryConformance /\ status \in ToSet(unexpectedErrors) /\ sdk # ignores)

\* The answer is data.  A poll is followed by another; in the extended regime
\* the normal cadence returns after the first success or after the second.
RequestSucceeded(r, version) ==
    LET new == [r EXCEPT !.answered = @ + 1,
                   !.value = IF sdk = "keepsOldData" /\ r.value # 0 THEN @ ELSE version]
        polls(extended) == [new EXCEPT !.link = "waiting", !.extended = extended,
                               !.due = IF extended THEN ExtendedDelay ELSE PollDelay]
    IN  IF ThisRetryCase.polling
        THEN {polls(e) : e \in IF ~r.extended THEN {FALSE}
                               ELSE IF sdk = "pollsInExtendedRegime" THEN {TRUE}
                               ELSE IF new.answered = 1 THEN BOOLEAN ELSE {FALSE}}
        ELSE IF sdk = "connectsTwice" /\ r.attempts > 0
        THEN {[new EXCEPT !.link = "waiting", !.due = Backoff(0)]}
        ELSE {[new EXCEPT !.link = "open", !.open = 0]}

\* A client-side SDK for JavaScript polls its first data before it connects.
InitialValue ==
    IF suite = "client-side retry" /\ "js-client-side" \in capabilities THEN 1 ELSE 0

-------------------------------------------------------------------------------
(* The steps of a test. *)

LaunchRetry(c) ==
    [at |-> "script", step |-> 1, ok |-> TRUE, requests |-> 0, newConns |-> <<>>, taken |-> <<>>,
     link |-> "waiting", due |-> AtOnce, attempts |-> 0, extended |-> FALSE, open |-> 0,
     answered |-> 0, value |-> InitialValue]

InRetryScript == run.at = "script" /\ run.step <= Len(ThisRetryCase.script)
ThisRetryStep == ThisRetryCase.script[run.step]

\* The test need not wait any longer.
Met ==
    \/ ThisRetryStep.do \in {"connection", "no connection"} /\ run.newConns # <<>>
    \/ ThisRetryStep.do = "updated" /\ run.value = ThisRetryStep.updated
    \/ ThisRetryStep.do = "client" /\ (run.value # 0 \/ ThisRetryStep.initCanFail)

\* The SDK sends a request, which the endpoint announces (serveHTTP).
SendRequest ==
    /\ InRetryScript
    /\ run.link = "waiting" /\ run.requests < MaxRequests
    /\ run.due.least < IF Met THEN Slack ELSE ThisRetryStep.timeout
    /\ During([run EXCEPT !.link = "requesting", !.requests = @ + 1,
                          !.newConns = Append(@, run.requests + 1)])

\* The handler of the request answers, and the SDK takes the answer in.
AnswerRequest ==
    /\ InRetryScript /\ run.link = "requesting"
    /\ LET n == Min({run.requests, Len(ThisRetryCase.handlers)})
           handler == ThisRetryCase.handlers[n]
       IN  IF handler.data = {} THEN During(RequestFailed(run, handler.status))
           ELSE \E version \in handler.data : \E next \in RequestSucceeded(run, version) :
                    During(next)

\* Nothing that the SDK still does is sure to come within the time.
Settled(time) ==
    \/ run.link \in {"open", "stopped"}
    \/ run.link = "waiting" /\ (run.due.most + Slack >= time \/ run.requests = MaxRequests)

\* The time has passed without a request.
Elapsed(time) ==
    [run EXCEPT
        !.due = Interval(Max({0, @.least - time}), Max({0, @.most - time})),
        !.open = IF run.link = "open" THEN @ + time ELSE @]

NextStep(r) == During([r EXCEPT !.step = @ + 1])
FailNow == Verdict(ThisRetryCase, FALSE)
DoingStep(do) == InRetryScript /\ ThisRetryStep.do = do

NewSDKClient ==
    /\ DoingStep("client")
    /\ \/ Met /\ NextStep(run)
       \/ ~Met /\ Settled(ThisRetryStep.timeout) /\ FailNow

EvaluateAllFlags ==
    /\ DoingStep("value")
    /\ NextStep([run EXCEPT !.ok = @ /\ run.value = ThisRetryStep.version])

AwaitConnection ==
    /\ DoingStep("connection")
    /\ \/ /\ Met
          /\ NextStep([run EXCEPT !.newConns = Tail(@), !.taken = Append(@, Head(run.newConns))])
       \/ ~Met /\ Settled(ThisRetryStep.timeout) /\ FailNow

AwaitNoConnection ==
    /\ DoingStep("no connection")
    /\ \/ Met /\ FailNow
       \/ /\ ~Met /\ Settled(ThisRetryStep.timeout)
          /\ NextStep(Elapsed(ThisRetryStep.timeout))

\* The handler's context is done; an SDK that has its answer does not notice
\* unless the answer is a stream.
CancelRequest ==
    /\ DoingStep("cancel")
    /\ IF run.taken[ThisRetryStep.nth] = run.requests /\ run.link \in {"requesting", "open"}
       THEN NextStep(StreamClosed(run)) ELSE NextStep(run)

TimeSleep ==
    /\ DoingStep("sleep") /\ Settled(ThisRetryStep.timeout)
    /\ NextStep(Elapsed(ThisRetryStep.timeout))

\* checkForUpdatedValue, again and again.
PollUntilUpdated ==
    /\ DoingStep("updated")
    /\ \/ Met /\ NextStep(run)
       \/ run.value \notin {ThisRetryStep.updated} \cup ThisRetryStep.previous /\ FailNow
       \/ /\ run.value \in ThisRetryStep.previous
          /\ Settled(ThisRetryStep.timeout) /\ FailNow

EndRetryTest ==
    /\ run.at = "script" /\ run.step > Len(ThisRetryCase.script)
    /\ Verdict(ThisRetryCase, run.ok)

RetryNext ==
    /\ suite \in {"server-side retry", "client-side retry"}
    /\ \/ Begin(RetryCases, LaunchRetry)
       \/ SendRequest
       \/ AnswerRequest
       \/ NewSDKClient
       \/ EvaluateAllFlags
       \/ AwaitConnection
       \/ AwaitNoConnection
       \/ CancelRequest
       \/ TimeSleep
       \/ PollUntilUpdated
       \/ EndRetryTest

\* The tests of retries pass for an SDK that conforms, whenever within its delay
\* it connects and whether the test or the SDK is faster, and each defect fails
\* the test that is about it.
RetryTestsTellApart ==
    /\ TellsApart("server-side retry", ServerSideRetryCases, ServerSideRetryDefects)
    /\ TellsApart("client-side retry", doClientSideStreamRetryTests, ClientSideRetryDefects)
=================================================================================
