------------------------------- MODULE TestScope -------------------------------
(***************************************************************************)
(* The test scopes of a run (framework/ldtest/test_scope.go), the results  *)
(* they add up to (result.go), what the loggers make of them               *)
(* (junit_test_logger.go, test_logger.go) and how the run ends (main.go).  *)
(*                                                                         *)
(* All tests run in one goroutine, each subtest within its parent, so that *)
(* the scopes form a stack.  A test stands for its number in the order of  *)
(* TestStarted: the names of the suite's tests are distinct.  The root     *)
(* scope, which only runs subtests, is test 0.  Of the errors of a test    *)
(* only whether there are any is kept.                                     *)
(***************************************************************************)
EXTENDS Integers, Sequences, FiniteSets

CONSTANTS MaxDepth,   \* bound on the nesting of tests
          MaxTests    \* bound on the number of tests

ASSUME BoundsAssumption == MaxDepth \in Nat \ {0} /\ MaxTests \in Nat \ {0}

VARIABLES
    scopes,    \* the running test scopes (T), innermost last
    results,   \* environment.results
    junit,     \* JUnitTestLogger.tests
    counts,    \* CountingTestLogger
    outcome    \* how the run ended: its exit code, and the recorded failures

scopeVars == <<scopes, results, junit, counts, outcome>>

NoStatus == [failures |-> FALSE, skipped |-> FALSE, nonCritical |-> FALSE]
NewScope(id) == [id |-> id, phase |-> "running", nonCritical |-> FALSE,
                 failed |-> FALSE, errors |-> FALSE, cleanups |-> <<>>]
Running == [exit |-> -1, recorded |-> <<>>]

Top == scopes[Len(scopes)]
WithoutTop == SubSeq(scopes, 1, Len(scopes) - 1)
SetTop(t) == scopes' = [scopes EXCEPT ![Len(scopes)] = t]

\* A test function is running, and it is not that of the root scope.
InTest == Len(scopes) > 1 /\ Top.phase = "running"

\* A service that is neither client-side nor server-side has no suite: the
\* run consists of one failure.
ScopeInit ==
    /\ \/ /\ scopes = <<NewScope(0)>>
          /\ results = [Tests |-> <<>>, Failures |-> <<>>, NonCriticalFailures |-> <<>>]
       \/ /\ scopes = <<>>
          /\ results = [Tests |-> <<>>, Failures |-> <<0>>, NonCriticalFailures |-> <<>>]
    /\ junit = [n \in {0} |-> NoStatus]
    /\ counts = [total |-> 0, skipped |-> 0]
    /\ outcome = Running

-------------------------------------------------------------------------------
(* T.Run, for a test that the filter includes and for one that it excludes. *)

\* Fault: the JUnit logger is not told of the new test.
TestStarted_CountedOnly(status) ==
    /\ scopes # <<>>
    /\ Top.phase = "running"
    /\ counts.total < MaxTests
    /\ UNCHANGED junit

\* Both loggers are told of the new test.
TestStarted(status) ==
    /\ scopes # <<>>
    /\ Top.phase = "running"
    /\ counts.total < MaxTests
    /\ junit' = [n \in DOMAIN junit \union {counts.total + 1} |->
                    IF n = counts.total + 1 THEN status ELSE junit[n]]

StartTest ==
    /\ Len(scopes) <= MaxDepth
    /\ TestStarted(NoStatus)
    /\ counts' = [counts EXCEPT !.total = @ + 1]
    /\ scopes' = Append(scopes, NewScope(counts.total + 1))
    /\ UNCHANGED <<results, outcome>>

ExcludeTest ==
    /\ TestStarted([NoStatus EXCEPT !.skipped = TRUE])
    /\ counts' = [total |-> counts.total + 1, skipped |-> counts.skipped + 1]
    /\ UNCHANGED <<scopes, results, outcome>>

-------------------------------------------------------------------------------
(* What a running test calls. *)

NonCritical ==
    /\ InTest
    /\ SetTop([Top EXCEPT !.nonCritical = TRUE])
    /\ UNCHANGED <<results, junit, counts, outcome>>

Errorf ==
    /\ InTest
    /\ SetTop([Top EXCEPT !.failed = TRUE, !.errors = TRUE])
    /\ junit' = [junit EXCEPT ![Top.id].failures = TRUE]
    /\ UNCHANGED <<results, counts, outcome>>

\* Fault: the skipped test is not told apart from one that ran.
Skip_Finished ==
    /\ InTest
    /\ scopes' = WithoutTop
    /\ junit' = [junit EXCEPT ![Top.id].skipped = TRUE]
    /\ UNCHANGED <<results, counts, outcome>>

\* Skip, SkipWithReason, RequireCapability, LongRunning: the panic is recovered
\* by T.run, which returns at once.
Skip ==
    /\ InTest
    /\ scopes' = WithoutTop
    /\ counts' = [counts EXCEPT !.skipped = @ + 1]
    /\ junit' = [junit EXCEPT ![Top.id].skipped = TRUE]
    /\ UNCHANGED <<results, outcome>>

-------------------------------------------------------------------------------
(* The end of a test function, recovered and recorded by T.run. *)

\* Fault: FailNow without a message leaves no error.
Leave_NoMessage(error, panicked) ==
    LET t == [Top EXCEPT !.phase = "cleanup", !.failed = @ \/ panicked \/ error,
                         !.errors = @ \/ error]
        Into(list) == [results EXCEPT !.Tests = Append(@, t.id), ![list] = Append(@, t.id)]
    IN  /\ SetTop(t)
        /\ junit' = [junit EXCEPT ![t.id].failures = t.errors]
        /\ results' = IF ~t.failed THEN [results EXCEPT !.Tests = Append(@, t.id)]
                      ELSE IF t.nonCritical THEN Into("NonCriticalFailures")
                      ELSE Into("Failures")

\* "error" says that the test reported an error as it ended, "panicked" that
\* its function did not return; a panic adds an error where there is none.
Leave(error, panicked) ==
    LET t == [Top EXCEPT !.phase = "cleanup", !.failed = @ \/ panicked \/ error,
                         !.errors = @ \/ panicked \/ error]
        Into(list) == [results EXCEPT !.Tests = Append(@, t.id), ![list] = Append(@, t.id)]
    IN  /\ SetTop(t)
        /\ junit' = [junit EXCEPT ![t.id].failures = t.errors]
        /\ results' = IF ~t.failed THEN [results EXCEPT !.Tests = Append(@, t.id)]
                      ELSE IF t.nonCritical THEN Into("NonCriticalFailures")
                      ELSE Into("Failures")

Return ==
    /\ scopes # <<>>
    /\ Top.phase = "running"
    /\ Leave(FALSE, FALSE)
    /\ UNCHANGED <<counts, outcome>>

\* FailNow, or any other panic.
Panic ==
    /\ InTest
    /\ Leave(FALSE, TRUE)
    /\ UNCHANGED <<counts, outcome>>

\* Fault: the test is entered in the results when it has ended, too.
EndOfCleanups_RecordsAgain ==
    /\ scopes # <<>>
    /\ Top.phase = "cleanup"
    /\ Top.cleanups = <<>>
    /\ scopes' = WithoutTop
    /\ junit' = [junit EXCEPT ![Top.id].nonCritical = Top.id # 0 /\ Top.failed /\ Top.nonCritical]
    /\ results' = IF Top.failed THEN [results EXCEPT !.Failures = Append(@, Top.id)] ELSE results
    /\ UNCHANGED <<counts, outcome>>

\* The cleanups have run: TestFinished, except for the root scope.
EndOfCleanups ==
    /\ scopes # <<>>
    /\ Top.phase = "cleanup"
    /\ Top.cleanups = <<>>
    /\ scopes' = WithoutTop
    /\ junit' = [junit EXCEPT ![Top.id].nonCritical = Top.id # 0 /\ Top.failed /\ Top.nonCritical]
    /\ UNCHANGED <<results, counts, outcome>>

\* Fault: main looks at the errors of the log only.
EndRun_IgnoresResults ==
    /\ scopes = <<>>
    /\ outcome = Running
    /\ \/ outcome' = [exit |-> 0, recorded |-> results.Failures]
       \/ outcome' = [exit |-> 1, recorded |-> <<>>]
    /\ UNCHANGED <<scopes, results, junit, counts>>

\* EndLog and the end of main: the run fails also if a file cannot be written,
\* and a report that cannot be written leaves no recorded failures either.
EndRun ==
    /\ scopes = <<>>
    /\ outcome = Running
    /\ \/ outcome' = [exit |-> IF results.Failures = <<>> THEN 0 ELSE 1,
                      recorded |-> results.Failures]
       \/ outcome' = [exit |-> 1, recorded |-> <<>>]
    /\ UNCHANGED <<scopes, results, junit, counts>>

\* The test cases with a failure in the report that EndLog writes.
JUnitFailures == {n \in 1..counts.total : junit[n].failures}

-------------------------------------------------------------------------------
ScopeTypeOK ==
    /\ \A d \in 1..Len(scopes) :
          /\ scopes[d].id \in 0..counts.total
          /\ scopes[d].phase \in {"running", "cleanup"}
          /\ scopes[d].phase = "cleanup" => d = Len(scopes)
          /\ scopes[d].id = 0 <=> d = 1
    /\ Len(scopes) <= MaxDepth + 1
    /\ results \in [Tests : Seq(Nat), Failures : Seq(Nat), NonCriticalFailures : Seq(Nat)]
    /\ junit \in [0..counts.total ->
                    [failures : BOOLEAN, skipped : BOOLEAN, nonCritical : BOOLEAN]]
    /\ counts \in [total : 0..MaxTests, skipped : 0..MaxTests]
    /\ outcome.exit \in {-1, 0, 1}

In(list, n) == \E i \in 1..Len(list) : list[i] = n
OnStack(n) == \E d \in 1..Len(scopes) : scopes[d].id = n

\* The JUnit report shows a failure for a test that ran exactly if the results
\* have it as a failure, and marks it as non-critical exactly if it is there
\* as one.  Errors reach the report one by one, the results as a whole.
ReportsAgree ==
    \A n \in 1..counts.total :
        ~OnStack(n) /\ ~junit[n].skipped =>
            /\ n \in JUnitFailures <=>
                  In(results.Failures, n) \/ In(results.NonCriticalFailures, n)
            /\ junit[n].nonCritical <=> In(results.NonCriticalFailures, n)

\* The places in the stack of the tests whose function is running, and in the
\* results of those that ran; the root is no test.
OpenTests == {d \in 1..Len(scopes) : scopes[d].id # 0 /\ scopes[d].phase = "running"}
RanTests == {i \in 1..Len(results.Tests) : results.Tests[i] # 0}

\* The summary that main prints: each test that was started is open, was
\* skipped, or ran and has exactly one result, also when it is excluded by the
\* filter or panics.
SummaryAddsUp ==
    /\ counts.total = counts.skipped + Cardinality(OpenTests) + Cardinality(RanTests)
    /\ \A i, j \in 1..Len(results.Tests) : results.Tests[i] = results.Tests[j] => i = j

\* The exit code: a run that ends with 0 had no test with an error but
\* non-critical and skipped ones.
ExitTellsFailures ==
    outcome.exit = 0 =>
        \A n \in JUnitFailures : junit[n].nonCritical \/ junit[n].skipped

\* What scopes and results say of the tests.
contractVerdict ==
    [n \in 0..MaxTests |->
        IF n > counts.total THEN "none"
        ELSE IF \E d \in 1..Len(scopes) : scopes[d].id = n /\ scopes[d].phase = "running"
             THEN "running"
        ELSE IF In(results.Failures, n) THEN "failed"
        ELSE IF In(results.NonCriticalFailures, n) THEN "excused"
        ELSE IF In(results.Tests, n) THEN "passed" ELSE "skipped"]

Contract == INSTANCE TestRunContract WITH verdict <- contractVerdict, exit <- outcome.exit

\* However tests nest, panic and are skipped, each gets one verdict, for good and
\* after the tests within it, and the exit code is that of the verdicts.
ImplementsContract == Contract!Spec
===============================================================================
