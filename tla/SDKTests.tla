-------------------------------- MODULE SDKTests --------------------------------
(***************************************************************************)
(* The suites of contract tests (sdktests/testsuite_entry_point.go), each  *)
(* with an SDK that conforms and with SDKs that have one defect.           *)
(***************************************************************************)
EXTENDS MigrationTests, HookTests, CommonEventTests, BigSegmentTests, RetryTests,
        PersistenceTests

CasesOf(s) ==
    CASE s = "migrations" -> MigrationCases
      [] s = "hooks" -> HookCases
      [] s = "server-side events" -> doServerSideEventTests
      [] s = "client-side events" -> doClientSideEventTests
      [] s = "php events" -> doPHPEventTests
      [] s = "big segments" -> BigSegmentCases
      [] s = "server-side retry" -> ServerSideRetryCases
      [] s = "client-side retry" -> doClientSideStreamRetryTests
      [] s \in {"redis", "consul", "dynamodb"} -> PersistenceCases

DefectsOf(s) ==
    CASE s = "migrations" -> MigrationDefects
      [] s = "hooks" -> HookDefects
      [] s = "server-side events" -> ServerSideEventDefects
      [] s = "client-side events" -> ClientSideEventDefects
      [] s = "php events" -> PHPEventDefects
      [] s = "big segments" -> BigSegmentDefects
      [] s = "server-side retry" -> ServerSideRetryDefects
      [] s = "client-side retry" -> ClientSideRetryDefects
      [] s \in {"redis", "consul", "dynamodb"} -> PersistenceDefects(s)

Init ==
    /\ \E s \in Setups : suite = s.suite /\ capabilities = s.capabilities
    /\ sdk \in {Conforming} \cup DOMAIN DefectsOf(suite)
    /\ position = 0
    /\ run = Idle
    /\ failed = {}

\* All tests of the suite have run; nothing else may stop it.
Finished == Done(CasesOf(suite)) /\ UNCHANGED vars

Next ==
    \/ MigrationNext
    \/ HookNext
    \/ EventNext
    \/ BigSegmentNext
    \/ RetryNext
    \/ PersistenceNext
    \/ Finished
Spec == Init /\ [][Next]_vars
=================================================================================
