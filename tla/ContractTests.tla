------------------------------ MODULE ContractTests ------------------------------
(***************************************************************************)
(* What the suites of contract tests in sdktests/ have in common.  A suite *)
(* is a sequence of cases, the leaves of its t.Run calls in the order of   *)
(* the code; a case fixes what the harness asks of the SDK and what it     *)
(* expects to see ("expect": only the fields that the test looks at).  The *)
(* SDK is external: it conforms, or has one defect that a test of the      *)
(* suite is about.                                                         *)
(*                                                                         *)
(* Optional values are sets with at most one element.                      *)
(***************************************************************************)
EXTENDS Integers, Sequences, FiniteSets
LOCAL INSTANCE FiniteSetsExt

CONSTANT Setups \* the suites to run: [suite, capabilities] records

VARIABLES
    suite,         \* the suite that runs
    capabilities,  \* what the test service says that the SDK can do
    sdk,           \* Conforming, or the SDK's defect
    position,      \* how many cases have been started
    run,           \* the state of the case that runs; each suite has its own
    failed         \* the names of the tests with a failed assertion

vars == <<suite, capabilities, sdk, position, run, failed>>
setup == <<suite, capabilities, sdk>>

Conforming == "conforming"
Idle == [at |-> "idle"]

\* The elements of S one after another, in some fixed order: the subtests of
\* one table, of which none depends on another.
Listed(S) == FoldSet(LAMBDA x, s : Append(s, x), <<>>, S)

\* A test looks at some fields of what it sees and at no others.
Agrees(expected, seen) ==
    \A f \in DOMAIN expected : f \in DOMAIN seen /\ seen[f] = expected[f]

\* RequireCapability, and the cases that are left out for a capability.
Runs(case) ==
    case.needs \subseteq capabilities /\ case.unless \intersect capabilities = {}

\* T.Run of the next case, which may be skipped.
Begin(cases, Launch(_)) ==
    /\ run.at = "idle"
    /\ position < Len(cases)
    /\ position' = position + 1
    /\ run' = IF Runs(cases[position']) THEN Launch(cases[position']) ELSE run
    /\ UNCHANGED <<setup, failed>>

\* The SDK or a handler of the harness takes a step within the case.
During(next) == run' = next /\ UNCHANGED <<setup, position, failed>>

\* The test function returns, with or without a failed assertion.  What it
\* leaves behind is there when the next case starts.
VerdictLeaving(case, passed, left) ==
    /\ run' = left
    /\ failed' = IF passed THEN failed ELSE failed \cup {case.test}
    /\ UNCHANGED <<setup, position>>

Verdict(case, passed) == VerdictLeaving(case, passed, Idle)

Done(cases) == position = Len(cases) /\ run.at = "idle"

\* The name that stands for the test of a defect that no test fails for.
Unnoticed == "unnoticed"

\* The tests of a suite tell SDKs apart: one that conforms passes every test but
\* perhaps those given, and each defect fails the test that is about it, if that
\* test runs at all.  A few defects are known to go unnoticed.
TellsApartBut(fragile, name, cases, caughtBy) ==
    suite = name =>
        /\ sdk = Conforming \/ caughtBy[sdk] = Unnoticed => failed \subseteq fragile
        /\ /\ sdk # Conforming
           /\ Done(cases)
           /\ \E i \in DOMAIN cases : cases[i].test = caughtBy[sdk] /\ Runs(cases[i])
           => caughtBy[sdk] \in failed

TellsApart(name, cases, caughtBy) == TellsApartBut({}, name, cases, caughtBy)
=================================================================================
