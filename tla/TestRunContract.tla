---------------------------- MODULE TestRunContract ----------------------------
(***************************************************************************)
(* What a run of tests promises, without saying how scopes, results and    *)
(* loggers keep track of it: every test gets one verdict, which is final,  *)
(* a test gets its verdict after all tests that it started, and the exit   *)
(* code is 0 only if no verdict is a failure.  TestScope, as SDKClients    *)
(* uses it, refines this specification.                                    *)
(***************************************************************************)
EXTENDS Integers

CONSTANT MaxTests  \* bound on the number of tests

VARIABLES verdict,  \* verdict[n]: of the n-th test that was started; 0 is the root
          exit      \* the exit code, or -1 while the run goes on

contractVars == <<verdict, exit>>

Verdicts == {"passed", "failed", "excused", "skipped"}
Running(n) == verdict[n] = "running"

Init ==
    /\ \E root \in {"running", "failed"} :
           verdict = [n \in 0..MaxTests |-> IF n = 0 THEN root ELSE "none"]
    /\ exit = -1

\* A test starts within one that runs, or is left out by the filter.
Start(n) ==
    /\ \E m \in 0..MaxTests : Running(m)
    /\ verdict[n - 1] # "none" /\ verdict[n] = "none"
    /\ \E v \in {"running", "skipped"} : verdict' = [verdict EXCEPT ![n] = v]
    /\ UNCHANGED exit

\* The test that was started last and still runs ends.
End(n) ==
    /\ Running(n)
    /\ \A m \in 0..MaxTests : m > n => ~Running(m)
    /\ \E v \in Verdicts : verdict' = [verdict EXCEPT ![n] = v]
    /\ UNCHANGED exit

Exit ==
    /\ exit = -1
    /\ \A n \in 0..MaxTests : ~Running(n)
    /\ exit' \in {0, 1}
    /\ exit' = 0 => \A n \in 0..MaxTests : verdict[n] # "failed"
    /\ UNCHANGED verdict

Next ==
    \/ \E n \in 1..MaxTests : Start(n)
    \/ \E n \in 0..MaxTests : End(n)
    \/ Exit

Spec == Init /\ [][Next]_contractVars
===============================================================================
