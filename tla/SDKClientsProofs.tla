--------------------------- MODULE SDKClientsProofs ---------------------------
(***************************************************************************)
(* Proofs about SDKClients, and with it about TestScope, for any set of    *)
(* clients, any number of tests and any depth of nesting.                  *)
(***************************************************************************)
EXTENDS SDKClients, FiniteSetTheorems, SequenceTheorems, TLAPS

Scope == [id : Nat, phase : {"running", "cleanup"}, nonCritical : BOOLEAN,
          failed : BOOLEAN, errors : BOOLEAN, cleanups : Seq(Clients)]
Status == [failures : BOOLEAN, skipped : BOOLEAN, nonCritical : BOOLEAN]

\* The scopes form a stack of different tests that have been started, below
\* them the root; only the innermost can be at its cleanups.  A test has errors
\* exactly if it has failed.
StackInv ==
    /\ scopes \in Seq(Scope)
    /\ Len(scopes) <= MaxDepth + 1
    /\ \A d \in 1..Len(scopes) :
          /\ scopes[d].id <= counts.total
          /\ scopes[d].phase = "cleanup" => d = Len(scopes)
          /\ scopes[d].id = 0 <=> d = 1
          /\ scopes[d].errors = scopes[d].failed
    /\ \A d, e \in 1..Len(scopes) : scopes[d].id = scopes[e].id => d = e

\* A test is counted as skipped once, and not while it is open.
CountInv ==
    /\ counts \in [total : 0..MaxTests, skipped : Nat]
    /\ counts.skipped <= counts.total
    /\ counts.skipped + Len(scopes) <= counts.total + 1

\* The reports are about tests that have been started.
ReportInv ==
    /\ junit \in [0..counts.total -> Status]
    /\ results \in [Tests : Seq(Nat), Failures : Seq(Nat), NonCriticalFailures : Seq(Nat)]
    /\ \A n \in Nat : In(results.Failures, n) \/ In(results.NonCriticalFailures, n) =>
                          n <= counts.total

\* The run ends when all scopes have ended.
OutcomeInv == outcome.exit \in {-1, 0, 1} /\ (outcome.exit # -1 => scopes = <<>>)

ScopeInv == StackInv /\ CountInv /\ ReportInv /\ OutcomeInv

-------------------------------------------------------------------------------
(* What happens to the stack. *)

LEMMA TopIs ==
    ASSUME StackInv, scopes # <<>>
    PROVE  /\ Len(scopes) \in Nat \ {0}
           /\ Top = scopes[Len(scopes)] /\ Top \in Scope
           /\ Top.id \in 0..counts.total
           /\ Top.errors = Top.failed
  <1>1. Len(scopes) \in Nat \ {0} /\ Len(scopes) \in 1..Len(scopes)
    BY DEF StackInv
  <1>2. Top = scopes[Len(scopes)]
    BY DEF Top
  <1>3. scopes[Len(scopes)] \in Scope
    BY <1>1 DEF StackInv
  <1>4. scopes[Len(scopes)].id \in Nat
    BY <1>3 DEF Scope
  <1>5. scopes[Len(scopes)].id <= counts.total
    BY <1>1 DEF StackInv
  <1>6. scopes[Len(scopes)].errors = scopes[Len(scopes)].failed
    BY <1>1, Zenon DEF StackInv
  <1> QED
    BY <1>1, <1>2, <1>3, <1>4, <1>5, <1>6

LEMMA ScopesAre ==
    ASSUME StackInv, NEW d \in 1..Len(scopes)
    PROVE  /\ scopes[d] \in Scope /\ scopes[d].id \in Nat /\ scopes[d].id <= counts.total
           /\ scopes[d].phase \in {"running", "cleanup"}
           /\ scopes[d].phase = "cleanup" => d = Len(scopes)
  <1>1. scopes[d] \in Scope
    BY DEF StackInv
  <1>2. scopes[d].id \in Nat /\ scopes[d].phase \in {"running", "cleanup"}
    BY <1>1 DEF Scope
  <1> QED
    BY <1>1, <1>2 DEF StackInv

LEMMA SetTopIs ==
    ASSUME StackInv, scopes # <<>>, NEW t \in Scope, SetTop(t)
    PROVE  /\ scopes' \in Seq(Scope) /\ Len(scopes') = Len(scopes)
           /\ \A d \in 1..Len(scopes) :
                  scopes'[d] = IF d = Len(scopes) THEN t ELSE scopes[d]
  BY TopIs DEF StackInv, SetTop

LEMMA WithoutTopIs ==
    ASSUME StackInv, scopes # <<>>, scopes' = WithoutTop
    PROVE  /\ scopes' \in Seq(Scope) /\ Len(scopes') = Len(scopes) - 1
           /\ \A d \in 1..Len(scopes) - 1 : scopes'[d] = scopes[d]
  <1>1. scopes \in Seq(Scope) /\ Len(scopes) \in Nat \ {0}
    BY TopIs DEF StackInv
  <1>2. /\ 1 \in Int /\ Len(scopes) - 1 \in Int
        /\ \A i \in 1..Len(scopes) - 1 : scopes[i] \in Scope
    BY <1>1
  <1>3. /\ SubSeq(scopes, 1, Len(scopes) - 1) \in Seq(Scope)
        /\ Len(SubSeq(scopes, 1, Len(scopes) - 1)) = Len(scopes) - 1
        /\ \A d \in 1..Len(scopes) - 1 : SubSeq(scopes, 1, Len(scopes) - 1)[d] = scopes[d]
    <2> DEFINE n == Len(scopes) - 1
    <2>1. n \in Nat
      BY <1>1
    <2>2. /\ SubSeq(scopes, 1, n) \in Seq(Scope)
          /\ Len(SubSeq(scopes, 1, n)) = IF 1 <= n THEN n - 1 + 1 ELSE 0
          /\ \A i \in 1..n - 1 + 1 : SubSeq(scopes, 1, n)[i] = scopes[1 + i - 1]
      BY <1>2, SubSeqProperties
    <2> HIDE DEF n
    <2>3. Len(SubSeq(scopes, 1, n)) = n
      BY <2>1, <2>2
    <2>4. \A d \in 1..n : SubSeq(scopes, 1, n)[d] = scopes[d]
      BY <2>1, <2>2
    <2> QED
      BY <2>2, <2>3, <2>4 DEF n
  <1> QED
    BY <1>3 DEF WithoutTop

LEMMA NewScopeIs ==
    ASSUME NEW n \in Nat
    PROVE  NewScope(n) \in Scope
  BY DEF NewScope, Scope

\* A scope that takes another state stays where it is in the stack.
LEMMA StackStep ==
    ASSUME StackInv, scopes # <<>>, NEW t \in Scope, SetTop(t),
           t.id = Top.id, t.errors = t.failed, counts'.total = counts.total
    PROVE  StackInv'
  BY TopIs, SetTopIs DEF StackInv

LEMMA PopStep ==
    ASSUME StackInv, scopes # <<>>, scopes' = WithoutTop, counts'.total = counts.total,
           MaxDepth \in Nat
    PROVE  StackInv'
  <1>1. Len(scopes) \in Nat \ {0}
    BY TopIs
  <1>2. \A d \in 1..Len(scopes') : scopes'[d] = scopes[d] /\ d \in 1..Len(scopes) /\ d # Len(scopes)
    BY <1>1, WithoutTopIs
  <1>3. scopes' \in Seq(Scope) /\ Len(scopes') <= MaxDepth + 1
    BY <1>1, WithoutTopIs DEF StackInv
  <1>4. ASSUME NEW d \in 1..Len(scopes')
        PROVE  /\ scopes'[d].id <= counts'.total
               /\ scopes'[d].phase = "cleanup" => d = Len(scopes')
               /\ scopes'[d].id = 0 <=> d = 1
               /\ scopes'[d].errors = scopes'[d].failed
    <2>1. scopes'[d] = scopes[d] /\ d \in 1..Len(scopes) /\ d # Len(scopes)
      BY <1>2
    <2>2. /\ scopes[d].id <= counts.total
          /\ scopes[d].phase = "cleanup" => d = Len(scopes)
          /\ scopes[d].id = 0 <=> d = 1
          /\ scopes[d].errors = scopes[d].failed
      BY <2>1, Zenon DEF StackInv
    <2> QED
      BY <2>1, <2>2
  <1>5. ASSUME NEW d \in 1..Len(scopes'), NEW e \in 1..Len(scopes'),
               scopes'[d].id = scopes'[e].id
        PROVE  d = e
    <2>1. /\ scopes[d].id = scopes[e].id
          /\ d \in 1..Len(scopes) /\ e \in 1..Len(scopes)
      BY <1>2, <1>5
    <2> QED
      BY <2>1, Zenon DEF StackInv
  <1> QED
    BY <1>3, <1>4, <1>5 DEF StackInv

-------------------------------------------------------------------------------
\* A test that ends goes to its cleanups, with its failure in the report and in
\* one of the lists of the results.
LEMMA LeaveIs ==
    ASSUME ScopeInv, scopes # <<>>, NEW error \in BOOLEAN, NEW panicked \in BOOLEAN,
           Leave(error, panicked)
    PROVE  \E t \in Scope :
               /\ SetTop(t)
               /\ t.id = Top.id /\ t.phase = "cleanup" /\ t.nonCritical = Top.nonCritical
               /\ t.errors = t.failed /\ t.cleanups = Top.cleanups
               /\ junit' = [junit EXCEPT ![Top.id].failures = t.failed]
               /\ results' \in [Tests : Seq(Nat), Failures : Seq(Nat),
                                NonCriticalFailures : Seq(Nat)]
               /\ results'.Tests = Append(results.Tests, t.id)
               /\ results'.Failures =
                      IF t.failed /\ ~t.nonCritical THEN Append(results.Failures, t.id)
                      ELSE results.Failures
               /\ results'.NonCriticalFailures =
                      IF t.failed /\ t.nonCritical
                      THEN Append(results.NonCriticalFailures, t.id)
                      ELSE results.NonCriticalFailures
  <1> DEFINE t == [Top EXCEPT !.phase = "cleanup", !.failed = @ \/ panicked \/ error,
                              !.errors = @ \/ panicked \/ error]
  <1>1. Top \in Scope /\ Top.errors = Top.failed
    BY TopIs DEF ScopeInv
  <1>2. t \in Scope
    BY <1>1 DEF Scope
  <1>3. /\ t.id = Top.id /\ t.phase = "cleanup" /\ t.nonCritical = Top.nonCritical
        /\ t.errors = t.failed /\ t.cleanups = Top.cleanups
    BY <1>1 DEF Scope
  <1>4. SetTop(t) /\ junit' = [junit EXCEPT ![Top.id].failures = t.failed]
    BY <1>3 DEF Leave
  <1>5. results \in [Tests : Seq(Nat), Failures : Seq(Nat), NonCriticalFailures : Seq(Nat)]
    BY DEF ScopeInv, ReportInv
  <1>6. t.id \in Nat /\ t.failed \in BOOLEAN /\ t.nonCritical \in BOOLEAN
    BY <1>2 DEF Scope
  <1>7. results' = IF ~t.failed THEN [results EXCEPT !.Tests = Append(@, t.id)]
                   ELSE IF t.nonCritical
                   THEN [results EXCEPT !.Tests = Append(@, t.id),
                                        !["NonCriticalFailures"] = Append(@, t.id)]
                   ELSE [results EXCEPT !.Tests = Append(@, t.id),
                                        !["Failures"] = Append(@, t.id)]
    BY DEF Leave
  <1> HIDE DEF t
  <1> DEFINE tests == Append(results.Tests, t.id)
             failures == Append(results.Failures, t.id)
             nonCriticals == Append(results.NonCriticalFailures, t.id)
  <1>8. /\ results.Failures \in Seq(Nat) /\ results.NonCriticalFailures \in Seq(Nat)
        /\ tests \in Seq(Nat) /\ failures \in Seq(Nat) /\ nonCriticals \in Seq(Nat)
    BY <1>5, <1>6
  <1>9. results' = [Tests |-> tests,
                    Failures |-> IF t.failed /\ ~t.nonCritical THEN failures ELSE results.Failures,
                    NonCriticalFailures |->
                        IF t.failed /\ t.nonCritical THEN nonCriticals
                        ELSE results.NonCriticalFailures]
    BY <1>5, <1>7
  <1>10. /\ results' \in [Tests : Seq(Nat), Failures : Seq(Nat), NonCriticalFailures : Seq(Nat)]
         /\ results'.Tests = tests
         /\ results'.Failures =
                IF t.failed /\ ~t.nonCritical THEN failures ELSE results.Failures
         /\ results'.NonCriticalFailures =
                IF t.failed /\ t.nonCritical THEN nonCriticals ELSE results.NonCriticalFailures
    <2> HIDE DEF tests, failures, nonCriticals
    <2> QED
      BY <1>8, <1>9
  <1> QED
    BY <1>2, <1>3, <1>4, <1>10

LEMMA InAppend ==
    ASSUME NEW list \in Seq(Nat), NEW x \in Nat, NEW n \in Nat
    PROVE  In(Append(list, x), n) <=> In(list, n) \/ n = x
  <1>1. /\ Len(Append(list, x)) = Len(list) + 1 /\ Len(list) \in Nat
        /\ Append(list, x)[Len(list) + 1] = x
        /\ \A i \in 1..Len(list) : Append(list, x)[i] = list[i]
    OBVIOUS
  <1> QED
    BY <1>1 DEF In

-------------------------------------------------------------------------------
\* What the reports say of a test that is still open: nothing while its function
\* runs but, perhaps, that it has errors; all there is to say when it has ended.
OpenInv ==
    \A d \in 2..Len(scopes) :
        LET t == scopes[d] IN
        /\ ~junit[t.id].skipped /\ ~junit[t.id].nonCritical
        /\ t.phase = "running" =>
               ~In(results.Failures, t.id) /\ ~In(results.NonCriticalFailures, t.id)
        /\ t.phase = "cleanup" =>
               /\ junit[t.id].failures <=> t.failed
               /\ In(results.Failures, t.id) <=> t.failed /\ ~t.nonCritical
               /\ In(results.NonCriticalFailures, t.id) <=> t.failed /\ t.nonCritical

\* The inductive invariant behind ReportsAgree and ExitTellsFailures.
AgreeInv == ScopeInv /\ OpenInv /\ ReportsAgree /\ ExitTellsFailures

LEMMA StartTestStep ==
    ASSUME AgreeInv, StartTest
    PROVE  AgreeInv'
  <1> DEFINE new == counts.total + 1
  <1>1. /\ scopes # <<>> /\ Top.phase = "running"
        /\ counts.total < MaxTests /\ Len(scopes) <= MaxDepth
        /\ scopes' = Append(scopes, NewScope(new))
        /\ junit' = [n \in DOMAIN junit \union {new} |-> IF n = new THEN NoStatus ELSE junit[n]]
        /\ counts' = [counts EXCEPT !.total = new]
        /\ UNCHANGED <<results, outcome>>
    BY DEF StartTest, TestStarted
  <1>2. /\ counts.total \in Nat /\ counts.total <= MaxTests /\ counts.skipped \in Nat
        /\ new \in Nat /\ MaxDepth \in Nat /\ MaxTests \in Nat
    BY BoundsAssumption DEF AgreeInv, ScopeInv, CountInv
  <1>3. /\ scopes' \in Seq(Scope) /\ Len(scopes') = Len(scopes) + 1
        /\ \A d \in 1..Len(scopes) : scopes'[d] = scopes[d]
        /\ scopes'[Len(scopes) + 1] = NewScope(new)
        /\ Len(scopes) \in Nat \ {0}
    BY <1>1, <1>2, NewScopeIs, TopIs DEF AgreeInv, ScopeInv, StackInv
  <1>4. /\ counts' \in [total : 0..MaxTests, skipped : Nat]
        /\ counts'.total = new /\ counts'.skipped = counts.skipped
    BY <1>1, <1>2 DEF AgreeInv, ScopeInv, CountInv
  <1>5. \A d \in 1..Len(scopes) : scopes[d].phase = "running" /\ scopes[d].id # new
    BY <1>1, <1>2, ScopesAre DEF AgreeInv, ScopeInv, Top
  <1>6. /\ NewScope(new).id = new /\ NewScope(new).phase = "running"
        /\ NewScope(new).errors = NewScope(new).failed /\ ~NewScope(new).failed
    BY DEF NewScope
  <1>7. StackInv'
    <2>1. Len(scopes') <= MaxDepth + 1
      BY <1>1, <1>2, <1>3
    <2>2. \A d \in 1..Len(scopes') : d = Len(scopes) + 1 \/ d \in 1..Len(scopes)
      BY <1>3
    <2>3. ASSUME NEW d \in 1..Len(scopes')
          PROVE  /\ scopes'[d].id <= new /\ scopes'[d].phase = "running"
                 /\ scopes'[d].id = 0 <=> d = 1
                 /\ scopes'[d].errors = scopes'[d].failed
      <3>1. CASE d = Len(scopes) + 1
        BY <1>2, <1>3, <1>6, <3>1
      <3>2. CASE d \in 1..Len(scopes)
        <4>1. scopes'[d] = scopes[d] /\ scopes[d].phase = "running"
          BY <1>3, <1>5, <3>2
        <4>2. scopes[d].id <= new
          BY <1>2, <3>2, ScopesAre DEF AgreeInv, ScopeInv
        <4>3. /\ scopes[d].id = 0 <=> d = 1
              /\ scopes[d].errors = scopes[d].failed
          BY <3>2 DEF AgreeInv, ScopeInv, StackInv
        <4> QED
          BY <4>1, <4>2, <4>3
      <3> QED
        BY <2>2, <3>1, <3>2
    <2>4. ASSUME NEW d \in 1..Len(scopes'), NEW e \in 1..Len(scopes'),
                 scopes'[d].id = scopes'[e].id
          PROVE  d = e
      BY <1>3, <1>5, <1>6, <2>2, <2>4 DEF AgreeInv, ScopeInv, StackInv
    <2> QED
      BY <1>3, <1>4, <2>1, <2>3, <2>4 DEF StackInv
  <1>8. CountInv'
    BY <1>2, <1>3, <1>4 DEF AgreeInv, ScopeInv, CountInv
  <1>9. /\ junit' \in [0..counts'.total -> Status]
        /\ junit'[new] = NoStatus
        /\ \A n \in 0..counts.total : junit'[n] = junit[n]
    <2>1. junit \in [0..counts.total -> Status]
      BY DEF AgreeInv, ScopeInv, ReportInv
    <2>2. NoStatus \in Status
      BY DEF NoStatus, Status
    <2>3. 0..counts'.total = (0..counts.total) \union {new}
      BY <1>2, <1>4
    <2> QED
      BY <1>1, <1>2, <2>1, <2>2, <2>3
  <1>10. ReportInv'
    BY <1>1, <1>2, <1>4, <1>9 DEF AgreeInv, ScopeInv, ReportInv, In
  <1>11. OutcomeInv'
    BY <1>1 DEF AgreeInv, ScopeInv, OutcomeInv
  <1>12. ~In(results.Failures, new) /\ ~In(results.NonCriticalFailures, new)
    BY <1>2 DEF AgreeInv, ScopeInv, ReportInv
  <1>13. ~NoStatus.skipped /\ ~NoStatus.nonCritical /\ ~NoStatus.failures
    BY DEF NoStatus
  <1>14. OpenInv'
    <2> SUFFICES ASSUME NEW d \in 2..Len(scopes')
                 PROVE  /\ ~junit'[scopes'[d].id].skipped /\ ~junit'[scopes'[d].id].nonCritical
                        /\ scopes'[d].phase = "running"
                        /\ ~In(results.Failures, scopes'[d].id)
                        /\ ~In(results.NonCriticalFailures, scopes'[d].id)
      BY <1>1 DEF OpenInv, In
    <2>1. CASE d = Len(scopes) + 1
      BY <1>3, <1>6, <1>9, <1>12, <1>13, <2>1
    <2>2. CASE d \in 2..Len(scopes)
      <3>1. scopes'[d] = scopes[d] /\ scopes[d].id \in 0..counts.total
        BY <1>2, <1>3, <2>2, ScopesAre DEF AgreeInv, ScopeInv
      <3>2. junit'[scopes[d].id] = junit[scopes[d].id]
        BY <1>9, <3>1
      <3>3. scopes[d].phase = "running"
        BY <1>5, <2>2
      <3> QED
        BY <2>2, <3>1, <3>2, <3>3 DEF AgreeInv, OpenInv
    <2> QED
      BY <1>3, <2>1, <2>2
  <1>15. ReportsAgree'
    <2> HIDE DEF new
    <2>0. results' = results
      BY <1>1
    <2> SUFFICES ASSUME NEW n \in 1..counts'.total, ~OnStack(n)', ~junit'[n].skipped
                 PROVE  /\ junit'[n].failures <=>
                              In(results.Failures, n) \/ In(results.NonCriticalFailures, n)
                        /\ junit'[n].nonCritical <=> In(results.NonCriticalFailures, n)
      BY <2>0 DEF ReportsAgree, JUnitFailures, In
    <2> USE DEF new
    <2>1. n # new /\ ~OnStack(n)
      BY <1>3, <1>6 DEF OnStack
    <2>2. n \in 1..counts.total /\ junit'[n] = junit[n]
      BY <1>2, <1>4, <1>9, <2>1
    <2> QED
      BY <2>1, <2>2 DEF AgreeInv, ReportsAgree, JUnitFailures
  <1>16. ExitTellsFailures'
    BY <1>1 DEF AgreeInv, ScopeInv, OutcomeInv, ExitTellsFailures
  <1> QED
    BY <1>7, <1>8, <1>10, <1>11, <1>14, <1>15, <1>16 DEF AgreeInv, ScopeInv

LEMMA ExcludeTestStep ==
    ASSUME AgreeInv, ExcludeTest
    PROVE  AgreeInv'
  <1> DEFINE new == counts.total + 1
             status == [NoStatus EXCEPT !.skipped = TRUE]
  <1>1. /\ scopes # <<>> /\ counts.total < MaxTests
        /\ junit' = [n \in DOMAIN junit \union {new} |-> IF n = new THEN status ELSE junit[n]]
        /\ counts' = [total |-> new, skipped |-> counts.skipped + 1]
    BY DEF ExcludeTest, TestStarted
  <1>0. UNCHANGED <<scopes, results, outcome>>
    BY DEF ExcludeTest
  <1>2. /\ counts.total \in Nat /\ counts.skipped \in Nat /\ Len(scopes) \in Nat
        /\ counts.skipped <= counts.total /\ counts.skipped + Len(scopes) <= counts.total + 1
        /\ new \in Nat /\ MaxTests \in Nat
    BY BoundsAssumption DEF AgreeInv, ScopeInv, CountInv, StackInv
  <1>3. counts'.total = new /\ counts'.skipped = counts.skipped + 1
    BY <1>1
  <1>4. /\ junit' \in [0..new -> Status]
        /\ junit'[new].skipped
        /\ \A n \in 0..counts.total : junit'[n] = junit[n]
    <2>1. junit \in [0..counts.total -> Status]
      BY DEF AgreeInv, ScopeInv, ReportInv
    <2>2. status \in Status /\ status.skipped
      BY DEF NoStatus, Status
    <2>3. 0..new = (0..counts.total) \union {new}
      BY <1>2
    <2> HIDE DEF status
    <2> QED
      BY <1>1, <1>2, <2>1, <2>2, <2>3
  <1>5. StackInv'
    BY <1>0, <1>2, <1>3, ScopesAre DEF AgreeInv, ScopeInv, StackInv
  <1>6. CountInv'
    <2>1. counts' \in [total : 0..MaxTests, skipped : Nat]
      BY <1>1, <1>2
    <2>2. counts'.skipped <= counts'.total /\ counts'.skipped + Len(scopes) <= counts'.total + 1
      BY <1>2, <1>3
    <2> QED
      BY <1>0, <2>1, <2>2 DEF CountInv
  <1>7. ReportInv'
    <2>1. \A n \in Nat : In(results.Failures, n) \/ In(results.NonCriticalFailures, n) =>
                              n <= counts.total
      BY DEF AgreeInv, ScopeInv, ReportInv
    <2>2. \A n \in Nat : n <= counts.total => n <= counts'.total
      BY <1>2, <1>3
    <2>3. \A n \in Nat : In(results.Failures, n)' \/ In(results.NonCriticalFailures, n)' =>
                              n <= counts'.total
      BY <1>0, <2>1, <2>2 DEF In
    <2>4. junit' \in [0..counts'.total -> Status]
      BY <1>3, <1>4
    <2> QED
      BY <1>0, <2>3, <2>4 DEF AgreeInv, ScopeInv, ReportInv
  <1>8. OutcomeInv' /\ ExitTellsFailures'
    BY <1>0, <1>1 DEF AgreeInv, ScopeInv, OutcomeInv, ExitTellsFailures
  <1>9. OpenInv'
    <2>1. \A d \in 2..Len(scopes) : junit'[scopes[d].id] = junit[scopes[d].id]
      BY <1>2, <1>4, ScopesAre DEF AgreeInv, ScopeInv
    <2> QED
      BY <1>0, <2>1 DEF AgreeInv, OpenInv, In
  <1>10. ReportsAgree'
    <2> SUFFICES ASSUME NEW n \in 1..counts'.total, ~OnStack(n)', ~junit'[n].skipped
                 PROVE  /\ junit'[n].failures <=>
                              In(results.Failures, n) \/ In(results.NonCriticalFailures, n)
                        /\ junit'[n].nonCritical <=> In(results.NonCriticalFailures, n)
      BY <1>0 DEF ReportsAgree, JUnitFailures, In
    <2>1. n # new /\ ~OnStack(n)
      BY <1>0, <1>4 DEF OnStack
    <2>2. n \in 1..counts.total /\ junit'[n] = junit[n]
      BY <1>2, <1>3, <1>4, <2>1
    <2> QED
      BY <2>1, <2>2 DEF AgreeInv, ReportsAgree, JUnitFailures
  <1> QED
    BY <1>5, <1>6, <1>7, <1>8, <1>9, <1>10 DEF AgreeInv, ScopeInv

\* What a test does without ending: it may have errors while its function runs,
\* and its cleanups change neither its outcome nor the reports.
LEMMA SameTestStep ==
    ASSUME AgreeInv, scopes # <<>>, NEW t \in Scope, SetTop(t),
           t.id = Top.id, t.phase = Top.phase, t.errors = t.failed,
           \/ junit' = junit
           \/ junit' = [junit EXCEPT ![Top.id].failures = TRUE],
           \/ Top.phase = "running"
           \/ t.failed = Top.failed /\ t.nonCritical = Top.nonCritical /\ junit' = junit,
           UNCHANGED <<results, counts, outcome>>
    PROVE  AgreeInv'
  <1>1. /\ scopes' \in Seq(Scope) /\ Len(scopes') = Len(scopes)
        /\ \A d \in 1..Len(scopes) :
               scopes'[d] = IF d = Len(scopes) THEN t ELSE scopes[d]
    BY SetTopIs DEF AgreeInv, ScopeInv
  <1>2. /\ Len(scopes) \in Nat \ {0} /\ Top = scopes[Len(scopes)] /\ Top \in Scope
        /\ Top.id \in 0..counts.total
    BY TopIs DEF AgreeInv, ScopeInv
  <1>3. \A d \in 1..Len(scopes) : scopes'[d].id = scopes[d].id
    BY <1>1, <1>2
  <1>4. StackInv'
    BY StackStep DEF AgreeInv, ScopeInv
  <1>5. CountInv' /\ OutcomeInv'
    <2>1. scopes' # <<>> /\ outcome.exit = -1
      BY <1>1, <1>2 DEF AgreeInv, ScopeInv, OutcomeInv
    <2> QED
      BY <1>1, <2>1 DEF AgreeInv, ScopeInv, CountInv, OutcomeInv
  <1>6. /\ junit' \in [0..counts.total -> Status]
        /\ \A n \in 0..counts.total :
               /\ junit'[n].skipped = junit[n].skipped
               /\ junit'[n].nonCritical = junit[n].nonCritical
               /\ n # Top.id => junit'[n] = junit[n]
    <2>1. junit \in [0..counts.total -> Status]
      BY DEF AgreeInv, ScopeInv, ReportInv
    <2>2. CASE junit' = junit
      BY <2>1, <2>2
    <2>3. CASE junit' = [junit EXCEPT ![Top.id].failures = TRUE]
      <3>1. /\ junit'[Top.id] = [junit[Top.id] EXCEPT !.failures = TRUE]
            /\ \A n \in 0..counts.total : n # Top.id => junit'[n] = junit[n]
        BY <1>2, <2>1, <2>3
      <3>2. junit[Top.id] \in Status
        BY <1>2, <2>1
      <3>3. /\ junit'[Top.id] \in Status
            /\ junit'[Top.id].skipped = junit[Top.id].skipped
            /\ junit'[Top.id].nonCritical = junit[Top.id].nonCritical
        BY <3>1, <3>2 DEF Status
      <3> QED
        BY <2>1, <2>3, <3>1, <3>3
    <2> QED
      BY <2>2, <2>3
  <1>7. ReportInv'
    BY <1>6 DEF AgreeInv, ScopeInv, ReportInv, In
  <1>8. OpenInv'
    <2> SUFFICES ASSUME NEW d \in 2..Len(scopes)
                 PROVE  LET s == scopes'[d] IN
                        /\ ~junit'[s.id].skipped /\ ~junit'[s.id].nonCritical
                        /\ s.phase = "running" => ~In(results.Failures, s.id)
                                                  /\ ~In(results.NonCriticalFailures, s.id)
                        /\ s.phase = "cleanup" =>
                               /\ junit'[s.id].failures <=> s.failed
                               /\ In(results.Failures, s.id) <=> s.failed /\ ~s.nonCritical
                               /\ In(results.NonCriticalFailures, s.id) <=>
                                      s.failed /\ s.nonCritical
      BY <1>1 DEF OpenInv, In
    <2>1. scopes[d].id \in 0..counts.total /\ d \in 1..Len(scopes)
      BY <1>2, ScopesAre DEF AgreeInv, ScopeInv
    <2>2. /\ ~junit[scopes[d].id].skipped /\ ~junit[scopes[d].id].nonCritical
          /\ scopes[d].phase = "running" =>
                 ~In(results.Failures, scopes[d].id) /\ ~In(results.NonCriticalFailures, scopes[d].id)
          /\ scopes[d].phase = "cleanup" =>
                 /\ junit[scopes[d].id].failures <=> scopes[d].failed
                 /\ In(results.Failures, scopes[d].id) <=>
                        scopes[d].failed /\ ~scopes[d].nonCritical
                 /\ In(results.NonCriticalFailures, scopes[d].id) <=>
                        scopes[d].failed /\ scopes[d].nonCritical
      BY DEF AgreeInv, OpenInv
    <2>3. CASE d = Len(scopes)
      <3>1. scopes'[d] = t /\ scopes[d] = Top
        BY <1>1, <1>2, <2>1, <2>3
      <3>2. CASE Top.phase = "running"
        BY <1>6, <2>1, <2>2, <3>1, <3>2
      <3>3. CASE /\ Top.phase # "running" /\ junit' = junit
                 /\ t.failed = Top.failed /\ t.nonCritical = Top.nonCritical
        BY <2>2, <3>1, <3>3
      <3> QED
        BY <3>2, <3>3
    <2>4. CASE d # Len(scopes)
      <3>1. scopes'[d] = scopes[d] /\ scopes[d].id # Top.id
        BY <1>1, <1>2, <2>1, <2>4 DEF AgreeInv, ScopeInv, StackInv
      <3> QED
        BY <1>6, <2>1, <2>2, <3>1
    <2> QED
      BY <2>3, <2>4
  <1>9. ReportsAgree'
    <2>1. \A n \in 1..counts.total : OnStack(n)' <=> OnStack(n)
      BY <1>1, <1>3 DEF OnStack
    <2>2. OnStack(Top.id)
      BY <1>2 DEF OnStack
    <2>3. \A n \in 1..counts.total : ~OnStack(n) => junit'[n] = junit[n]
      BY <1>2, <1>6, <2>2
    <2> QED
      BY <2>1, <2>3 DEF AgreeInv, ReportsAgree, JUnitFailures, In
  <1>10. ExitTellsFailures'
    BY DEF AgreeInv, ScopeInv, OutcomeInv, ExitTellsFailures
  <1> QED
    BY <1>4, <1>5, <1>7, <1>8, <1>9, <1>10 DEF AgreeInv, ScopeInv

LEMMA LeaveStep ==
    ASSUME AgreeInv, scopes # <<>>, Top.phase = "running",
           NEW error \in BOOLEAN, NEW panicked \in BOOLEAN, Leave(error, panicked),
           UNCHANGED <<counts, outcome>>
    PROVE  AgreeInv'
  <1>1. PICK t \in Scope :
            /\ SetTop(t)
            /\ t.id = Top.id /\ t.phase = "cleanup" /\ t.errors = t.failed
            /\ junit' = [junit EXCEPT ![Top.id].failures = t.failed]
            /\ results' \in [Tests : Seq(Nat), Failures : Seq(Nat),
                             NonCriticalFailures : Seq(Nat)]
            /\ results'.Failures =
                   IF t.failed /\ ~t.nonCritical THEN Append(results.Failures, t.id)
                   ELSE results.Failures
            /\ results'.NonCriticalFailures =
                   IF t.failed /\ t.nonCritical
                   THEN Append(results.NonCriticalFailures, t.id)
                   ELSE results.NonCriticalFailures
    BY LeaveIs DEF AgreeInv
  <1>2. /\ scopes' \in Seq(Scope) /\ Len(scopes') = Len(scopes)
        /\ \A d \in 1..Len(scopes) : scopes'[d] = IF d = Len(scopes) THEN t ELSE scopes[d]
    BY <1>1, SetTopIs DEF AgreeInv, ScopeInv
  <1>3. /\ Len(scopes) \in Nat \ {0} /\ Top = scopes[Len(scopes)]
        /\ Top.id \in 0..counts.total /\ counts.total \in Nat
    BY TopIs DEF AgreeInv, ScopeInv, CountInv
  <1>4. StackInv'
    BY <1>1, StackStep DEF AgreeInv, ScopeInv
  <1>5. CountInv' /\ OutcomeInv' /\ ExitTellsFailures'
    <2>1. scopes' # <<>> /\ outcome.exit = -1
      BY <1>2, <1>3 DEF AgreeInv, ScopeInv, OutcomeInv
    <2> QED
      BY <1>2, <2>1 DEF AgreeInv, ScopeInv, CountInv, OutcomeInv, ExitTellsFailures
  <1>6. /\ junit' \in [0..counts.total -> Status]
        /\ junit'[Top.id].skipped = junit[Top.id].skipped
        /\ junit'[Top.id].nonCritical = junit[Top.id].nonCritical
        /\ junit'[Top.id].failures = t.failed
        /\ \A n \in 0..counts.total : n # Top.id => junit'[n] = junit[n]
    <2>1. junit \in [0..counts.total -> Status]
      BY DEF AgreeInv, ScopeInv, ReportInv
    <2>2. junit[Top.id] \in Status /\ t.failed \in BOOLEAN
      BY <1>3, <2>1 DEF Scope
    <2>3. /\ junit'[Top.id] = [junit[Top.id] EXCEPT !.failures = t.failed]
          /\ \A n \in 0..counts.total : n # Top.id => junit'[n] = junit[n]
      BY <1>1, <1>3, <2>1
    <2>4. /\ junit'[Top.id] \in Status
          /\ junit'[Top.id].skipped = junit[Top.id].skipped
          /\ junit'[Top.id].nonCritical = junit[Top.id].nonCritical
          /\ junit'[Top.id].failures = t.failed
      BY <2>2, <2>3 DEF Status
    <2>5. DOMAIN junit' = 0..counts.total /\ junit' = [n \in 0..counts.total |-> junit'[n]]
      BY <1>1, <2>1
    <2> QED
      BY <2>1, <2>3, <2>4, <2>5
  <1>7. \A n \in Nat :
            /\ In(results'.Failures, n) <=>
                   In(results.Failures, n) \/ (t.failed /\ ~t.nonCritical /\ n = Top.id)
            /\ In(results'.NonCriticalFailures, n) <=>
                   In(results.NonCriticalFailures, n) \/ (t.failed /\ t.nonCritical /\ n = Top.id)
    <2> SUFFICES ASSUME NEW n \in Nat
                 PROVE  /\ In(results'.Failures, n) <=>
                               \/ In(results.Failures, n)
                               \/ t.failed /\ ~t.nonCritical /\ n = Top.id
                        /\ In(results'.NonCriticalFailures, n) <=>
                               \/ In(results.NonCriticalFailures, n)
                               \/ t.failed /\ t.nonCritical /\ n = Top.id
      OBVIOUS
    <2>1. /\ results.Failures \in Seq(Nat) /\ results.NonCriticalFailures \in Seq(Nat)
          /\ t.id \in Nat
      BY <1>1, <1>3 DEF AgreeInv, ScopeInv, ReportInv
    <2>2. /\ In(Append(results.Failures, t.id), n) <=> In(results.Failures, n) \/ n = t.id
          /\ In(Append(results.NonCriticalFailures, t.id), n) <=>
                 In(results.NonCriticalFailures, n) \/ n = t.id
      BY <2>1, InAppend
    <2>3. CASE t.failed /\ ~t.nonCritical
      BY <1>1, <2>2, <2>3
    <2>4. CASE t.failed /\ t.nonCritical
      BY <1>1, <2>2, <2>4
    <2>5. CASE ~t.failed
      BY <1>1, <2>5
    <2> QED
      BY <2>3, <2>4, <2>5
  <1>8. ReportInv'
    <2>1. \A n \in Nat : In(results.Failures, n) \/ In(results.NonCriticalFailures, n) =>
                             n <= counts.total
      BY DEF AgreeInv, ScopeInv, ReportInv
    <2>2. \A n \in Nat : In(results'.Failures, n) \/ In(results'.NonCriticalFailures, n) =>
                             n <= counts.total
      <3>1. Top.id <= counts.total
        BY <1>3
      <3> QED
        BY <1>7, <2>1, <3>1, Zenon
    <2> QED
      BY <1>1, <1>6, <2>2 DEF ReportInv
  <1>9. OpenInv'
    <2> SUFFICES ASSUME NEW d \in 2..Len(scopes)
                 PROVE  LET s == scopes'[d] IN
                        /\ ~junit'[s.id].skipped /\ ~junit'[s.id].nonCritical
                        /\ s.phase = "running" => ~In(results'.Failures, s.id)
                                                  /\ ~In(results'.NonCriticalFailures, s.id)
                        /\ s.phase = "cleanup" =>
                               /\ junit'[s.id].failures <=> s.failed
                               /\ In(results'.Failures, s.id) <=> s.failed /\ ~s.nonCritical
                               /\ In(results'.NonCriticalFailures, s.id) <=>
                                      s.failed /\ s.nonCritical
      BY <1>2 DEF OpenInv, In
    <2>1. /\ scopes[d].id \in 0..counts.total /\ scopes[d].id \in Nat /\ d \in 1..Len(scopes)
          /\ scopes[d].phase \in {"running", "cleanup"}
          /\ scopes[d].phase = "cleanup" => d = Len(scopes)
      BY <1>3, ScopesAre DEF AgreeInv, ScopeInv
    <2>2. /\ scopes[d].phase = "running"
          /\ ~junit[scopes[d].id].skipped /\ ~junit[scopes[d].id].nonCritical
          /\ ~In(results.Failures, scopes[d].id) /\ ~In(results.NonCriticalFailures, scopes[d].id)
      <3>1. scopes[d].phase = "running"
        BY <1>3, <2>1
      <3> QED
        BY <3>1 DEF AgreeInv, OpenInv
    <2>3. CASE d = Len(scopes)
      <3>1. scopes'[d] = t /\ scopes[d] = Top
        BY <1>2, <1>3, <2>1, <2>3
      <3> QED
        BY <1>1, <1>6, <1>7, <2>1, <2>2, <3>1
    <2>4. CASE d # Len(scopes)
      <3>1. scopes'[d] = scopes[d] /\ scopes[d].id # Top.id
        BY <1>2, <1>3, <2>1, <2>4 DEF AgreeInv, ScopeInv, StackInv
      <3> QED
        BY <1>6, <1>7, <2>1, <2>2, <3>1
    <2> QED
      BY <2>3, <2>4
  <1>10. ReportsAgree'
    <2> SUFFICES ASSUME NEW n \in 1..counts.total, ~OnStack(n)', ~junit'[n].skipped
                 PROVE  /\ junit'[n].failures <=>
                              In(results'.Failures, n) \/ In(results'.NonCriticalFailures, n)
                        /\ junit'[n].nonCritical <=> In(results'.NonCriticalFailures, n)
      BY DEF ReportsAgree, JUnitFailures, In
    <2>1. \A d \in 1..Len(scopes) : scopes'[d].id = scopes[d].id
      BY <1>1, <1>2, <1>3
    <2>2. ~OnStack(n)
      BY <1>2, <2>1 DEF OnStack
    <2>3. n # Top.id
      BY <1>3, <2>2 DEF OnStack
    <2> QED
      BY <1>3, <1>6, <1>7, <2>2, <2>3 DEF AgreeInv, ReportsAgree, JUnitFailures
  <1> QED
    BY <1>4, <1>5, <1>8, <1>9, <1>10 DEF AgreeInv, ScopeInv

\* A test that is over leaves a report that agrees with the results, or is marked
\* as skipped; the root has no report.
LEMMA OverStep ==
    ASSUME AgreeInv, scopes # <<>>, scopes' = WithoutTop, UNCHANGED <<results, outcome>>,
           counts' \in [total : 0..MaxTests, skipped : Nat], counts'.total = counts.total,
           counts'.skipped <= counts.total,
           counts'.skipped + Len(scopes) - 1 <= counts.total + 1,
           junit' \in [0..counts.total -> Status],
           \A n \in 0..counts.total : n # Top.id => junit'[n] = junit[n],
           \/ Top.id = 0 \/ junit'[Top.id].skipped
           \/ /\ junit'[Top.id].failures <=> \/ In(results.Failures, Top.id)
                                             \/ In(results.NonCriticalFailures, Top.id)
              /\ junit'[Top.id].nonCritical <=> In(results.NonCriticalFailures, Top.id)
    PROVE  AgreeInv'
  <1>1. /\ Len(scopes) \in Nat \ {0} /\ Top = scopes[Len(scopes)]
        /\ Top.id \in 0..counts.total
    BY TopIs DEF AgreeInv, ScopeInv
  <1>2. /\ scopes' \in Seq(Scope) /\ Len(scopes') = Len(scopes) - 1
        /\ \A d \in 1..Len(scopes) - 1 : scopes'[d] = scopes[d]
    BY WithoutTopIs DEF AgreeInv, ScopeInv
  <1>3. StackInv'
    BY BoundsAssumption, PopStep DEF AgreeInv, ScopeInv
  <1>4. CountInv'
    BY <1>1, <1>2 DEF CountInv
  <1>5. OutcomeInv' /\ ExitTellsFailures'
    <2>1. outcome.exit = -1
      BY DEF AgreeInv, ScopeInv, OutcomeInv
    <2> QED
      BY <2>1 DEF OutcomeInv, ExitTellsFailures
  <1>6. ReportInv'
    <2>1. \A n \in Nat : In(results.Failures, n)' \/ In(results.NonCriticalFailures, n)' =>
                             n <= counts'.total
      BY DEF AgreeInv, ScopeInv, ReportInv, In
    <2> QED
      BY <2>1 DEF AgreeInv, ScopeInv, ReportInv
  <1>7. OpenInv'
    <2>1. \A d \in 2..Len(scopes') :
              /\ scopes'[d] = scopes[d] /\ d \in 2..Len(scopes)
              /\ junit'[scopes[d].id] = junit[scopes[d].id]
      <3> SUFFICES ASSUME NEW d \in 2..Len(scopes')
                   PROVE  /\ scopes'[d] = scopes[d] /\ d \in 2..Len(scopes)
                          /\ junit'[scopes[d].id] = junit[scopes[d].id]
        OBVIOUS
      <3>1. scopes'[d] = scopes[d] /\ d \in 1..Len(scopes) /\ d \in 2..Len(scopes) /\ d # Len(scopes)
        BY <1>1, <1>2
      <3>2. scopes[d].id \in 0..counts.total
        BY <1>1, <3>1, ScopesAre DEF AgreeInv, ScopeInv
      <3>3. scopes[d].id # Top.id
        BY <1>1, <3>1 DEF AgreeInv, ScopeInv, StackInv
      <3> QED
        BY <3>1, <3>2, <3>3
    <2>2. OpenInv /\ results' = results
      BY DEF AgreeInv
    <2> SUFFICES ASSUME NEW d \in 2..Len(scopes')
                 PROVE  LET t == scopes'[d] IN
                        /\ ~junit'[t.id].skipped /\ ~junit'[t.id].nonCritical
                        /\ t.phase = "running" => /\ ~In(results.Failures, t.id)
                                                  /\ ~In(results.NonCriticalFailures, t.id)
                        /\ t.phase = "cleanup" =>
                               /\ junit'[t.id].failures <=> t.failed
                               /\ In(results.Failures, t.id) <=> t.failed /\ ~t.nonCritical
                               /\ In(results.NonCriticalFailures, t.id) <=>
                                      t.failed /\ t.nonCritical
      BY <2>2 DEF OpenInv, In
    <2>3. /\ scopes'[d] = scopes[d] /\ d \in 2..Len(scopes)
          /\ junit'[scopes[d].id] = junit[scopes[d].id]
      BY <2>1
    <2> QED
      BY <2>2, <2>3 DEF OpenInv
  <1>8. ReportsAgree'
    <2> SUFFICES ASSUME NEW n \in 1..counts.total, ~OnStack(n)', ~junit'[n].skipped
                 PROVE  /\ junit'[n].failures <=>
                              In(results.Failures, n) \/ In(results.NonCriticalFailures, n)
                        /\ junit'[n].nonCritical <=> In(results.NonCriticalFailures, n)
      BY DEF ReportsAgree, JUnitFailures, In
    <2>1. CASE n = Top.id
      BY <2>1
    <2>2. CASE n # Top.id
      <3>1. ~OnStack(n)
        <4> SUFFICES ASSUME NEW d \in 1..Len(scopes), scopes[d].id = n
                     PROVE  FALSE
          BY DEF OnStack
        <4>1. d \in 1..Len(scopes') /\ scopes'[d] = scopes[d]
          <5>1. d # Len(scopes)
            BY <1>1, <2>2
          <5>2. d \in 1..Len(scopes) - 1
            BY <1>1, <5>1
          <5> QED
            BY <1>2, <5>2
        <4> QED
          BY <4>1 DEF OnStack
      <3> QED
        BY <1>1, <2>2, <3>1 DEF AgreeInv, ReportsAgree, JUnitFailures
    <2> QED
      BY <2>1, <2>2
  <1> QED
    BY <1>3, <1>4, <1>5, <1>6, <1>7, <1>8 DEF AgreeInv, ScopeInv

LEMMA SkipStep ==
    ASSUME AgreeInv, Skip
    PROVE  AgreeInv'
  <1>1. /\ Len(scopes) > 1 /\ scopes' = WithoutTop
        /\ counts' = [counts EXCEPT !.skipped = @ + 1]
        /\ junit' = [junit EXCEPT ![Top.id].skipped = TRUE]
        /\ UNCHANGED <<results, outcome>>
    BY DEF Skip, InTest
  <1>2. scopes # <<>>
    BY <1>1
  <1>3. /\ counts \in [total : 0..MaxTests, skipped : Nat] /\ Len(scopes) \in Nat
        /\ counts.skipped + Len(scopes) <= counts.total + 1
    BY DEF AgreeInv, ScopeInv, CountInv, StackInv
  <1>4. /\ counts' \in [total : 0..MaxTests, skipped : Nat]
        /\ counts'.total = counts.total /\ counts'.skipped = counts.skipped + 1
    BY <1>1, <1>3
  <1>5. counts'.skipped <= counts.total /\ counts'.skipped + Len(scopes) - 1 <= counts.total + 1
    BY <1>1, <1>3, <1>4, BoundsAssumption
  <1>6. /\ junit' \in [0..counts.total -> Status] /\ junit'[Top.id].skipped
        /\ \A n \in 0..counts.total : n # Top.id => junit'[n] = junit[n]
    <2>1. junit \in [0..counts.total -> Status] /\ Top.id \in 0..counts.total
      BY <1>2, TopIs DEF AgreeInv, ScopeInv, ReportInv
    <2>2. /\ junit'[Top.id] = [junit[Top.id] EXCEPT !.skipped = TRUE]
          /\ \A n \in 0..counts.total : n # Top.id => junit'[n] = junit[n]
          /\ DOMAIN junit' = 0..counts.total /\ junit' = [n \in 0..counts.total |-> junit'[n]]
      BY <1>1, <2>1
    <2>3. junit[Top.id] \in Status
      BY <2>1
    <2>4. junit'[Top.id] \in Status /\ junit'[Top.id].skipped = TRUE
      BY <2>2, <2>3 DEF Status
    <2> QED
      BY <2>1, <2>2, <2>4
  <1> QED
    BY <1>1, <1>2, <1>4, <1>5, <1>6, OverStep

LEMMA EndOfCleanupsStep ==
    ASSUME AgreeInv, EndOfCleanups
    PROVE  AgreeInv'
  <1> DEFINE value == Top.id # 0 /\ Top.failed /\ Top.nonCritical
  <1>1. /\ scopes # <<>> /\ Top.phase = "cleanup" /\ scopes' = WithoutTop
        /\ junit' = [junit EXCEPT ![Top.id].nonCritical = value]
        /\ UNCHANGED <<results, counts, outcome>>
    BY DEF EndOfCleanups
  <1>2. /\ Len(scopes) \in Nat \ {0} /\ Top = scopes[Len(scopes)] /\ Top \in Scope
        /\ Top.id \in 0..counts.total
    BY <1>1, TopIs DEF AgreeInv, ScopeInv
  <1>3. /\ counts' \in [total : 0..MaxTests, skipped : Nat] /\ counts'.total = counts.total
        /\ counts'.skipped <= counts.total
        /\ counts'.skipped + Len(scopes) - 1 <= counts.total + 1
    BY <1>1, <1>2, BoundsAssumption DEF AgreeInv, ScopeInv, CountInv
  <1>4. /\ junit' \in [0..counts.total -> Status]
        /\ junit'[Top.id].failures = junit[Top.id].failures
        /\ junit'[Top.id].nonCritical = value
        /\ \A n \in 0..counts.total : n # Top.id => junit'[n] = junit[n]
    <2>1. junit \in [0..counts.total -> Status] /\ value \in BOOLEAN
      BY DEF AgreeInv, ScopeInv, ReportInv
    <2> HIDE DEF value
    <2>2. /\ junit'[Top.id] = [junit[Top.id] EXCEPT !.nonCritical = value]
          /\ \A n \in 0..counts.total : n # Top.id => junit'[n] = junit[n]
          /\ DOMAIN junit' = 0..counts.total /\ junit' = [n \in 0..counts.total |-> junit'[n]]
      BY <1>1, <1>2, <2>1
    <2>3. /\ junit'[Top.id] \in Status
          /\ junit'[Top.id].failures = junit[Top.id].failures
          /\ junit'[Top.id].nonCritical = value
      BY <1>2, <2>1, <2>2 DEF Status
    <2> QED
      BY <2>1, <2>2, <2>3
  <1>5. Top.id # 0 =>
            /\ junit[Top.id].failures <=> Top.failed
            /\ In(results.Failures, Top.id) <=> Top.failed /\ ~Top.nonCritical
            /\ In(results.NonCriticalFailures, Top.id) <=> Top.failed /\ Top.nonCritical
    <2>1. Top.id # 0 => Len(scopes) \in 2..Len(scopes)
      BY <1>2 DEF AgreeInv, ScopeInv, StackInv
    <2> QED
      BY <1>1, <1>2, <2>1 DEF AgreeInv, OpenInv
  <1>6. Top.id # 0 =>
            /\ junit'[Top.id].failures <=> \/ In(results.Failures, Top.id)
                                           \/ In(results.NonCriticalFailures, Top.id)
            /\ junit'[Top.id].nonCritical <=> In(results.NonCriticalFailures, Top.id)
    BY <1>4, <1>5
  <1> QED
    BY <1>1, <1>3, <1>4, <1>6, OverStep

LEMMA EndRunStep ==
    ASSUME AgreeInv, EndRun
    PROVE  AgreeInv'
  <1>1. /\ scopes = <<>> /\ UNCHANGED <<scopes, results, junit, counts>>
        /\ \/ outcome' = [exit |-> IF results.Failures = <<>> THEN 0 ELSE 1,
                          recorded |-> results.Failures]
           \/ outcome' = [exit |-> 1, recorded |-> <<>>]
    BY DEF EndRun
  <1>2. outcome'.exit \in {0, 1} /\ (outcome'.exit = 0 => results.Failures = <<>>)
    BY <1>1
  <1>3. OutcomeInv'
    BY <1>1, <1>2 DEF OutcomeInv
  <1>4. StackInv' /\ CountInv' /\ ReportInv' /\ OpenInv' /\ ReportsAgree'
    BY <1>1 DEF AgreeInv, ScopeInv, StackInv, CountInv, ReportInv, OpenInv, ReportsAgree,
                JUnitFailures, OnStack, In
  <1>5. ExitTellsFailures'
    <2> SUFFICES ASSUME results.Failures = <<>>, NEW n \in 1..counts.total, junit[n].failures
                 PROVE  junit[n].nonCritical \/ junit[n].skipped
      BY <1>1, <1>2 DEF ExitTellsFailures, JUnitFailures
    <2>1. ~OnStack(n) /\ ~In(results.Failures, n)
      BY <1>1 DEF OnStack, In
    <2>2. ReportsAgree
      BY DEF AgreeInv
    <2> QED
      BY <2>1, <2>2 DEF ReportsAgree, JUnitFailures
  <1> QED
    BY <1>3, <1>4, <1>5 DEF AgreeInv, ScopeInv

LEMMA ScopesUnchangedStep ==
    ASSUME AgreeInv, UNCHANGED scopeVars
    PROVE  AgreeInv'
  BY DEF AgreeInv, ScopeInv, StackInv, CountInv, ReportInv, OutcomeInv, OpenInv, ReportsAgree,
         ExitTellsFailures, JUnitFailures, OnStack, In, scopeVars

LEMMA NonCriticalStep ==
    ASSUME AgreeInv, NonCritical
    PROVE  AgreeInv'
  <1>1. /\ scopes # <<>> /\ Top.phase = "running"
        /\ SetTop([Top EXCEPT !.nonCritical = TRUE])
        /\ UNCHANGED <<results, junit, counts, outcome>>
    BY DEF NonCritical, InTest
  <1>2. Top \in Scope /\ Top.errors = Top.failed
    BY <1>1, TopIs DEF AgreeInv, ScopeInv
  <1> DEFINE t == [Top EXCEPT !.nonCritical = TRUE]
  <1>3. t \in Scope /\ t.id = Top.id /\ t.phase = Top.phase /\ t.errors = t.failed
    BY <1>2 DEF Scope
  <1> HIDE DEF t
  <1>4. SetTop(t)
    BY <1>1 DEF t
  <1> QED
    BY <1>1, <1>3, <1>4, SameTestStep

LEMMA ErrorfStep ==
    ASSUME AgreeInv, Errorf
    PROVE  AgreeInv'
  <1>1. /\ scopes # <<>> /\ Top.phase = "running"
        /\ SetTop([Top EXCEPT !.failed = TRUE, !.errors = TRUE])
        /\ junit' = [junit EXCEPT ![Top.id].failures = TRUE]
        /\ UNCHANGED <<results, counts, outcome>>
    BY DEF Errorf, InTest
  <1>2. Top \in Scope
    BY <1>1, TopIs DEF AgreeInv, ScopeInv
  <1> DEFINE t == [Top EXCEPT !.failed = TRUE, !.errors = TRUE]
  <1>3. t \in Scope /\ t.id = Top.id /\ t.phase = Top.phase /\ t.errors = t.failed
    BY <1>2 DEF Scope
  <1> HIDE DEF t
  <1>4. SetTop(t)
    BY <1>1 DEF t
  <1> QED
    BY <1>1, <1>3, <1>4, SameTestStep

\* The clients whose Close a test defers say nothing of its result.
LEMMA CleanupsStep ==
    ASSUME AgreeInv, scopes # <<>>, NEW s \in Seq(Clients),
           SetTop([Top EXCEPT !.cleanups = s]), UNCHANGED <<results, junit, counts, outcome>>
    PROVE  AgreeInv'
  <1>1. Top \in Scope /\ Top.errors = Top.failed
    BY TopIs DEF AgreeInv, ScopeInv
  <1> DEFINE t == [Top EXCEPT !.cleanups = s]
  <1>2. /\ t \in Scope /\ t.id = Top.id /\ t.phase = Top.phase /\ t.errors = t.failed
        /\ t.failed = Top.failed /\ t.nonCritical = Top.nonCritical
    BY <1>1 DEF Scope
  <1> HIDE DEF t
  <1>3. SetTop(t)
    BY DEF t
  <1> QED
    BY <1>2, <1>3, SameTestStep

-------------------------------------------------------------------------------
(* The clients. *)

\* The clients whose Close an open test has deferred.
Deferred == {c \in Clients : \E d \in 1..Len(scopes) : c \in Elements(scopes[d].cleanups)}

ClientTypeInv ==
    /\ currentlyExistingClientInstances \in Int
    /\ entity \in [Clients -> {"none", "live", "lost", "gone"}]
    /\ closed \subseteq Clients
    /\ deletes \in Seq(Clients)
    /\ guarded \subseteq Clients /\ IsFiniteSet(guarded)
    /\ refusals \subseteq SUBSET Clients
    /\ leaked \subseteq Clients

\* The entities that are closed are those for which a DELETE was sent.
DeleteInv == closed = Elements(deletes) /\ OneDelete

\* The counter is at most the number of clients that are counted and not closed,
\* all of which are alive: it is too small where a client is closed twice.
GuardInv ==
    /\ \A c \in closed \union guarded : entity[c] \notin {"none", "lost"}
    /\ currentlyExistingClientInstances <= Cardinality(guarded \ closed)
    /\ RefusedOnlyIfLive

ClientInv == ClientTypeInv /\ DeleteInv /\ GuardInv

IInv == AgreeInv /\ ClientInv /\ NoClientOutlivesItsTest

LEMMA CleanupsAre ==
    ASSUME StackInv
    PROVE  /\ \A d \in 1..Len(scopes) : scopes[d].cleanups \in Seq(Clients)
           /\ \A d \in 1..Len(scopes) : Elements(scopes[d].cleanups) \subseteq Clients
  <1>1. \A d \in 1..Len(scopes) : scopes[d] \in Scope
    BY ScopesAre
  <1>2. \A d \in 1..Len(scopes) : scopes[d].cleanups \in Seq(Clients)
    BY <1>1 DEF Scope
  <1> QED
    BY <1>2 DEF Elements

LEMMA OutlivesIs ==
    ASSUME ClientTypeInv, StackInv
    PROVE  NoClientOutlivesItsTest <=> Live \subseteq closed \union leaked \union Deferred
  BY CleanupsAre DEF NoClientOutlivesItsTest, Deferred, Live, Alive, ClientTypeInv

LEMMA SetTopDefers ==
    ASSUME StackInv, scopes # <<>>, NEW t \in Scope, SetTop(t), NEW done,
           Elements(Top.cleanups) \subseteq Elements(t.cleanups) \union done
    PROVE  Deferred \subseteq Deferred' \union done /\ Elements(t.cleanups) \subseteq Deferred'
  <1>1. /\ Len(scopes') = Len(scopes) /\ Len(scopes) \in 1..Len(scopes)
        /\ scopes'[Len(scopes)] = t
        /\ \A d \in 1..Len(scopes) : d # Len(scopes) => scopes'[d] = scopes[d]
        /\ Top = scopes[Len(scopes)]
    BY TopIs, SetTopIs
  <1>2. Elements(t.cleanups) \subseteq Clients
    BY DEF Scope, Elements
  <1>3. Deferred' = {c \in Clients : \E d \in 1..Len(scopes) : c \in Elements(scopes'[d].cleanups)}
    BY <1>1 DEF Deferred, Elements
  <1> QED
    BY <1>1, <1>2, <1>3 DEF Deferred

LEMMA WithoutTopDefers ==
    ASSUME StackInv, scopes # <<>>, scopes' = WithoutTop
    PROVE  Deferred \subseteq Deferred' \union Elements(Top.cleanups)
  <1>1. /\ Len(scopes') = Len(scopes) - 1 /\ Len(scopes) \in Nat \ {0}
        /\ \A d \in 1..Len(scopes) - 1 : scopes'[d] = scopes[d]
        /\ Top = scopes[Len(scopes)]
    BY TopIs, WithoutTopIs
  <1>2. Deferred' = {c \in Clients : \E d \in 1..Len(scopes') : c \in Elements(scopes'[d].cleanups)}
    BY DEF Deferred, Elements
  <1>3. \A d \in 1..Len(scopes) : d = Len(scopes) \/ d \in 1..Len(scopes')
    BY <1>1
  <1>4. \A d \in 1..Len(scopes') : scopes'[d] = scopes[d]
    BY <1>1
  <1> QED
    BY <1>1, <1>2, <1>3, <1>4 DEF Deferred

LEMMA NewTestDefers ==
    ASSUME StackInv, NEW t \in Scope, scopes' = Append(scopes, t)
    PROVE  Deferred \subseteq Deferred'
  <1>1. /\ Len(scopes') = Len(scopes) + 1 /\ Len(scopes) \in Nat
        /\ \A d \in 1..Len(scopes) : scopes'[d] = scopes[d]
    BY DEF StackInv
  <1>2. Deferred' = {c \in Clients : \E d \in 1..Len(scopes') : c \in Elements(scopes'[d].cleanups)}
    BY DEF Deferred, Elements
  <1>3. \A d \in 1..Len(scopes) : d \in 1..Len(scopes')
    BY <1>1
  <1> QED
    BY <1>1, <1>2, <1>3 DEF Deferred

\* Nothing happens to the clients.
LEMMA ClientsUnchanged ==
    ASSUME ClientInv, UNCHANGED clientVars
    PROVE  ClientInv'
  <1>1. UNCHANGED <<currentlyExistingClientInstances, entity, closed, deletes, guarded,
                    refusals, leaked>>
    BY DEF clientVars
  <1> QED
    BY <1>1 DEF ClientInv, ClientTypeInv, DeleteInv, GuardInv, OneDelete, RefusedOnlyIfLive,
                Elements

\* Nor does a client lose the test that will close it.
LEMMA KeptStep ==
    ASSUME IInv, AgreeInv', UNCHANGED clientVars, Deferred \subseteq Deferred'
    PROVE  IInv'
  <1>1. ClientInv'
    BY ClientsUnchanged DEF IInv
  <1>2. UNCHANGED <<entity, closed, leaked>> /\ Live' = Live
    BY DEF clientVars, Live
  <1>3. Live \subseteq closed \union leaked \union Deferred
    BY OutlivesIs DEF IInv, ClientInv, AgreeInv, ScopeInv
  <1>4. NoClientOutlivesItsTest'
    BY <1>2, <1>3 DEF NoClientOutlivesItsTest, Alive, Live, Deferred, Elements
  <1> QED
    BY <1>1, <1>4 DEF IInv

\* A client that is closed for the first time is sent a DELETE and is no longer
\* one of those that are counted and not closed.
LEMMA CloseStep ==
    ASSUME ClientInv, NEW c \in Clients, Close(c), UNCHANGED <<guarded, refusals, leaked>>
    PROVE  /\ ClientInv' /\ closed' = closed \union {c}
           /\ Live' \subseteq Live \union {c}
  <1>1. currentlyExistingClientInstances' = currentlyExistingClientInstances - 1
    BY DEF Close
  <1>2. CASE c \in closed
    <2>1. UNCHANGED <<entity, closed, deletes, guarded, refusals, leaked>>
      BY <1>2 DEF Close, CloseEntity
    <2>2. currentlyExistingClientInstances' <= Cardinality(guarded \ closed)
      <3>1. IsFiniteSet(guarded \ closed)
        BY FS_Subset DEF ClientInv, ClientTypeInv
      <3>2. Cardinality(guarded \ closed) \in Nat
        BY <3>1, FS_CardinalityType
      <3> QED
        BY <1>1, <3>2 DEF ClientInv, ClientTypeInv, GuardInv
    <2>3. ClientTypeInv' /\ DeleteInv' /\ GuardInv'
      BY <1>1, <2>1, <2>2 DEF ClientInv, ClientTypeInv, DeleteInv, GuardInv, OneDelete,
                              RefusedOnlyIfLive, Elements
    <2> QED
      BY <1>2, <2>1, <2>3 DEF ClientInv, Live
  <1>3. CASE c \notin closed
    <2>1. PICK outcomeOfDelete \in {"live", "gone"} :
              /\ closed' = closed \union {c} /\ deletes' = Append(deletes, c)
              /\ entity' = [entity EXCEPT ![c] = outcomeOfDelete]
      BY <1>3 DEF Close, CloseEntity
    <2>2. ClientTypeInv'
      BY <1>1, <2>1 DEF ClientInv, ClientTypeInv
    <2>3. \A b \in Clients : b # c => entity'[b] = entity[b]
      BY <2>1 DEF ClientInv, ClientTypeInv
    <2>4. entity'[c] \in {"live", "gone"}
      BY <2>1 DEF ClientInv, ClientTypeInv
    <2>5. /\ deletes \in Seq(Clients) /\ Len(deletes) \in Nat
          /\ Len(deletes') = Len(deletes) + 1 /\ deletes'[Len(deletes) + 1] = c
          /\ \A i \in 1..Len(deletes) : deletes'[i] = deletes[i]
      BY <2>1 DEF ClientInv, ClientTypeInv
    <2>6. \A i \in 1..Len(deletes) : deletes[i] # c
      BY <1>3 DEF ClientInv, DeleteInv, Elements
    <2>7. Elements(deletes') = Elements(deletes) \union {c}
      BY <2>5 DEF Elements
    <2>8. \A i, j \in 1..Len(deletes') : deletes'[i] = deletes'[j] => i = j
      <3>1. \A i \in 1..Len(deletes') : i = Len(deletes) + 1 \/ i \in 1..Len(deletes)
        BY <2>5
      <3> QED
        BY <2>5, <2>6, <3>1 DEF ClientInv, DeleteInv, OneDelete
    <2>9. DeleteInv'
      <3>1. \A b \in Clients : entity'[b] = "gone" => b \in closed'
        BY <2>1, <2>3 DEF ClientInv, DeleteInv, OneDelete
      <3>2. closed' = Elements(deletes')
        BY <2>1, <2>7 DEF ClientInv, DeleteInv
      <3>3. Elements(deletes') = Elements(deletes)'
        BY DEF Elements
      <3> QED
        BY <2>8, <3>1, <3>2, <3>3 DEF DeleteInv, OneDelete
    <2>10. currentlyExistingClientInstances' <= Cardinality(guarded \ closed')
      <3> DEFINE S == guarded \ closed
      <3>1. IsFiniteSet(S)
        BY FS_Subset DEF ClientInv, ClientTypeInv
      <3>2. guarded \ closed' = S \ {c}
        BY <2>1
      <3> HIDE DEF S
      <3>3. Cardinality(S) \in Nat
        BY <3>1, FS_CardinalityType
      <3>4. Cardinality(S \ {c}) = IF c \in S THEN Cardinality(S) - 1 ELSE Cardinality(S)
        BY <3>1, FS_RemoveElement
      <3>5. currentlyExistingClientInstances <= Cardinality(S)
        BY DEF ClientInv, GuardInv, S
      <3>6. currentlyExistingClientInstances' <= Cardinality(S \ {c})
        BY <1>1, <3>3, <3>4, <3>5 DEF ClientInv, ClientTypeInv
      <3> QED
        BY <3>2, <3>6, Zenon
    <2>11. GuardInv'
      <3>1. \A b \in closed' \union guarded : entity'[b] \notin {"none", "lost"}
        BY <2>1, <2>3, <2>4 DEF ClientInv, ClientTypeInv, GuardInv
      <3> QED
        BY <2>10, <3>1 DEF ClientInv, GuardInv, RefusedOnlyIfLive
    <2> QED
      BY <2>1, <2>2, <2>3, <2>9, <2>11 DEF ClientInv, Live
  <1> QED
    BY <1>2, <1>3

LEMMA RunCleanupStep ==
    ASSUME IInv, RunCleanup
    PROVE  IInv'
  <1> DEFINE n == Len(Top.cleanups)
             rest == SubSeq(Top.cleanups, 1, n - 1)
  <1>1. /\ scopes # <<>> /\ Top.cleanups # <<>> /\ Close(Top.cleanups[n])
        /\ SetTop([Top EXCEPT !.cleanups = rest])
        /\ UNCHANGED <<results, junit, counts, outcome, guarded, refusals, leaked>>
    BY DEF RunCleanup
  <1>2. /\ Top \in Scope /\ Top.cleanups \in Seq(Clients)
        /\ n \in Nat \ {0} /\ Top.cleanups[n] \in Clients
    <2>1. Top \in Scope
      BY <1>1, TopIs DEF IInv, AgreeInv, ScopeInv
    <2>2. Top.cleanups \in Seq(Clients)
      BY <2>1 DEF Scope
    <2> QED
      BY <1>1, <2>1, <2>2, EmptySeq
  <1>3. rest \in Seq(Clients) /\ Len(rest) = n - 1 /\ \A i \in 1..n - 1 : rest[i] = Top.cleanups[i]
    BY <1>2, SubSeqProperties
  <1> HIDE DEF n, rest
  <1>4. AgreeInv'
    BY <1>1, <1>3, CleanupsStep DEF IInv
  <1>5. /\ ClientInv' /\ closed' = closed \union {Top.cleanups[n]}
        /\ Live' \subseteq Live \union {Top.cleanups[n]}
    BY <1>1, <1>2, CloseStep DEF IInv
  <1>6. Deferred \subseteq Deferred' \union {Top.cleanups[n]}
    <2> DEFINE t == [Top EXCEPT !.cleanups = rest]
    <2>1. t \in Scope /\ t.cleanups = rest
      BY <1>2, <1>3 DEF Scope
    <2>2. SetTop(t)
      BY <1>1
    <2> HIDE DEF t
    <2>3. Elements(Top.cleanups) \subseteq Elements(t.cleanups) \union {Top.cleanups[n]}
      <3>1. \A i \in 1..n : i = n \/ i \in 1..n - 1
        BY <1>2
      <3> QED
        BY <1>2, <1>3, <2>1, <3>1 DEF Elements, n
    <2> QED
      BY <1>1, <2>1, <2>2, <2>3, SetTopDefers DEF IInv, AgreeInv, ScopeInv
  <1>7. Live \subseteq closed \union leaked \union Deferred
    BY OutlivesIs DEF IInv, ClientInv, AgreeInv, ScopeInv
  <1>8. Live' \subseteq closed' \union leaked' \union Deferred'
    BY <1>1, <1>5, <1>6, <1>7
  <1>9. NoClientOutlivesItsTest'
    BY <1>8 DEF NoClientOutlivesItsTest, Alive, Live, Deferred, Elements
  <1> QED
    BY <1>4, <1>5, <1>9 DEF IInv

LEMMA CloseByTestStep ==
    ASSUME IInv, CloseByTest
    PROVE  IInv'
  <1>1. PICK c \in Live \ closed : Close(c)
    BY DEF CloseByTest
  <1>2. UNCHANGED <<scopeVars, guarded, refusals, leaked>> /\ c \in Clients /\ c \in Live
    BY <1>1 DEF CloseByTest, Live
  <1>3. AgreeInv'
    BY <1>2, ScopesUnchangedStep DEF IInv
  <1>4. ClientInv' /\ closed' = closed \union {c} /\ Live' \subseteq Live \union {c}
    BY <1>1, <1>2, CloseStep DEF IInv
  <1>5. Live \subseteq closed \union leaked \union Deferred
    BY OutlivesIs DEF IInv, ClientInv, AgreeInv, ScopeInv
  <1>6. scopes' = scopes
    BY <1>2 DEF scopeVars
  <1>7. NoClientOutlivesItsTest'
    BY <1>2, <1>4, <1>5, <1>6 DEF NoClientOutlivesItsTest, Alive, Live, Deferred, Elements
  <1> QED
    BY <1>3, <1>4, <1>7 DEF IInv

\* A new client is neither closed nor counted before, and its test will close it.
LEMMA CreatedStep ==
    ASSUME IInv, scopes # <<>>, NEW c \in Clients, Created(c),
           UNCHANGED <<results, junit, counts, outcome, closed, deletes, refusals, leaked>>
    PROVE  /\ AgreeInv' /\ DeleteInv' /\ NoClientOutlivesItsTest' /\ RefusedOnlyIfLive'
           /\ entity' \in [Clients -> {"none", "live", "lost", "gone"}]
           /\ c \notin guarded \union closed
           /\ \A b \in closed \union guarded \union {c} : entity'[b] \notin {"none", "lost"}
  <1>1. /\ entity[c] = "none" /\ entity' = [entity EXCEPT ![c] = "live"]
        /\ SetTop([Top EXCEPT !.cleanups = Append(@, c)])
    BY DEF Created
  <1>2. Top \in Scope /\ Top.cleanups \in Seq(Clients)
    <2>1. Top \in Scope
      BY TopIs DEF IInv, AgreeInv, ScopeInv
    <2> QED
      BY <2>1 DEF Scope
  <1> DEFINE s == Append(Top.cleanups, c)
             t == [Top EXCEPT !.cleanups = s]
  <1>3. SetTop(t)
    BY <1>1
  <1>4. /\ s \in Seq(Clients) /\ Len(s) = Len(Top.cleanups) + 1 /\ Len(Top.cleanups) \in Nat
        /\ s[Len(Top.cleanups) + 1] = c
        /\ \A i \in 1..Len(Top.cleanups) : s[i] = Top.cleanups[i]
    BY <1>2
  <1> HIDE DEF s
  <1>5. t \in Scope /\ t.cleanups = s
    BY <1>2, <1>4 DEF Scope
  <1>6. AgreeInv'
    BY <1>3, <1>4, CleanupsStep DEF IInv
  <1>7. /\ entity \in [Clients -> {"none", "live", "lost", "gone"}]
        /\ entity' \in [Clients -> {"none", "live", "lost", "gone"}]
        /\ entity'[c] = "live" /\ \A b \in Clients : b # c => entity'[b] = entity[b]
    BY <1>1 DEF IInv, ClientInv, ClientTypeInv
  <1>8. /\ c \notin guarded \union closed
        /\ \A b \in closed \union guarded \union {c} : entity'[b] \notin {"none", "lost"}
    BY <1>1, <1>7 DEF IInv, ClientInv, ClientTypeInv, GuardInv
  <1>9. DeleteInv' /\ RefusedOnlyIfLive'
    <2>1. UNCHANGED <<closed, deletes, refusals>>
      OBVIOUS
    <2>2. \A b \in Clients : entity'[b] = "gone" => entity[b] = "gone"
      BY <1>7
    <2> QED
      BY <2>1, <2>2 DEF IInv, ClientInv, DeleteInv, GuardInv, OneDelete, RefusedOnlyIfLive, Elements
  <1>10. NoClientOutlivesItsTest'
    <2> HIDE DEF t
    <2>1. Elements(Top.cleanups) \subseteq Elements(t.cleanups) \union {} /\ c \in Elements(t.cleanups)
      BY <1>4, <1>5 DEF Elements
    <2>2. Deferred \subseteq Deferred' \union {} /\ Elements(t.cleanups) \subseteq Deferred'
      BY <1>3, <1>5, <2>1, SetTopDefers DEF IInv, AgreeInv, ScopeInv
    <2>3. Live' \subseteq Live \union {c}
      BY <1>7 DEF Live
    <2>4. Live \subseteq closed \union leaked \union Deferred
      BY OutlivesIs DEF IInv, ClientInv, AgreeInv, ScopeInv
    <2>5. Live' \subseteq closed' \union leaked' \union Deferred'
      BY <2>1, <2>2, <2>3, <2>4
    <2> QED
      BY <2>5 DEF NoClientOutlivesItsTest, Alive, Live, Deferred, Elements
  <1> QED
    BY <1>6, <1>7, <1>8, <1>9, <1>10

LEMMA TryNewSDKClientStep ==
    ASSUME IInv, NEW c \in Clients, TryNewSDKClient(c)
    PROVE  IInv'
  <1>1. scopes # <<>> /\ Created(c)
    BY DEF TryNewSDKClient, InTest
  <1>2. UNCHANGED <<results, junit, counts, outcome, currentlyExistingClientInstances,
                    closed, deletes, guarded, refusals, leaked>>
    BY DEF TryNewSDKClient
  <1>3. /\ AgreeInv' /\ DeleteInv' /\ NoClientOutlivesItsTest' /\ RefusedOnlyIfLive'
        /\ entity' \in [Clients -> {"none", "live", "lost", "gone"}]
        /\ \A b \in closed \union guarded \union {c} : entity'[b] \notin {"none", "lost"}
    BY <1>1, <1>2, CreatedStep
  <1>4. ClientTypeInv' /\ GuardInv'
    BY <1>2, <1>3 DEF IInv, ClientInv, ClientTypeInv, GuardInv
  <1> QED
    BY <1>3, <1>4 DEF IInv, ClientInv

LEMMA NewSDKClientStep ==
    ASSUME IInv, NEW c \in Clients, NewSDKClient(c)
    PROVE  IInv'
  <1>1. /\ scopes # <<>> /\ Created(c) /\ guarded' = guarded \union {c}
        /\ currentlyExistingClientInstances' = currentlyExistingClientInstances + 1
    BY DEF NewSDKClient, InTest
  <1>2. UNCHANGED <<results, junit, counts, outcome, closed, deletes, refusals, leaked>>
    BY DEF NewSDKClient
  <1>3. /\ AgreeInv' /\ DeleteInv' /\ NoClientOutlivesItsTest' /\ RefusedOnlyIfLive'
        /\ entity' \in [Clients -> {"none", "live", "lost", "gone"}]
        /\ c \notin guarded \union closed
        /\ \A b \in closed \union guarded \union {c} : entity'[b] \notin {"none", "lost"}
    BY <1>1, <1>2, CreatedStep
  <1>4. IsFiniteSet(guarded) /\ IsFiniteSet(guarded')
    BY <1>1, FS_AddElement DEF IInv, ClientInv, ClientTypeInv
  <1>5. ClientTypeInv'
    BY <1>1, <1>2, <1>3, <1>4 DEF IInv, ClientInv, ClientTypeInv
  <1>6. currentlyExistingClientInstances' <= Cardinality(guarded' \ closed)
    <2> DEFINE S == guarded \ closed
    <2>1. IsFiniteSet(S)
      BY <1>4, FS_Subset
    <2>2. guarded' \ closed = S \union {c} /\ c \notin S
      BY <1>1, <1>3
    <2>3. currentlyExistingClientInstances <= Cardinality(S)
      BY DEF IInv, ClientInv, GuardInv
    <2> HIDE DEF S
    <2>4. Cardinality(S) \in Nat
      BY <2>1, FS_CardinalityType
    <2>5. Cardinality(S \union {c}) = Cardinality(S) + 1
      BY <2>1, <2>2, FS_AddElement
    <2>6. currentlyExistingClientInstances' <= Cardinality(S \union {c})
      BY <1>1, <2>3, <2>4, <2>5 DEF IInv, ClientInv, ClientTypeInv
    <2> QED
      BY <2>2, <2>6, Zenon
  <1>7. GuardInv'
    BY <1>1, <1>2, <1>3, <1>6 DEF GuardInv
  <1> QED
    BY <1>3, <1>5, <1>7 DEF IInv, ClientInv

\* A test that ends keeps the cleanups that it has deferred.
LEMMA LeaveKeeps ==
    ASSUME AgreeInv, scopes # <<>>, NEW error \in BOOLEAN, NEW panicked \in BOOLEAN,
           Leave(error, panicked)
    PROVE  Deferred \subseteq Deferred'
  <1>1. PICK t \in Scope : SetTop(t) /\ t.cleanups = Top.cleanups
    BY LeaveIs DEF AgreeInv
  <1>2. Elements(Top.cleanups) \subseteq Elements(t.cleanups) \union {}
    BY <1>1
  <1> QED
    BY <1>1, <1>2, SetTopDefers DEF AgreeInv, ScopeInv

\* With a single client counted, some client is counted and not closed: it is
\* alive.
LEMMA RefusedIsJustified ==
    ASSUME ClientInv, Refused
    PROVE  Live # {}
  <1>1. currentlyExistingClientInstances = 1
    BY DEF Refused, ClientInv, ClientTypeInv
  <1>2. IsFiniteSet(guarded \ closed)
    BY FS_Subset DEF ClientInv, ClientTypeInv
  <1>3. guarded \ closed # {}
    BY <1>1, <1>2, FS_EmptySet DEF ClientInv, GuardInv
  <1>4. PICK c \in guarded : c \notin closed
    BY <1>3
  <1>5. c \in Clients /\ entity[c] \notin {"none", "lost"} /\ entity[c] # "gone"
    BY <1>4 DEF ClientInv, ClientTypeInv, DeleteInv, GuardInv, OneDelete
  <1> QED
    BY <1>5 DEF ClientInv, ClientTypeInv, Live

LEMMA NewSDKClientRefusedStep ==
    ASSUME IInv, NewSDKClientRefused
    PROVE  IInv'
  <1>1. /\ scopes # <<>> /\ Top.phase = "running" /\ Refused /\ Leave(TRUE, TRUE)
        /\ refusals' = refusals \union {Live}
    <2>1. InTest /\ Refused /\ Leave(TRUE, TRUE) /\ refusals' = refusals \union {Live}
      BY Zenon DEF NewSDKClientRefused
    <2>2. scopes # <<>> /\ Top.phase = "running"
      BY <2>1 DEF InTest
    <2> QED
      BY <2>1, <2>2, Zenon
  <1>2. UNCHANGED <<counts, outcome, currentlyExistingClientInstances, entity, closed, deletes,
                    guarded, leaked>>
    BY DEF NewSDKClientRefused
  <1>3. AgreeInv'
    BY <1>1, <1>2, LeaveStep DEF IInv
  <1>4. Live # {} /\ Live \subseteq Clients /\ Live' = Live
    BY <1>1, <1>2, RefusedIsJustified DEF IInv, Live
  <1>5. ClientTypeInv' /\ GuardInv'
    BY <1>1, <1>2, <1>4 DEF IInv, ClientInv, ClientTypeInv, GuardInv, RefusedOnlyIfLive
  <1>6. DeleteInv'
    BY <1>2 DEF IInv, ClientInv, DeleteInv, OneDelete, Elements
  <1>7. Deferred \subseteq Deferred'
    BY <1>1, LeaveKeeps DEF IInv
  <1>8. Live \subseteq closed \union leaked \union Deferred
    BY OutlivesIs DEF IInv, ClientInv, AgreeInv, ScopeInv
  <1>9. NoClientOutlivesItsTest'
    BY <1>2, <1>4, <1>7, <1>8 DEF NoClientOutlivesItsTest, Alive, Live, Deferred, Elements
  <1> QED
    BY <1>3, <1>5, <1>6, <1>9 DEF IInv, ClientInv

\* A creation that fails for the harness changes no client that it knows of.
LEMMA FailedCreationStep ==
    ASSUME IInv, AgreeInv', Deferred \subseteq Deferred',
           UNCHANGED entity \/ \E c \in Clients : CreationLost(c),
           UNCHANGED <<currentlyExistingClientInstances, closed, deletes, guarded, refusals, leaked>>
    PROVE  IInv'
  <1>1. CASE UNCHANGED entity
    <2>1. UNCHANGED clientVars
      BY <1>1 DEF clientVars
    <2> QED
      BY <2>1, KeptStep
  <1>2. CASE \E c \in Clients : CreationLost(c)
    <2>1. PICK c \in Clients : entity[c] = "none" /\ entity' = [entity EXCEPT ![c] = "lost"]
      BY <1>2 DEF CreationLost
    <2>2. /\ entity \in [Clients -> {"none", "live", "lost", "gone"}]
          /\ entity' \in [Clients -> {"none", "live", "lost", "gone"}]
          /\ entity'[c] = "lost" /\ \A b \in Clients : b # c => entity'[b] = entity[b]
      BY <2>1 DEF IInv, ClientInv, ClientTypeInv
    <2>3. ClientTypeInv'
      BY <2>2 DEF IInv, ClientInv, ClientTypeInv
    <2>4. \A b \in Clients : entity'[b] = "gone" => entity[b] = "gone"
      BY <2>2
    <2>5. DeleteInv'
      BY <2>4 DEF IInv, ClientInv, DeleteInv, OneDelete, Elements
    <2>6. c \notin closed \union guarded
      BY <2>1 DEF IInv, ClientInv, GuardInv
    <2>7. \A b \in closed \union guarded : entity'[b] = entity[b]
      BY <2>2, <2>6 DEF IInv, ClientInv, ClientTypeInv
    <2>8. GuardInv'
      BY <2>7 DEF IInv, ClientInv, GuardInv, RefusedOnlyIfLive
    <2>9. Live' = Live
      BY <2>1, <2>2 DEF Live
    <2>10. Live \subseteq closed \union leaked \union Deferred
      BY OutlivesIs DEF IInv, ClientInv, AgreeInv, ScopeInv
    <2>11. NoClientOutlivesItsTest'
      BY <2>9, <2>10 DEF NoClientOutlivesItsTest, Alive, Live, Deferred, Elements
    <2> QED
      BY <2>3, <2>5, <2>8, <2>11 DEF IInv, ClientInv
  <1> QED
    BY <1>1, <1>2

LEMMA NewSDKClientFailsStep ==
    ASSUME IInv, NewSDKClientFails
    PROVE  IInv'
  <1>1. /\ InTest /\ Leave(TRUE, TRUE)
        /\ UNCHANGED entity \/ \E c \in Clients : CreationLost(c)
        /\ UNCHANGED <<counts, outcome, currentlyExistingClientInstances, closed, deletes,
                       guarded, refusals, leaked>>
    BY Zenon DEF NewSDKClientFails
  <1>2. scopes # <<>> /\ Top.phase = "running"
    BY <1>1 DEF InTest
  <1>3. AgreeInv'
    BY <1>1, <1>2, LeaveStep DEF IInv
  <1>4. Deferred \subseteq Deferred'
    BY <1>1, <1>2, LeaveKeeps DEF IInv
  <1> QED
    BY <1>1, <1>3, <1>4, FailedCreationStep

LEMMA TryNewSDKClientFailsStep ==
    ASSUME IInv, TryNewSDKClientFails
    PROVE  IInv'
  <1>1. /\ \E c \in Clients : CreationLost(c)
        /\ UNCHANGED <<scopeVars, currentlyExistingClientInstances, closed, deletes, guarded,
                       refusals, leaked>>
    BY DEF TryNewSDKClientFails
  <1>2. AgreeInv'
    BY <1>1, ScopesUnchangedStep DEF IInv
  <1>3. scopes' = scopes
    BY <1>1 DEF scopeVars
  <1>4. Deferred \subseteq Deferred'
    BY <1>3 DEF Deferred, Elements
  <1> QED
    BY <1>1, <1>2, <1>4, FailedCreationStep

LEMMA SkipTestStep ==
    ASSUME IInv, SkipTest
    PROVE  IInv'
  <1>1. /\ Skip /\ scopes # <<>> /\ scopes' = WithoutTop
        /\ leaked' = leaked \union Elements(Top.cleanups)
    BY DEF SkipTest, Skip, InTest
  <1>2. UNCHANGED <<currentlyExistingClientInstances, entity, closed, deletes, guarded, refusals>>
    BY DEF SkipTest
  <1>3. AgreeInv'
    BY <1>1, SkipStep DEF IInv
  <1>4. Elements(Top.cleanups) \subseteq Clients
    BY <1>1, TopIs, CleanupsAre DEF IInv, AgreeInv, ScopeInv
  <1>5. ClientInv'
    BY <1>1, <1>2, <1>4 DEF IInv, ClientInv, ClientTypeInv, DeleteInv, GuardInv, OneDelete,
                            RefusedOnlyIfLive, Elements
  <1>6. Deferred \subseteq Deferred' \union Elements(Top.cleanups)
    BY <1>1, WithoutTopDefers DEF IInv, AgreeInv, ScopeInv
  <1>7. Live \subseteq closed \union leaked \union Deferred /\ Live' = Live
    BY <1>2, OutlivesIs DEF IInv, ClientInv, AgreeInv, ScopeInv, Live
  <1>8. NoClientOutlivesItsTest'
    BY <1>1, <1>2, <1>6, <1>7 DEF NoClientOutlivesItsTest, Alive, Live, Deferred, Elements
  <1> QED
    BY <1>3, <1>5, <1>8 DEF IInv

-------------------------------------------------------------------------------
LEMMA Initial == Init => IInv
  <1> SUFFICES ASSUME Init
               PROVE  IInv
    OBVIOUS
  <1>1. /\ junit = [n \in {0} |-> NoStatus] /\ counts = [total |-> 0, skipped |-> 0]
        /\ outcome.exit = -1 /\ MaxDepth \in Nat \ {0} /\ MaxTests \in Nat \ {0}
        /\ scopes = <<NewScope(0)>> \/ scopes = <<>>
    BY BoundsAssumption DEF Init, ScopeInit, Running
  <1>2. /\ counts.total = 0 /\ counts.skipped = 0
        /\ counts \in [total : 0..MaxTests, skipped : Nat] /\ 0..0 = {0}
    BY <1>1
  <1>3. NewScope(0) \in Scope /\ NewScope(0).id = 0 /\ NewScope(0).phase = "running"
        /\ NewScope(0).errors = NewScope(0).failed
    BY NewScopeIs DEF NewScope
  <1>4. scopes \in Seq(Scope) /\ Len(scopes) \in 0..1
    <2> DEFINE root == NewScope(0)
    <2>1. root \in Scope /\ (scopes = <<root>> \/ scopes = <<>>)
      BY <1>1, <1>3
    <2> HIDE DEF root
    <2>2. <<root>> \in Seq(Scope) /\ <<>> \in Seq(Scope)
      BY <2>1
    <2>3. Len(<<root>>) = 1 /\ Len(<<>>) = 0
      OBVIOUS
    <2>4. 0 \in 0..1 /\ 1 \in 0..1
      OBVIOUS
    <2> QED
      BY <2>1, <2>2, <2>3, <2>4, Zenon
  <1>5. StackInv /\ CountInv
    <2>1. \A d \in 1..Len(scopes) : d = 1 /\ scopes[d] = NewScope(0)
      <3>1. CASE scopes = <<>>
        BY <3>1
      <3>2. CASE scopes = <<NewScope(0)>>
        <4> DEFINE root == NewScope(0)
        <4> HIDE DEF root
        <4>1. scopes = <<root>>
          BY <3>2 DEF root
        <4>2. Len(scopes) = 1 /\ scopes[1] = root
          BY <4>1
        <4> QED
          BY <4>2 DEF root
      <3> QED
        BY <1>1, <3>1, <3>2
    <2>2. StackInv
      BY <1>1, <1>2, <1>3, <1>4, <2>1 DEF StackInv
    <2>3. Len(scopes) \in Nat /\ Len(scopes) <= 1
      <3>1. Len(scopes) \in 0..1
        BY <1>4, Zenon
      <3> QED
        BY <3>1, SMT
    <2>4. CountInv
      <3>1. counts.skipped <= counts.total /\ counts.skipped + Len(scopes) <= counts.total + 1
        BY <1>2, <2>3
      <3> QED
        BY <1>2, <3>1 DEF CountInv
    <2> QED
      BY <2>2, <2>4
  <1>6. /\ results \in [Tests : Seq(Nat), Failures : Seq(Nat), NonCriticalFailures : Seq(Nat)]
        /\ results.NonCriticalFailures = <<>>
        /\ results.Failures = <<>> \/ results.Failures = <<0>>
    BY DEF Init, ScopeInit
  <1>7. ReportInv
    <2>1. junit \in [0..counts.total -> Status]
      BY <1>1, <1>2 DEF NoStatus, Status
    <2>2. \A n \in Nat : In(results.Failures, n) \/ In(results.NonCriticalFailures, n) => n = 0
      BY <1>6 DEF In
    <2> QED
      BY <1>2, <1>6, <2>1, <2>2 DEF ReportInv
  <1>8. AgreeInv
    <2>1. OutcomeInv /\ ExitTellsFailures
      BY <1>1 DEF OutcomeInv, ExitTellsFailures
    <2>2. ReportsAgree
      BY <1>2 DEF ReportsAgree
    <2>3. OpenInv
      BY <1>4 DEF OpenInv
    <2> QED
      BY <1>5, <1>7, <2>1, <2>2, <2>3 DEF AgreeInv, ScopeInv
  <1>9. ClientInv
    <2>1. /\ currentlyExistingClientInstances = 0 /\ entity = [c \in Clients |-> "none"]
          /\ closed = {} /\ deletes = <<>> /\ guarded = {} /\ refusals = {} /\ leaked = {}
      BY DEF Init
    <2>2. ClientTypeInv
      BY <2>1, FS_EmptySet DEF ClientTypeInv
    <2>3. Elements(<<>>) = {}
      BY DEF Elements
    <2>4. DeleteInv
      BY <2>1, <2>3 DEF DeleteInv, OneDelete
    <2>5. Cardinality(guarded \ closed) = 0
      <3>1. guarded \ closed = {}
        BY <2>1
      <3> QED
        BY <3>1, FS_EmptySet
    <2>6. GuardInv
      BY <2>1, <2>5 DEF GuardInv, RefusedOnlyIfLive
    <2> QED
      BY <2>2, <2>4, <2>6 DEF ClientInv
  <1>10. NoClientOutlivesItsTest
    BY DEF Init, NoClientOutlivesItsTest, Alive
  <1> QED
    BY <1>8, <1>9, <1>10 DEF IInv

LEMMA Inductive == IInv /\ [Next]_vars => IInv'
  <1> SUFFICES ASSUME IInv, [Next]_vars
               PROVE  IInv'
    OBVIOUS
  <1> USE DEF IInv
  <1>1. AgreeInv /\ StackInv
    BY DEF AgreeInv, ScopeInv
  <1>2. CASE StartTest /\ UNCHANGED clientVars
    <2>1. NewScope(counts.total + 1) \in Scope /\ scopes' = Append(scopes, NewScope(counts.total + 1))
      BY <1>1, <1>2, NewScopeIs DEF StartTest, AgreeInv, ScopeInv, CountInv
    <2>2. Deferred \subseteq Deferred'
      BY <1>1, <2>1, NewTestDefers
    <2> QED
      BY <1>2, <2>2, StartTestStep, KeptStep
  <1>3. CASE ExcludeTest /\ UNCHANGED clientVars
    <2>1. Deferred \subseteq Deferred'
      BY <1>3 DEF ExcludeTest, Deferred, Elements
    <2> QED
      BY <1>3, <2>1, ExcludeTestStep, KeptStep
  <1>4. CASE NonCritical /\ UNCHANGED clientVars
    <2>1. scopes # <<>> /\ SetTop([Top EXCEPT !.nonCritical = TRUE])
      BY <1>4 DEF NonCritical, InTest
    <2>2. Top \in Scope
      BY <1>1, <2>1, TopIs
    <2> DEFINE t == [Top EXCEPT !.nonCritical = TRUE]
    <2>3. t \in Scope /\ t.cleanups = Top.cleanups
      BY <2>2 DEF Scope
    <2> HIDE DEF t
    <2>4. Elements(Top.cleanups) \subseteq Elements(t.cleanups) \union {}
      BY <2>3
    <2>5. Deferred \subseteq Deferred'
      BY <1>1, <2>1, <2>3, <2>4, SetTopDefers DEF t
    <2> QED
      BY <1>4, <2>5, NonCriticalStep, KeptStep
  <1>5. CASE Errorf /\ UNCHANGED clientVars
    <2>1. scopes # <<>> /\ SetTop([Top EXCEPT !.failed = TRUE, !.errors = TRUE])
      BY <1>5 DEF Errorf, InTest
    <2>2. Top \in Scope
      BY <1>1, <2>1, TopIs
    <2> DEFINE t == [Top EXCEPT !.failed = TRUE, !.errors = TRUE]
    <2>3. t \in Scope /\ t.cleanups = Top.cleanups
      BY <2>2 DEF Scope
    <2> HIDE DEF t
    <2>4. Elements(Top.cleanups) \subseteq Elements(t.cleanups) \union {}
      BY <2>3
    <2>5. Deferred \subseteq Deferred'
      BY <1>1, <2>1, <2>3, <2>4, SetTopDefers DEF t
    <2> QED
      BY <1>5, <2>5, ErrorfStep, KeptStep
  <1>6. ASSUME NEW error \in BOOLEAN, NEW panicked \in BOOLEAN, scopes # <<>>,
               Top.phase = "running", Leave(error, panicked), UNCHANGED <<counts, outcome>>,
               UNCHANGED clientVars
        PROVE  IInv'
    <2>1. AgreeInv'
      BY <1>1, <1>6, LeaveStep
    <2>2. Deferred \subseteq Deferred'
      BY <1>1, <1>6, LeaveKeeps
    <2> QED
      BY <1>6, <2>1, <2>2, KeptStep
  <1>7. CASE Return /\ UNCHANGED clientVars
    BY <1>6, <1>7 DEF Return
  <1>8. CASE Panic /\ UNCHANGED clientVars
    <2>1. scopes # <<>> /\ Top.phase = "running"
      BY <1>8 DEF Panic, InTest
    <2> QED
      BY <1>6, <1>8, <2>1 DEF Panic
  <1>9. CASE EndOfCleanups /\ UNCHANGED clientVars
    <2>1. scopes # <<>> /\ scopes' = WithoutTop /\ Elements(Top.cleanups) = {}
      BY <1>9 DEF EndOfCleanups, Elements
    <2>2. Deferred \subseteq Deferred'
      BY <1>1, <2>1, WithoutTopDefers
    <2> QED
      BY <1>1, <1>9, <2>2, EndOfCleanupsStep, KeptStep
  <1>10. CASE EndRun /\ UNCHANGED clientVars
    <2>1. Deferred \subseteq Deferred'
      BY <1>10 DEF EndRun, Deferred, Elements
    <2> QED
      BY <1>10, <2>1, EndRunStep, KeptStep
  <1>11. CASE SkipTest
    BY <1>11, SkipTestStep
  <1>12. CASE RunCleanup
    BY <1>12, RunCleanupStep
  <1>13. CASE CloseByTest
    BY <1>13, CloseByTestStep
  <1>14. CASE NewSDKClientRefused
    BY <1>14, NewSDKClientRefusedStep
  <1>15. CASE NewSDKClientFails \/ TryNewSDKClientFails
    BY <1>15, NewSDKClientFailsStep, TryNewSDKClientFailsStep
  <1>16. CASE \E c \in Clients : NewSDKClient(c) \/ TryNewSDKClient(c)
    BY <1>16, NewSDKClientStep, TryNewSDKClientStep
  <1>17. CASE UNCHANGED vars
    <2>1. UNCHANGED scopeVars /\ UNCHANGED clientVars /\ scopes' = scopes
      BY <1>17 DEF vars, scopeVars
    <2>2. Deferred \subseteq Deferred'
      BY <2>1 DEF Deferred, Elements
    <2> QED
      BY <2>1, <2>2, ScopesUnchangedStep, KeptStep
  <1> QED
    BY <1>2, <1>3, <1>4, <1>5, <1>7, <1>8, <1>9, <1>10, <1>11, <1>12, <1>13, <1>14, <1>15,
       <1>16, <1>17, Zenon DEF Next

THEOREM Invariant == Spec => []IInv
  <1>1. Init => IInv
    BY Initial
  <1>2. IInv /\ [Next]_vars => IInv'
    BY Inductive
  <1> QED
    BY <1>1, <1>2, PTL DEF Spec

\* The variables of SDKClients and TestScope keep their types.
THEOREM TypeCorrect == Spec => []TypeOK
  <1>1. IInv => TypeOK
    <2> SUFFICES ASSUME IInv
                 PROVE  TypeOK
      OBVIOUS
    <2>1. StackInv /\ CountInv /\ ReportInv /\ OutcomeInv /\ ClientTypeInv
      BY DEF IInv, AgreeInv, ScopeInv, ClientInv
    <2>2. \A d \in 1..Len(scopes) :
              /\ scopes[d].id \in 0..counts.total /\ scopes[d].phase \in {"running", "cleanup"}
              /\ scopes[d].phase = "cleanup" => d = Len(scopes)
      BY <2>1, ScopesAre DEF CountInv
    <2>3. \A d \in 1..Len(scopes) : scopes[d].id = 0 <=> d = 1
      BY <2>1 DEF StackInv
    <2>4. counts \in [total : 0..MaxTests, skipped : 0..MaxTests]
      BY <2>1, BoundsAssumption DEF CountInv
    <2>5. junit \in [0..counts.total ->
                        [failures : BOOLEAN, skipped : BOOLEAN, nonCritical : BOOLEAN]]
      BY <2>1 DEF ReportInv, Status
    <2>6. ScopeTypeOK
      BY <2>1, <2>2, <2>3, <2>4, <2>5 DEF ScopeTypeOK, StackInv, ReportInv, OutcomeInv
    <2> QED
      BY <2>1, <2>6, CleanupsAre DEF TypeOK, ClientTypeInv
  <1> QED
    BY <1>1, Invariant, PTL

\* Whatever a test does and however it ends, the JUnit report (EndLog of the JUnit
\* logger) and the results (T.run) tell the same of it.
THEOREM ReportsAgreed == Spec => []ReportsAgree
  <1>1. IInv => ReportsAgree
    BY DEF IInv, AgreeInv
  <1> QED
    BY <1>1, Invariant, PTL

\* A run that exits with 0 (main) has no critical failure in its report.
THEOREM ExitCode == Spec => []ExitTellsFailures
  <1>1. IInv => ExitTellsFailures
    BY DEF IInv, AgreeInv
  <1> QED
    BY <1>1, Invariant, PTL

\* closeOnce of a TestServiceEntity lets through one DELETE for a client, also when
\* the test and its cleanup both close it.
THEOREM DeletedOnce == Spec => []OneDelete
  <1>1. IInv => OneDelete
    BY DEF IInv, ClientInv, DeleteInv
  <1> QED
    BY <1>1, Invariant, PTL

\* NewSDKClient refuses a client of a singleton SDK only while another is alive,
\* although Close counts down more often than NewSDKClient counts up.
THEOREM RefusalsJustified == Spec => []RefusedOnlyIfLive
  <1>1. IInv => RefusedOnlyIfLive
    BY DEF IInv, ClientInv, GuardInv
  <1> QED
    BY <1>1, Invariant, PTL

\* The deferred cleanups of T.run close each client with the test that created it,
\* unless that test is skipped, or the harness was given an error for a client that
\* the service had created.
THEOREM ClientsEnd == Spec => []NoClientOutlivesItsTest
  <1>1. IInv => NoClientOutlivesItsTest
    BY DEF IInv
  <1> QED
    BY <1>1, Invariant, PTL

-------------------------------------------------------------------------------
(* The summary. *)

\* The inductive invariant behind SummaryAddsUp: a result is that of a test that was
\* started and whose function does not run any more.
SumInv ==
    /\ SummaryAddsUp
    /\ \A i \in 1..Len(results.Tests) : results.Tests[i] <= counts.total
    /\ \A d \in 1..Len(scopes) : scopes[d].phase = "running" => ~In(results.Tests, scopes[d].id)

LEMMA SumsAre ==
    ASSUME ScopeInv
    PROVE  /\ IsFiniteSet(OpenTests) /\ Cardinality(OpenTests) \in Nat
           /\ IsFiniteSet(RanTests) /\ Cardinality(RanTests) \in Nat
           /\ counts.total \in Nat /\ counts.skipped \in Nat
           /\ results.Tests \in Seq(Nat)
  <1>1. /\ Len(scopes) \in Nat /\ results.Tests \in Seq(Nat)
        /\ counts.total \in Nat /\ counts.skipped \in Nat
    BY BoundsAssumption DEF ScopeInv, StackInv, ReportInv, CountInv
  <1>2. 1 \in Int /\ Len(scopes) \in Int /\ Len(results.Tests) \in Int
    BY <1>1
  <1>3. IsFiniteSet(1..Len(scopes)) /\ IsFiniteSet(1..Len(results.Tests))
    BY <1>2, FS_Interval
  <1>4. OpenTests \in SUBSET (1..Len(scopes)) /\ RanTests \in SUBSET (1..Len(results.Tests))
    BY DEF OpenTests, RanTests
  <1>5. IsFiniteSet(OpenTests) /\ IsFiniteSet(RanTests)
    BY <1>3, <1>4, FS_Subset
  <1> QED
    BY <1>1, <1>5, FS_CardinalityType

LEMMA StartTestSums ==
    ASSUME ScopeInv, SumInv, StartTest
    PROVE  SumInv'
  <1> DEFINE new == counts.total + 1
  <1>1. /\ scopes' = Append(scopes, NewScope(new)) /\ results' = results
        /\ counts' = [counts EXCEPT !.total = new]
    BY DEF StartTest
  <1>2. /\ counts.total \in Nat /\ counts.skipped \in Nat /\ new \in Nat /\ new # 0
        /\ IsFiniteSet(OpenTests) /\ Cardinality(OpenTests) \in Nat /\ Cardinality(RanTests) \in Nat
        /\ results.Tests \in Seq(Nat)
    BY SumsAre
  <1>3. /\ Len(scopes) \in Nat /\ Len(scopes') = Len(scopes) + 1
        /\ \A d \in 1..Len(scopes) : scopes'[d] = scopes[d]
        /\ scopes'[Len(scopes) + 1] = NewScope(new)
        /\ \A d \in 1..Len(scopes') : d = Len(scopes) + 1 \/ d \in 1..Len(scopes)
    BY <1>1, <1>2, NewScopeIs DEF ScopeInv, StackInv
  <1>4. counts'.total = new /\ counts'.skipped = counts.skipped
    BY <1>1 DEF ScopeInv, CountInv
  <1>5. NewScope(new).id = new /\ NewScope(new).phase = "running"
    BY DEF NewScope
  <1> HIDE DEF new
  <1>6. OpenTests' = OpenTests \union {Len(scopes) + 1} /\ Len(scopes) + 1 \notin OpenTests
    BY <1>2, <1>3, <1>5 DEF OpenTests
  <1>7. Cardinality(OpenTests') = Cardinality(OpenTests) + 1
    BY <1>2, <1>6, FS_AddElement
  <1>8. RanTests' = RanTests
    BY <1>1 DEF RanTests
  <1>9. SummaryAddsUp'
    <2>1. counts.total = counts.skipped + Cardinality(OpenTests) + Cardinality(RanTests)
      BY DEF SumInv, SummaryAddsUp
    <2>2. new = counts.total + 1
      BY DEF new
    <2>3. Cardinality(RanTests') = Cardinality(RanTests)
      BY <1>8
    <2>4. Cardinality(OpenTests) \in Nat /\ Cardinality(RanTests) \in Nat /\ counts.skipped \in Nat
      BY <1>2
    <2>5. new = counts.skipped + (Cardinality(OpenTests) + 1) + Cardinality(RanTests)
      BY <2>1, <2>2, <2>4
    <2>6. counts'.total = counts'.skipped + Cardinality(OpenTests') + Cardinality(RanTests')
      BY <1>4, <1>7, <2>3, <2>5, Zenon
    <2> QED
      BY <1>1, <2>6 DEF SumInv, SummaryAddsUp
  <1>10. \A i \in 1..Len(results.Tests) : results.Tests[i] <= counts.total /\ results.Tests[i] \in Nat
    BY <1>2 DEF SumInv
  <1>11. \A i \in 1..Len(results.Tests) : results.Tests[i] <= new /\ results.Tests[i] # new
    <2>1. new = counts.total + 1 /\ counts.total \in Int
      BY <1>2 DEF new
    <2>2. \A x \in Nat : x <= counts.total => x <= new /\ x # new
      BY <2>1
    <2> QED
      BY <1>10, <2>2
  <1>12. \A d \in 1..Len(scopes') :
             scopes'[d].phase = "running" => ~In(results.Tests, scopes'[d].id)
    <2> SUFFICES ASSUME NEW d \in 1..Len(scopes'), scopes'[d].phase = "running"
                 PROVE  ~In(results.Tests, scopes'[d].id)
      OBVIOUS
    <2>1. CASE d = Len(scopes) + 1
      BY <1>3, <1>5, <1>11, <2>1 DEF In
    <2>2. CASE d \in 1..Len(scopes)
      BY <1>3, <2>2 DEF SumInv
    <2> QED
      BY <1>3, <2>1, <2>2
  <1> QED
    BY <1>1, <1>4, <1>9, <1>11, <1>12 DEF SumInv, In

LEMMA ExcludeTestSums ==
    ASSUME ScopeInv, SumInv, ExcludeTest
    PROVE  SumInv'
  <1>1. /\ scopes' = scopes /\ results' = results
        /\ counts' = [total |-> counts.total + 1, skipped |-> counts.skipped + 1]
    BY DEF ExcludeTest
  <1>2. counts'.total = counts.total + 1 /\ counts'.skipped = counts.skipped + 1
    BY <1>1
  <1>3. /\ counts.total \in Nat /\ counts.skipped \in Nat
        /\ Cardinality(OpenTests) \in Nat /\ Cardinality(RanTests) \in Nat
        /\ results.Tests \in Seq(Nat)
    BY SumsAre
  <1>4. OpenTests' = OpenTests /\ RanTests' = RanTests
    BY <1>1 DEF OpenTests, RanTests
  <1>5. SummaryAddsUp'
    <2>1. counts.total = counts.skipped + Cardinality(OpenTests) + Cardinality(RanTests)
      BY DEF SumInv, SummaryAddsUp
    <2>2. counts'.total = counts'.skipped + Cardinality(OpenTests') + Cardinality(RanTests')
      BY <1>2, <1>3, <1>4, <2>1
    <2> QED
      BY <1>1, <2>2 DEF SumInv, SummaryAddsUp
  <1>6. \A i \in 1..Len(results.Tests) : results.Tests[i] <= counts'.total
    BY <1>2, <1>3 DEF SumInv
  <1> QED
    BY <1>1, <1>5, <1>6 DEF SumInv, In

\* A test that has left the stack, or never was there.
LEMMA SkipSums ==
    ASSUME ScopeInv, SumInv, Skip
    PROVE  SumInv'
  <1>1. /\ scopes # <<>> /\ Len(scopes) > 1 /\ Top.phase = "running"
        /\ scopes' = WithoutTop /\ results' = results
        /\ counts' = [counts EXCEPT !.skipped = @ + 1]
    BY DEF Skip, InTest
  <1>2. counts'.total = counts.total /\ counts'.skipped = counts.skipped + 1
    BY <1>1 DEF ScopeInv, CountInv
  <1>3. /\ counts.total \in Nat /\ counts.skipped \in Nat /\ IsFiniteSet(OpenTests)
        /\ Cardinality(OpenTests) \in Nat /\ Cardinality(RanTests) \in Nat
    BY SumsAre
  <1>4. /\ Len(scopes) \in Nat \ {0} /\ Len(scopes') = Len(scopes) - 1
        /\ \A d \in 1..Len(scopes) - 1 : scopes'[d] = scopes[d]
        /\ Top = scopes[Len(scopes)]
    BY <1>1, TopIs, WithoutTopIs DEF ScopeInv
  <1>5. scopes[Len(scopes)].id # 0 /\ scopes[Len(scopes)].phase = "running"
    BY <1>1, <1>4 DEF ScopeInv, StackInv
  <1>6. OpenTests' = OpenTests \ {Len(scopes)} /\ Len(scopes) \in OpenTests
    BY <1>4, <1>5 DEF OpenTests
  <1>7. Cardinality(OpenTests') = Cardinality(OpenTests) - 1
    BY <1>3, <1>6, FS_RemoveElement
  <1>8. RanTests' = RanTests
    BY <1>1 DEF RanTests
  <1>9. SummaryAddsUp'
    <2>1. counts.total = counts.skipped + Cardinality(OpenTests) + Cardinality(RanTests)
      BY DEF SumInv, SummaryAddsUp
    <2>2. counts'.total = counts'.skipped + Cardinality(OpenTests') + Cardinality(RanTests')
      BY <1>2, <1>3, <1>7, <1>8, <2>1
    <2> QED
      BY <1>1, <2>2 DEF SumInv, SummaryAddsUp
  <1>10. \A d \in 1..Len(scopes') :
             scopes'[d].phase = "running" => ~In(results.Tests, scopes'[d].id)
    BY <1>4 DEF SumInv
  <1> QED
    BY <1>1, <1>2, <1>9, <1>10 DEF SumInv, In

LEMMA EndOfCleanupsSums ==
    ASSUME ScopeInv, SumInv, EndOfCleanups
    PROVE  SumInv'
  <1>1. /\ scopes # <<>> /\ Top.phase = "cleanup"
        /\ scopes' = WithoutTop /\ results' = results /\ counts' = counts
    BY DEF EndOfCleanups
  <1>2. /\ Len(scopes) \in Nat \ {0} /\ Len(scopes') = Len(scopes) - 1
        /\ \A d \in 1..Len(scopes) - 1 : scopes'[d] = scopes[d]
        /\ Top = scopes[Len(scopes)]
    BY <1>1, TopIs, WithoutTopIs DEF ScopeInv
  <1>3. OpenTests' = OpenTests
    BY <1>1, <1>2 DEF OpenTests
  <1>4. RanTests' = RanTests
    BY <1>1 DEF RanTests
  <1>5. \A d \in 1..Len(scopes') :
             scopes'[d].phase = "running" => ~In(results.Tests, scopes'[d].id)
    BY <1>2 DEF SumInv
  <1> QED
    BY <1>1, <1>3, <1>4, <1>5 DEF SumInv, SummaryAddsUp, In

\* A scope that takes another state, or nothing happens to the scopes.
LEMMA SameSums ==
    ASSUME ScopeInv, SumInv, results' = results, counts' = counts,
           \/ scopes' = scopes
           \/ scopes # <<>> /\ \E t \in Scope : SetTop(t) /\ t.id = Top.id /\ t.phase = Top.phase
    PROVE  SumInv'
  <1>1. /\ Len(scopes') = Len(scopes)
        /\ \A d \in 1..Len(scopes) : scopes'[d].id = scopes[d].id /\ scopes'[d].phase = scopes[d].phase
    <2>1. CASE scopes' = scopes
      BY <2>1
    <2>2. ASSUME scopes # <<>>, NEW t \in Scope, SetTop(t), t.id = Top.id, t.phase = Top.phase
          PROVE  /\ Len(scopes') = Len(scopes)
                 /\ \A d \in 1..Len(scopes) :
                        scopes'[d].id = scopes[d].id /\ scopes'[d].phase = scopes[d].phase
      <3>1. /\ Len(scopes') = Len(scopes) /\ Top = scopes[Len(scopes)]
            /\ \A d \in 1..Len(scopes) : scopes'[d] = IF d = Len(scopes) THEN t ELSE scopes[d]
        BY <2>2, TopIs, SetTopIs DEF ScopeInv
      <3> QED
        BY <2>2, <3>1
    <2> QED
      BY <2>1, <2>2
  <1>2. OpenTests' = OpenTests
    BY <1>1 DEF OpenTests
  <1>3. RanTests' = RanTests
    BY DEF RanTests
  <1> QED
    BY <1>1, <1>2, <1>3 DEF SumInv, SummaryAddsUp, In

\* The function of a test ends: from now on it counts as one that ran.
LEMMA LeaveSums ==
    ASSUME ScopeInv, SumInv, scopes # <<>>, Top.phase = "running",
           NEW error \in BOOLEAN, NEW panicked \in BOOLEAN, Leave(error, panicked),
           counts' = counts
    PROVE  SumInv'
  <1> DEFINE top == Len(scopes)
             n == Len(results.Tests)
             id == Top.id
  <1>1. PICK t \in Scope :
            /\ SetTop(t) /\ t.id = id /\ t.phase = "cleanup"
            /\ results'.Tests = Append(results.Tests, t.id)
    BY LeaveIs
  <1>2. /\ counts.total \in Nat /\ counts.skipped \in Nat
        /\ IsFiniteSet(OpenTests) /\ Cardinality(OpenTests) \in Nat
        /\ IsFiniteSet(RanTests) /\ Cardinality(RanTests) \in Nat
        /\ results.Tests \in Seq(Nat)
    BY SumsAre
  <1>3. /\ top \in Nat \ {0} /\ Top = scopes[top] /\ id \in 0..counts.total
        /\ Len(scopes') = top
        /\ \A d \in 1..top : scopes'[d] = IF d = top THEN t ELSE scopes[d]
    BY <1>1, TopIs, SetTopIs DEF ScopeInv
  <1>4. /\ id \in Nat /\ n \in Nat /\ Len(results'.Tests) = n + 1 /\ results'.Tests[n + 1] = id
        /\ \A i \in 1..n : results'.Tests[i] = results.Tests[i]
        /\ \A i \in 1..n + 1 : i = n + 1 \/ i \in 1..n
    <2>1. id \in Nat /\ n \in Nat
      BY <1>2, <1>3
    <2>2. results.Tests \in Seq(Nat) /\ results'.Tests = Append(results.Tests, id)
      BY <1>1, <1>2
    <2> HIDE DEF id
    <2>3. /\ Len(results'.Tests) = n + 1 /\ results'.Tests[n + 1] = id
          /\ \A i \in 1..n : results'.Tests[i] = results.Tests[i]
      BY <2>1, <2>2
    <2> QED
      BY <2>1, <2>3
  <1>5. ~In(results.Tests, id)
    BY <1>3 DEF SumInv
  <1>6. scopes[top].id = id /\ scopes[top].phase = "running" /\ top \in 1..top
    BY <1>3
  <1> HIDE DEF top, n, id
  <1>7. /\ id # 0 => OpenTests' = OpenTests \ {top} /\ top \in OpenTests
        /\ id = 0 => OpenTests' = OpenTests
    BY <1>1, <1>3, <1>6 DEF OpenTests, top
  <1>8. /\ id # 0 => RanTests' = RanTests \union {n + 1} /\ n + 1 \notin RanTests
        /\ id = 0 => RanTests' = RanTests
    <2>1. RanTests' = {i \in 1..n + 1 : results'.Tests[i] # 0}
      BY <1>4 DEF RanTests
    <2>2. RanTests = {i \in 1..n : results.Tests[i] # 0}
      BY DEF RanTests, n
    <2> QED
      BY <1>4, <2>1, <2>2
  <1>9. counts'.total = counts'.skipped + Cardinality(OpenTests') + Cardinality(RanTests')
    <2>1. counts.total = counts.skipped + Cardinality(OpenTests) + Cardinality(RanTests)
      BY DEF SumInv, SummaryAddsUp
    <2>2. CASE id = 0
      BY <1>7, <1>8, <2>1, <2>2
    <2>3. CASE id # 0
      <3>1. Cardinality(OpenTests') = Cardinality(OpenTests) - 1
        BY <1>2, <1>7, <2>3, FS_RemoveElement
      <3>2. Cardinality(RanTests') = Cardinality(RanTests) + 1
        BY <1>2, <1>8, <2>3, FS_AddElement
      <3> QED
        BY <1>2, <2>1, <3>1, <3>2
    <2> QED
      BY <2>2, <2>3
  <1>10. ASSUME NEW i \in 1..n + 1, NEW j \in 1..n + 1, results'.Tests[i] = results'.Tests[j]
         PROVE  i = j
    <2>1. \A k \in 1..n : results.Tests[k] # id
      BY <1>5 DEF In, n
    <2>2. \A k, l \in 1..n : results.Tests[k] = results.Tests[l] => k = l
      BY DEF SumInv, SummaryAddsUp, n
    <2> QED
      BY <1>4, <1>10, <2>1, <2>2
  <1>11. \A i \in 1..n + 1 : results'.Tests[i] <= counts.total
    <2>1. \A i \in 1..n : results.Tests[i] <= counts.total
      BY DEF SumInv, n
    <2>2. id <= counts.total
      BY <1>2, <1>3
    <2> QED
      BY <1>4, <2>1, <2>2
  <1>12. ASSUME NEW d \in 1..top, scopes'[d].phase = "running"
         PROVE  ~In(results'.Tests, scopes'[d].id)
    <2>1. d # top /\ scopes'[d] = scopes[d]
      BY <1>1, <1>3, <1>12
    <2>2. d \in 1..Len(scopes) /\ scopes[d].id # id
      BY <1>6, <2>1 DEF top, ScopeInv, StackInv
    <2>3. ~In(results.Tests, scopes[d].id)
      BY <1>12, <2>1, <2>2 DEF SumInv
    <2>4. \A i \in 1..n : results.Tests[i] # scopes[d].id
      BY <2>3 DEF In, n
    <2>5. \A i \in 1..n + 1 : results'.Tests[i] # scopes[d].id
      BY <1>4, <2>2, <2>4
    <2>6. ~In(results'.Tests, scopes[d].id)
      BY <1>4, <2>5 DEF In
    <2> QED
      BY <2>1, <2>6
  <1>13. \A i, j \in 1..Len(results'.Tests) : results'.Tests[i] = results'.Tests[j] => i = j
    BY <1>4, <1>10
  <1>14. SummaryAddsUp'
    BY <1>9, <1>13 DEF SummaryAddsUp
  <1>15. \A i \in 1..Len(results'.Tests) : results'.Tests[i] <= counts'.total
    BY <1>4, <1>11
  <1>16. \A d \in 1..Len(scopes') :
             scopes'[d].phase = "running" => ~In(results'.Tests, scopes'[d].id)
    BY <1>3, <1>12
  <1> QED
    BY <1>14, <1>15, <1>16 DEF SumInv, In

\* The clients of a test do not count.
LEMMA CleanupsSums ==
    ASSUME ScopeInv, SumInv, scopes # <<>>, NEW s \in Seq(Clients),
           SetTop([Top EXCEPT !.cleanups = s]), results' = results, counts' = counts
    PROVE  SumInv'
  <1>1. Top \in Scope
    BY TopIs DEF ScopeInv
  <1> DEFINE t == [Top EXCEPT !.cleanups = s]
  <1>2. t \in Scope /\ t.id = Top.id /\ t.phase = Top.phase
    BY <1>1 DEF Scope
  <1> HIDE DEF t
  <1>3. SetTop(t)
    BY DEF t
  <1> QED
    BY <1>2, <1>3, SameSums

LEMMA RunCleanupSums ==
    ASSUME ScopeInv, SumInv, RunCleanup
    PROVE  SumInv'
  <1> DEFINE n == Len(Top.cleanups)
             rest == SubSeq(Top.cleanups, 1, n - 1)
  <1>1. /\ scopes # <<>> /\ Top.cleanups # <<>> /\ SetTop([Top EXCEPT !.cleanups = rest])
        /\ results' = results /\ counts' = counts
    BY DEF RunCleanup
  <1>2. Top \in Scope
    BY <1>1, TopIs DEF ScopeInv
  <1>3. Top.cleanups \in Seq(Clients)
    BY <1>2 DEF Scope
  <1>4. rest \in Seq(Clients)
    BY <1>1, <1>3
  <1> HIDE DEF n, rest
  <1> QED
    BY <1>1, <1>4, CleanupsSums

LEMMA CreatedSums ==
    ASSUME ScopeInv, SumInv, InTest, NEW c \in Clients, Created(c),
           results' = results, counts' = counts
    PROVE  SumInv'
  <1> DEFINE more == Append(Top.cleanups, c)
  <1>1. scopes # <<>> /\ SetTop([Top EXCEPT !.cleanups = more])
    BY DEF Created, InTest
  <1>2. Top \in Scope
    BY <1>1, TopIs DEF ScopeInv
  <1>3. Top.cleanups \in Seq(Clients)
    BY <1>2 DEF Scope
  <1>4. more \in Seq(Clients)
    BY <1>3
  <1> HIDE DEF more
  <1> QED
    BY <1>1, <1>4, CleanupsSums

LEMMA InitialSums == Init => SumInv
  <1> SUFFICES ASSUME Init
               PROVE  SumInv
    OBVIOUS
  <1>1. ScopeInv
    BY Initial DEF IInv, AgreeInv
  <1>2. /\ counts.total = 0 /\ counts.skipped = 0
        /\ results.Tests = <<>> /\ Len(results.Tests) = 0
    BY DEF Init, ScopeInit
  <1>3. scopes = <<>> \/ (scopes = <<NewScope(0)>> /\ NewScope(0).id = 0)
    BY DEF Init, ScopeInit, NewScope
  <1>4. \A d \in 1..Len(scopes) : scopes[d].id = 0
    <2>1. CASE scopes = <<>>
      BY <2>1
    <2>2. CASE scopes = <<NewScope(0)>> /\ NewScope(0).id = 0
      <3> DEFINE root == NewScope(0)
      <3>1. scopes = <<root>> /\ root.id = 0
        BY <2>2
      <3> HIDE DEF root
      <3> QED
        BY <3>1
    <2> QED
      BY <1>3, <2>1, <2>2
  <1>5. OpenTests = {} /\ RanTests = {}
    BY <1>2, <1>4 DEF OpenTests, RanTests
  <1>6. Cardinality(OpenTests) = 0 /\ Cardinality(RanTests) = 0
    BY <1>5, FS_EmptySet
  <1> QED
    BY <1>2, <1>6 DEF SumInv, SummaryAddsUp, In

LEMMA InductiveSums == IInv /\ SumInv /\ [Next]_vars => SumInv'
  <1> SUFFICES ASSUME IInv, SumInv, [Next]_vars
               PROVE  SumInv'
    OBVIOUS
  <1>0. FALSE \in BOOLEAN /\ TRUE \in BOOLEAN
    OBVIOUS
  <1>1. ScopeInv
    BY DEF IInv, AgreeInv
  <1>2. CASE StartTest /\ UNCHANGED clientVars
    BY <1>1, <1>2, StartTestSums
  <1>3. CASE ExcludeTest /\ UNCHANGED clientVars
    BY <1>1, <1>3, ExcludeTestSums
  <1>4. CASE NonCritical /\ UNCHANGED clientVars
    <2> DEFINE t == [Top EXCEPT !.nonCritical = TRUE]
    <2>1. scopes # <<>> /\ SetTop(t) /\ results' = results /\ counts' = counts
      BY <1>4 DEF NonCritical, InTest
    <2>2. Top \in Scope
      BY <1>1, <2>1, TopIs DEF ScopeInv
    <2>3. t \in Scope /\ t.id = Top.id /\ t.phase = Top.phase
      BY <2>2 DEF Scope
    <2> HIDE DEF t
    <2> QED
      BY <1>1, <2>1, <2>3, SameSums
  <1>5. CASE Errorf /\ UNCHANGED clientVars
    <2> DEFINE t == [Top EXCEPT !.failed = TRUE, !.errors = TRUE]
    <2>1. scopes # <<>> /\ SetTop(t) /\ results' = results /\ counts' = counts
      BY <1>5 DEF Errorf, InTest
    <2>2. Top \in Scope
      BY <1>1, <2>1, TopIs DEF ScopeInv
    <2>3. t \in Scope /\ t.id = Top.id /\ t.phase = Top.phase
      BY <2>2 DEF Scope
    <2> HIDE DEF t
    <2> QED
      BY <1>1, <2>1, <2>3, SameSums
  <1>6. CASE Return /\ UNCHANGED clientVars
    <2>1. scopes # <<>> /\ Top.phase = "running" /\ Leave(FALSE, FALSE) /\ counts' = counts
      BY <1>6 DEF Return
    <2> QED
      BY <1>0, <1>1, <2>1, LeaveSums, Zenon
  <1>7. CASE Panic /\ UNCHANGED clientVars
    <2>1. scopes # <<>> /\ Top.phase = "running" /\ counts' = counts
      BY <1>7 DEF Panic, InTest
    <2>2. Leave(FALSE, TRUE)
      BY <1>7, Zenon DEF Panic
    <2> QED
      BY <1>0, <1>1, <2>1, <2>2, LeaveSums, Zenon
  <1>8. CASE EndOfCleanups /\ UNCHANGED clientVars
    BY <1>1, <1>8, EndOfCleanupsSums
  <1>9. CASE EndRun /\ UNCHANGED clientVars
    <2>1. scopes' = scopes /\ results' = results /\ counts' = counts
      BY <1>9 DEF EndRun
    <2> QED
      BY <1>1, <2>1, SameSums
  <1>10. CASE SkipTest
    BY <1>1, <1>10, SkipSums DEF SkipTest
  <1>11. CASE RunCleanup
    BY <1>1, <1>11, RunCleanupSums
  <1>12. CASE CloseByTest \/ TryNewSDKClientFails
    <2>1. scopes' = scopes /\ results' = results /\ counts' = counts
      BY <1>12 DEF CloseByTest, TryNewSDKClientFails, scopeVars
    <2> QED
      BY <1>1, <2>1, SameSums
  <1>13. CASE NewSDKClientRefused \/ NewSDKClientFails
    <2>1. Leave(TRUE, TRUE) /\ UNCHANGED <<counts, outcome>> /\ InTest
      <3>1. CASE NewSDKClientRefused
        BY <3>1 DEF NewSDKClientRefused
      <3>2. CASE NewSDKClientFails
        BY <3>2, Zenon DEF NewSDKClientFails
      <3> QED
        BY <1>13, <3>1, <3>2
    <2>2. scopes # <<>> /\ Top.phase = "running" /\ counts' = counts
      BY <2>1 DEF InTest
    <2> QED
      BY <1>0, <1>1, <2>1, <2>2, LeaveSums, Zenon
  <1>14. ASSUME NEW c \in Clients, NewSDKClient(c) \/ TryNewSDKClient(c)
         PROVE  SumInv'
    <2>1. InTest /\ Created(c) /\ results' = results /\ counts' = counts
      BY <1>14 DEF NewSDKClient, TryNewSDKClient
    <2> QED
      BY <1>1, <2>1, CreatedSums
  <1>15. CASE UNCHANGED vars
    <2>1. scopes' = scopes /\ results' = results /\ counts' = counts
      BY <1>15 DEF vars, scopeVars
    <2> QED
      BY <1>1, <2>1, SameSums
  <1> QED
    BY <1>2, <1>3, <1>4, <1>5, <1>6, <1>7, <1>8, <1>9, <1>10, <1>11, <1>12, <1>13, <1>14,
       <1>15, Zenon DEF Next

\* The summary that main prints adds up: T.Run and T.run account for each test that
\* was started once, however it ends, and no test has two results.
THEOREM SummaryTrue == Spec => []SummaryAddsUp
  <1>1. Init => SumInv
    BY InitialSums
  <1>2. IInv /\ SumInv /\ [Next]_vars => SumInv'
    BY InductiveSums
  <1>3. SumInv => SummaryAddsUp
    BY DEF SumInv
  <1> QED
    BY <1>1, <1>2, <1>3, Invariant, PTL DEF Spec

-------------------------------------------------------------------------------
(* The refinement. *)

\* The tests on the stack are numbered in the order in which they were started.
OrderInv == \A d, e \in 1..Len(scopes) : d < e => scopes[d].id < scopes[e].id

RunningAt(n) == \E d \in 1..Len(scopes) : scopes[d].id = n /\ scopes[d].phase = "running"

LEMMA VerdictIs ==
    ASSUME ScopeInv, NEW n \in 0..MaxTests
    PROVE  /\ contractVerdict[n] = "running" <=> RunningAt(n)
           /\ contractVerdict[n] = "none" <=> n > counts.total
           /\ contractVerdict[n] = "failed" => In(results.Failures, n)
  <1>1. counts.total \in 0..MaxTests /\ MaxTests \in Nat
    BY BoundsAssumption DEF ScopeInv, CountInv
  <1>2. RunningAt(n) => ~(n > counts.total)
    BY <1>1, ScopesAre DEF ScopeInv, RunningAt
  <1>3. contractVerdict[n] =
            IF n > counts.total THEN "none"
            ELSE IF RunningAt(n) THEN "running"
            ELSE IF In(results.Failures, n) THEN "failed"
            ELSE IF In(results.NonCriticalFailures, n) THEN "excused"
            ELSE IF In(results.Tests, n) THEN "passed" ELSE "skipped"
    BY DEF contractVerdict, RunningAt
  <1> QED
    BY <1>2, <1>3

LEMMA VerdictsAre ==
    /\ contractVerdict = [n \in 0..MaxTests |-> contractVerdict[n]]
    /\ contractVerdict' = [n \in 0..MaxTests |-> contractVerdict'[n]]
  BY DEF contractVerdict

\* What does not tell the scopes and results apart does not tell the verdicts apart.
LEMMA SameVerdicts ==
    ASSUME counts'.total = counts.total, results' = results,
           \A n \in 0..MaxTests : RunningAt(n)' <=> RunningAt(n)
    PROVE  contractVerdict' = contractVerdict
  BY DEF contractVerdict, RunningAt, In

LEMMA StartRefines ==
    ASSUME ScopeInv, SumInv, StartTest \/ ExcludeTest
    PROVE  \E n \in 1..MaxTests : Contract!Start(n)
  <1>1. /\ scopes # <<>> /\ Top.phase = "running" /\ counts.total < MaxTests
        /\ results' = results /\ outcome' = outcome
    BY DEF StartTest, ExcludeTest, TestStarted
  <1>2. /\ counts.total \in Nat /\ MaxTests \in Nat /\ Len(scopes) \in Nat \ {0}
        /\ Top = scopes[Len(scopes)] /\ Top.id \in 0..counts.total
        /\ results.Tests \in Seq(Nat)
    BY <1>1, BoundsAssumption, TopIs, SumsAre DEF ScopeInv
  <1>3. PICK new \in 1..MaxTests : new = counts.total + 1
    BY <1>1, <1>2
  <1>4. /\ new \in 0..MaxTests /\ new - 1 = counts.total /\ counts.total \in 0..MaxTests
        /\ counts'.total = new
    <2>1. counts'.total = counts.total + 1
      BY DEF StartTest, ExcludeTest, ScopeInv, CountInv
    <2> QED
      BY <1>1, <1>2, <1>3, <2>1
  <1>5. /\ ~RunningAt(new)
        /\ ~In(results.Failures, new) /\ ~In(results.NonCriticalFailures, new)
        /\ ~In(results.Tests, new)
    <2>1. \A d \in 1..Len(scopes) : scopes[d].id # new
      BY <1>2, <1>3, ScopesAre DEF ScopeInv
    <2>2. \A i \in 1..Len(results.Tests) : results.Tests[i] # new
      BY <1>2, <1>3 DEF SumInv
    <2>3. ~(new <= counts.total) /\ new \in Nat
      BY <1>2, <1>3
    <2>4. ~In(results.Failures, new) /\ ~In(results.NonCriticalFailures, new)
      BY <2>3 DEF ScopeInv, ReportInv
    <2> QED
      BY <2>1, <2>2, <2>4 DEF RunningAt, In
  <1>6. /\ contractVerdict[new] = "none" /\ contractVerdict[new - 1] # "none"
        /\ contractVerdict[Top.id] = "running" /\ Top.id \in 0..MaxTests
    <2>1. Top.id \in 0..MaxTests
      BY <1>2, <1>4
    <2>2. RunningAt(Top.id)
      BY <1>1, <1>2 DEF RunningAt
    <2>3. new > counts.total /\ ~(new - 1 > counts.total) /\ new - 1 \in 0..MaxTests
      BY <1>2, <1>3, <1>4
    <2>4. contractVerdict[new] = "none"
      BY <1>4, <2>3, VerdictIs
    <2>5. contractVerdict[new - 1] # "none"
      BY <2>3, VerdictIs
    <2>6. contractVerdict[Top.id] = "running"
      BY <2>1, <2>2, VerdictIs
    <2> QED
      BY <2>1, <2>4, <2>5, <2>6
  <1>7. \A n \in 0..MaxTests : n # new => (n > counts'.total <=> n > counts.total)
    BY <1>2, <1>3, <1>4
  <1>8. ASSUME NEW v \in {"running", "skipped"},
               \A n \in 0..MaxTests : RunningAt(n)' <=> RunningAt(n) \/ (n = new /\ v = "running")
        PROVE  Contract!Start(new)
    <2>1. contractVerdict'[new] = v
      <3>1. ~(new > counts.total)' /\ (RunningAt(new)' <=> v = "running")
        BY <1>2, <1>3, <1>4, <1>5, <1>8
      <3>2. /\ ~In(results.Failures, new)' /\ ~In(results.NonCriticalFailures, new)'
            /\ ~In(results.Tests, new)'
        BY <1>1, <1>5 DEF In
      <3>3. contractVerdict'[new] = IF (new > counts.total)' THEN "none"
              ELSE IF RunningAt(new)' THEN "running"
              ELSE IF In(results.Failures, new)' THEN "failed"
              ELSE IF In(results.NonCriticalFailures, new)' THEN "excused"
              ELSE IF In(results.Tests, new)' THEN "passed" ELSE "skipped"
        BY <1>4 DEF contractVerdict, RunningAt
      <3> QED
        BY <1>8, <3>1, <3>2, <3>3
    <2>2. \A n \in 0..MaxTests : n # new => contractVerdict'[n] = contractVerdict[n]
      BY <1>1, <1>7, <1>8 DEF contractVerdict, RunningAt, In
    <2>3. contractVerdict' = [contractVerdict EXCEPT ![new] = v]
      BY <1>4, <2>1, <2>2, VerdictsAre
    <2> QED
      BY <1>1, <1>6, <2>3 DEF Contract!Start, Contract!Running
  <1>9. CASE StartTest
    <2>1. scopes' = Append(scopes, NewScope(new)) /\ NewScope(new) \in Scope
      BY <1>3, <1>9, NewScopeIs DEF StartTest
    <2>2. NewScope(new).id = new /\ NewScope(new).phase = "running"
      BY DEF NewScope
    <2>3. /\ Len(scopes') = Len(scopes) + 1 /\ scopes'[Len(scopes) + 1] = NewScope(new)
          /\ \A d \in 1..Len(scopes) : scopes'[d] = scopes[d]
          /\ \A d \in 1..Len(scopes') : d = Len(scopes) + 1 \/ d \in 1..Len(scopes)
      BY <1>2, <2>1 DEF ScopeInv, StackInv
    <2>4. ASSUME NEW n \in 0..MaxTests
          PROVE  RunningAt(n)' <=> RunningAt(n) \/ n = new
      <3>1. Len(scopes) \in Nat /\ Len(scopes) + 1 \in 1..Len(scopes')
            /\ \A d \in 1..Len(scopes) : d \in 1..Len(scopes')
        BY <1>2, <2>3
      <3>2. ASSUME RunningAt(n)'
            PROVE  RunningAt(n) \/ n = new
        BY <2>2, <2>3, <3>2 DEF RunningAt
      <3>3. ASSUME RunningAt(n)
            PROVE  RunningAt(n)'
        <4>1. PICK d \in 1..Len(scopes) : scopes[d].id = n /\ scopes[d].phase = "running"
          BY <3>3 DEF RunningAt
        <4>2. d \in 1..Len(scopes') /\ scopes'[d].id = n /\ scopes'[d].phase = "running"
          BY <2>3, <3>1, <4>1
        <4> QED
          BY <4>2, Zenon DEF RunningAt
      <3>4. RunningAt(new)'
        <4>1. scopes'[Len(scopes) + 1].id = new /\ scopes'[Len(scopes) + 1].phase = "running"
          BY <2>2, <2>3
        <4> QED
          BY <3>1, <4>1, Zenon DEF RunningAt
      <3> QED
        BY <3>2, <3>3, <3>4
    <2> QED
      BY <1>3, <1>8, <2>4
  <1>10. CASE ExcludeTest
    <2>1. \A n \in 0..MaxTests : RunningAt(n)' <=> RunningAt(n)
      BY <1>10 DEF ExcludeTest, RunningAt
    <2> QED
      BY <1>3, <1>8, <2>1
  <1> QED
    BY <1>9, <1>10

LEMMA EndRefines ==
    ASSUME ScopeInv, OrderInv, scopes # <<>>, Top.phase = "running",
           counts'.total = counts.total, outcome'.exit = outcome.exit,
           \A n \in 0..MaxTests : RunningAt(n)' <=> RunningAt(n) /\ n # Top.id,
           \A n \in 0..MaxTests : n # Top.id =>
               /\ In(results'.Failures, n) <=> In(results.Failures, n)
               /\ In(results'.NonCriticalFailures, n) <=> In(results.NonCriticalFailures, n)
               /\ In(results'.Tests, n) <=> In(results.Tests, n)
    PROVE  \E n \in 0..MaxTests : Contract!End(n)
  <1> DEFINE id == Top.id
  <1>1. /\ Len(scopes) \in Nat \ {0} /\ Top = scopes[Len(scopes)] /\ id \in 0..counts.total
        /\ counts.total \in 0..MaxTests /\ MaxTests \in Nat
    BY BoundsAssumption, TopIs DEF ScopeInv, CountInv
  <1>2. id \in 0..MaxTests /\ ~(id > counts.total)
    BY <1>1
  <1>3. RunningAt(id)
    BY <1>1 DEF RunningAt
  <1>4. ASSUME NEW m \in 0..MaxTests, RunningAt(m)
        PROVE  ~(m > id)
    <2>1. PICK d \in 1..Len(scopes) : scopes[d].id = m
      BY <1>4 DEF RunningAt
    <2>2. d = Len(scopes) \/ d < Len(scopes)
      BY <1>1
    <2>3. d < Len(scopes) => m < id
      BY <1>1, <2>1 DEF OrderInv
    <2> QED
      BY <1>1, <1>4, <2>1, <2>2, <2>3
  <1>5. contractVerdict'[id] \in Contract!Verdicts
    BY <1>2 DEF contractVerdict, RunningAt, Contract!Verdicts
  <1>6. \A n \in 0..MaxTests : n # id => contractVerdict'[n] = contractVerdict[n]
    <2> SUFFICES ASSUME NEW n \in 0..MaxTests, n # id
                 PROVE  contractVerdict'[n] = contractVerdict[n]
      OBVIOUS
    <2>1. n > counts'.total <=> n > counts.total
      OBVIOUS
    <2>2. RunningAt(n)' <=> RunningAt(n)
      OBVIOUS
    <2>3. /\ In(results.Failures, n)' <=> In(results.Failures, n)
          /\ In(results.NonCriticalFailures, n)' <=> In(results.NonCriticalFailures, n)
          /\ In(results.Tests, n)' <=> In(results.Tests, n)
      BY DEF In
    <2>4. contractVerdict'[n] = IF (n > counts.total)' THEN "none"
            ELSE IF RunningAt(n)' THEN "running"
            ELSE IF In(results.Failures, n)' THEN "failed"
            ELSE IF In(results.NonCriticalFailures, n)' THEN "excused"
            ELSE IF In(results.Tests, n)' THEN "passed" ELSE "skipped"
      BY DEF contractVerdict, RunningAt
    <2>5. contractVerdict[n] = IF n > counts.total THEN "none"
            ELSE IF RunningAt(n) THEN "running"
            ELSE IF In(results.Failures, n) THEN "failed"
            ELSE IF In(results.NonCriticalFailures, n) THEN "excused"
            ELSE IF In(results.Tests, n) THEN "passed" ELSE "skipped"
      BY DEF contractVerdict, RunningAt
    <2> QED
      BY <2>1, <2>2, <2>3, <2>4, <2>5
  <1> HIDE DEF id
  <1>7. contractVerdict' = [contractVerdict EXCEPT ![id] = contractVerdict'[id]]
    BY <1>2, <1>6, VerdictsAre
  <1>8. /\ Contract!Running(id)
        /\ \A m \in 0..MaxTests : m > id => ~Contract!Running(m)
    BY <1>2, <1>3, <1>4, VerdictIs DEF Contract!Running
  <1>9. Contract!End(id)
    BY <1>5, <1>7, <1>8 DEF Contract!End
  <1> QED
    BY <1>2, <1>9

LEMMA SkipRefines ==
    ASSUME ScopeInv, OrderInv, Skip
    PROVE  OrderInv' /\ \E n \in 0..MaxTests : Contract!End(n)
  <1>1. /\ scopes # <<>> /\ Top.phase = "running" /\ scopes' = WithoutTop
        /\ results' = results /\ outcome' = outcome
        /\ counts' = [counts EXCEPT !.skipped = @ + 1]
    BY DEF Skip, InTest
  <1>2. counts'.total = counts.total
    BY <1>1 DEF ScopeInv, CountInv
  <1>3. /\ Len(scopes) \in Nat \ {0} /\ Len(scopes') = Len(scopes) - 1
        /\ \A d \in 1..Len(scopes) - 1 : scopes'[d] = scopes[d]
        /\ Top = scopes[Len(scopes)]
    BY <1>1, TopIs, WithoutTopIs DEF ScopeInv
  <1>4. OrderInv'
    BY <1>3 DEF OrderInv
  <1>5. ASSUME NEW n \in 0..MaxTests
        PROVE  RunningAt(n)' <=> RunningAt(n) /\ n # Top.id
    <2>1. \A d, e \in 1..Len(scopes) : scopes[d].id = scopes[e].id => d = e
      BY DEF ScopeInv, StackInv
    <2>2. ASSUME RunningAt(n)'
          PROVE  RunningAt(n) /\ n # Top.id
      <3>1. PICK d \in 1..Len(scopes) - 1 : scopes[d].id = n /\ scopes[d].phase = "running"
        BY <1>3, <2>2 DEF RunningAt
      <3>2. d \in 1..Len(scopes) /\ Len(scopes) \in 1..Len(scopes) /\ d # Len(scopes)
        BY <1>3
      <3>3. n # Top.id
        BY <1>3, <2>1, <3>1, <3>2
      <3> QED
        BY <3>1, <3>2, <3>3 DEF RunningAt
    <2>3. ASSUME RunningAt(n), n # Top.id
          PROVE  RunningAt(n)'
      <3>1. PICK d \in 1..Len(scopes) : scopes[d].id = n /\ scopes[d].phase = "running"
        BY <2>3 DEF RunningAt
      <3>2. d \in 1..Len(scopes') /\ scopes'[d] = scopes[d]
        BY <1>3, <2>3, <3>1
      <3>3. scopes'[d].id = n /\ scopes'[d].phase = "running"
        BY <3>1, <3>2
      <3> QED
        BY <3>2, <3>3, Zenon DEF RunningAt
    <2> QED
      BY <2>2, <2>3
  <1>6. \E n \in 0..MaxTests : Contract!End(n)
    BY <1>1, <1>2, <1>5, EndRefines
  <1> QED
    BY <1>4, <1>6

LEMMA LeaveRefines ==
    ASSUME ScopeInv, OrderInv, scopes # <<>>, Top.phase = "running",
           NEW error \in BOOLEAN, NEW panicked \in BOOLEAN, Leave(error, panicked),
           counts' = counts, outcome' = outcome
    PROVE  OrderInv' /\ \E n \in 0..MaxTests : Contract!End(n)
  <1>1. PICK t \in Scope :
            /\ SetTop(t) /\ t.id = Top.id /\ t.phase = "cleanup"
            /\ results'.Tests = Append(results.Tests, t.id)
            /\ results'.Failures =
                   IF t.failed /\ ~t.nonCritical THEN Append(results.Failures, t.id)
                   ELSE results.Failures
            /\ results'.NonCriticalFailures =
                   IF t.failed /\ t.nonCritical THEN Append(results.NonCriticalFailures, t.id)
                   ELSE results.NonCriticalFailures
    BY LeaveIs
  <1>2. PICK id \in Nat : id = Top.id
    BY TopIs DEF ScopeInv, CountInv
  <1>3. /\ Len(scopes) \in Nat \ {0} /\ Len(scopes') = Len(scopes) /\ Top = scopes[Len(scopes)]
        /\ \A d \in 1..Len(scopes) : scopes'[d] = IF d = Len(scopes) THEN t ELSE scopes[d]
    BY <1>1, TopIs, SetTopIs DEF ScopeInv
  <1>4. \A d \in 1..Len(scopes) : scopes'[d].id = scopes[d].id
    BY <1>1, <1>3
  <1>5. OrderInv'
    BY <1>3, <1>4 DEF OrderInv
  <1>6. ASSUME NEW n \in 0..MaxTests
        PROVE  RunningAt(n)' <=> RunningAt(n) /\ n # id
    <2>1. \A d, e \in 1..Len(scopes) : scopes[d].id = scopes[e].id => d = e
      BY DEF ScopeInv, StackInv
    <2>2. ASSUME RunningAt(n)'
          PROVE  RunningAt(n) /\ n # id
      <3>1. PICK d \in 1..Len(scopes) : scopes'[d].id = n /\ scopes'[d].phase = "running"
        BY <1>3, <2>2 DEF RunningAt
      <3>2. d # Len(scopes) /\ scopes'[d] = scopes[d] /\ Len(scopes) \in 1..Len(scopes)
        BY <1>1, <1>3, <3>1
      <3>3. n # id
        BY <1>2, <1>3, <2>1, <3>1, <3>2
      <3> QED
        BY <3>1, <3>2, <3>3 DEF RunningAt
    <2>3. ASSUME RunningAt(n), n # id
          PROVE  RunningAt(n)'
      <3>1. PICK d \in 1..Len(scopes) : scopes[d].id = n /\ scopes[d].phase = "running"
        BY <2>3 DEF RunningAt
      <3>2. d \in 1..Len(scopes') /\ scopes'[d] = scopes[d]
        BY <1>2, <1>3, <2>3, <3>1
      <3>3. scopes'[d].id = n /\ scopes'[d].phase = "running"
        BY <3>1, <3>2
      <3> QED
        BY <3>2, <3>3, Zenon DEF RunningAt
    <2> QED
      BY <2>2, <2>3
  <1>7. /\ results.Tests \in Seq(Nat) /\ results.Failures \in Seq(Nat)
        /\ results.NonCriticalFailures \in Seq(Nat) /\ t.id = id
    BY <1>1, <1>2 DEF ScopeInv, ReportInv
  <1>8. ASSUME NEW n \in 0..MaxTests, n # id
        PROVE  /\ In(results'.Failures, n) <=> In(results.Failures, n)
               /\ In(results'.NonCriticalFailures, n) <=> In(results.NonCriticalFailures, n)
               /\ In(results'.Tests, n) <=> In(results.Tests, n)
    <2>0. n \in Nat
      BY BoundsAssumption
    <2>1. In(results'.Failures, n) <=> In(results.Failures, n)
      <3>1. In(Append(results.Failures, id), n) <=> In(results.Failures, n)
        BY <1>7, <1>8, <2>0, InAppend
      <3> QED
        BY <1>1, <1>7, <3>1
    <2>2. In(results'.NonCriticalFailures, n) <=> In(results.NonCriticalFailures, n)
      <3>1. In(Append(results.NonCriticalFailures, id), n) <=> In(results.NonCriticalFailures, n)
        BY <1>7, <1>8, <2>0, InAppend
      <3> QED
        BY <1>1, <1>7, <3>1
    <2>3. In(results'.Tests, n) <=> In(results.Tests, n)
      <3>1. In(Append(results.Tests, id), n) <=> In(results.Tests, n)
        BY <1>7, <1>8, <2>0, InAppend
      <3> QED
        BY <1>1, <1>7, <3>1
    <2> QED
      BY <2>1, <2>2, <2>3
  <1>9. \E n \in 0..MaxTests : Contract!End(n)
    BY <1>2, <1>6, <1>8, EndRefines
  <1> QED
    BY <1>5, <1>9

LEMMA StartOrder ==
    ASSUME ScopeInv, OrderInv, StartTest
    PROVE  OrderInv'
  <1>1. counts.total \in Nat
    BY DEF ScopeInv, CountInv
  <1>2. PICK new \in Nat : new = counts.total + 1
    BY <1>1
  <1>3. scopes' = Append(scopes, NewScope(new)) /\ scopes \in Seq(Scope) /\ NewScope(new) \in Scope
    BY <1>2, NewScopeIs DEF StartTest, ScopeInv, StackInv
  <1>4. NewScope(new).id = new
    BY DEF NewScope
  <1>5. /\ Len(scopes) \in Nat /\ Len(scopes') = Len(scopes) + 1
        /\ \A d \in 1..Len(scopes) : scopes'[d] = scopes[d]
        /\ scopes'[Len(scopes) + 1] = NewScope(new)
    BY <1>3
  <1>6. \A d \in 1..Len(scopes) : scopes[d].id < new
    BY <1>1, <1>2, ScopesAre DEF ScopeInv
  <1>7. ASSUME NEW d \in 1..Len(scopes'), NEW e \in 1..Len(scopes'), d < e
        PROVE  scopes'[d].id < scopes'[e].id
    <2>1. d \in 1..Len(scopes)
      BY <1>5, <1>7
    <2>2. CASE e = Len(scopes) + 1
      BY <1>4, <1>5, <1>6, <2>1, <2>2
    <2>3. CASE e \in 1..Len(scopes)
      BY <1>5, <1>7, <2>1, <2>3 DEF OrderInv
    <2> QED
      BY <1>5, <2>2, <2>3
  <1> QED
    BY <1>7 DEF OrderInv

\* A scope that takes another state, or nothing happens to the scopes.
LEMMA SameRefines ==
    ASSUME ScopeInv, OrderInv, results' = results, counts' = counts, outcome' = outcome,
           \/ scopes' = scopes
           \/ scopes # <<>> /\ \E t \in Scope : SetTop(t) /\ t.id = Top.id /\ t.phase = Top.phase
    PROVE  OrderInv' /\ UNCHANGED <<contractVerdict, outcome.exit>>
  <1>1. /\ Len(scopes') = Len(scopes)
        /\ \A d \in 1..Len(scopes) : scopes'[d].id = scopes[d].id /\ scopes'[d].phase = scopes[d].phase
    <2>1. CASE scopes' = scopes
      BY <2>1
    <2>2. ASSUME scopes # <<>>, NEW t \in Scope, SetTop(t), t.id = Top.id, t.phase = Top.phase
          PROVE  /\ Len(scopes') = Len(scopes)
                 /\ \A d \in 1..Len(scopes) :
                        scopes'[d].id = scopes[d].id /\ scopes'[d].phase = scopes[d].phase
      <3>1. /\ Len(scopes') = Len(scopes) /\ Top = scopes[Len(scopes)]
            /\ \A d \in 1..Len(scopes) : scopes'[d] = IF d = Len(scopes) THEN t ELSE scopes[d]
        BY <2>2, TopIs, SetTopIs DEF ScopeInv
      <3> QED
        BY <2>2, <3>1
    <2> QED
      BY <2>1, <2>2
  <1>2. \A n \in 0..MaxTests : RunningAt(n)' <=> RunningAt(n)
    BY <1>1 DEF RunningAt
  <1>3. contractVerdict' = contractVerdict
    BY <1>2, SameVerdicts
  <1> QED
    BY <1>1, <1>3 DEF OrderInv

LEMMA EndOfCleanupsRefines ==
    ASSUME ScopeInv, OrderInv, EndOfCleanups
    PROVE  OrderInv' /\ UNCHANGED <<contractVerdict, outcome.exit>>
  <1>1. /\ scopes # <<>> /\ Top.phase = "cleanup" /\ scopes' = WithoutTop
        /\ results' = results /\ counts' = counts /\ outcome' = outcome
    BY DEF EndOfCleanups
  <1>2. /\ Len(scopes) \in Nat \ {0} /\ Len(scopes') = Len(scopes) - 1
        /\ \A d \in 1..Len(scopes) - 1 : scopes'[d] = scopes[d]
        /\ Top = scopes[Len(scopes)]
    BY <1>1, TopIs, WithoutTopIs DEF ScopeInv
  <1>3. OrderInv'
    BY <1>2 DEF OrderInv
  <1>4. ASSUME NEW n \in 0..MaxTests
        PROVE  RunningAt(n)' <=> RunningAt(n)
    <2>1. RunningAt(n)' => RunningAt(n)
      <3>1. ASSUME RunningAt(n)'
            PROVE  RunningAt(n)
        <4>1. PICK d \in 1..Len(scopes) - 1 : scopes[d].id = n /\ scopes[d].phase = "running"
          BY <1>2, <3>1 DEF RunningAt
        <4>2. d \in 1..Len(scopes)
          BY <1>2
        <4> QED
          BY <4>1, <4>2 DEF RunningAt
      <3> QED
        BY <3>1
    <2>2. ASSUME RunningAt(n)
          PROVE  RunningAt(n)'
      <3>1. PICK d \in 1..Len(scopes) : scopes[d].id = n /\ scopes[d].phase = "running"
        BY <2>2 DEF RunningAt
      <3>2. d \in 1..Len(scopes') /\ scopes'[d] = scopes[d]
        BY <1>1, <1>2, <3>1
      <3>3. scopes'[d].id = n /\ scopes'[d].phase = "running"
        BY <3>1, <3>2
      <3> QED
        BY <3>2, <3>3, Zenon DEF RunningAt
    <2> QED
      BY <2>1, <2>2
  <1>5. contractVerdict' = contractVerdict
    BY <1>1, <1>4, SameVerdicts
  <1> QED
    BY <1>1, <1>3, <1>5

LEMMA EndRunRefines ==
    ASSUME ScopeInv, OrderInv, EndRun
    PROVE  OrderInv' /\ Contract!Exit
  <1>1. /\ scopes = <<>> /\ outcome.exit = -1 /\ results.Failures \in Seq(Nat)
        /\ scopes' = scopes /\ results' = results /\ counts' = counts
        /\ outcome'.exit \in {0, 1} /\ (outcome'.exit = 0 => results.Failures = <<>>)
    BY DEF EndRun, Running, ScopeInv, ReportInv
  <1>2. ASSUME NEW n \in 0..MaxTests
        PROVE  ~RunningAt(n)
    BY <1>1 DEF RunningAt
  <1>3. \A n \in 0..MaxTests : RunningAt(n)' <=> RunningAt(n)
    BY <1>1 DEF RunningAt
  <1>4. contractVerdict' = contractVerdict
    BY <1>1, <1>3, SameVerdicts
  <1>5. \A n \in 0..MaxTests : ~Contract!Running(n)
    BY <1>2, VerdictIs DEF Contract!Running
  <1>6. ASSUME outcome'.exit = 0, NEW n \in 0..MaxTests
        PROVE  contractVerdict[n] # "failed"
    <2>1. ~In(results.Failures, n)
      BY <1>1, <1>6 DEF In
    <2> QED
      BY <2>1, VerdictIs
  <1>7. OrderInv'
    BY <1>1 DEF OrderInv
  <1> QED
    BY <1>1, <1>4, <1>5, <1>6, <1>7 DEF Contract!Exit

\* The clients of a test have no part in its verdict.
LEMMA CleanupsRefine ==
    ASSUME ScopeInv, OrderInv, scopes # <<>>, NEW s \in Seq(Clients),
           SetTop([Top EXCEPT !.cleanups = s]), results' = results, counts' = counts,
           outcome' = outcome
    PROVE  OrderInv' /\ UNCHANGED <<contractVerdict, outcome.exit>>
  <1>1. Top \in Scope
    BY TopIs DEF ScopeInv
  <1> DEFINE t == [Top EXCEPT !.cleanups = s]
  <1>2. t \in Scope /\ t.id = Top.id /\ t.phase = Top.phase
    BY <1>1 DEF Scope
  <1> HIDE DEF t
  <1>3. SetTop(t)
    BY DEF t
  <1> QED
    BY <1>2, <1>3, SameRefines

LEMMA InitialRefines == Init => OrderInv /\ Contract!Init
  <1> SUFFICES ASSUME Init
               PROVE  OrderInv /\ Contract!Init
    OBVIOUS
  <1>1. ScopeInv /\ MaxTests \in Nat
    BY Initial, BoundsAssumption DEF IInv, AgreeInv
  <1>2. counts.total = 0 /\ outcome.exit = -1
    BY DEF Init, ScopeInit, Running
  <1>3. NewScope(0).id = 0 /\ NewScope(0).phase = "running"
    BY DEF NewScope
  <1>4. 0 \in 0..MaxTests /\ \A n \in 0..MaxTests : n # 0 => n > counts.total
    BY <1>1, <1>2
  <1>5. \A n \in 0..MaxTests : n # 0 => contractVerdict[n] = "none"
    BY <1>1, <1>4, VerdictIs
  <1>6. ASSUME NEW root \in {"running", "failed"}, contractVerdict[0] = root
        PROVE  Contract!Init
    <2>1. contractVerdict = [n \in 0..MaxTests |-> IF n = 0 THEN root ELSE "none"]
      BY <1>5, <1>6, VerdictsAre
    <2> QED
      BY <1>2, <2>1 DEF Contract!Init
  <1>7. CASE scopes = <<NewScope(0)>>
    <2> DEFINE top == NewScope(0)
    <2>1. scopes = <<top>> /\ top.id = 0 /\ top.phase = "running"
      BY <1>3, <1>7
    <2> HIDE DEF top
    <2>2. Len(scopes) = 1 /\ scopes[1] = top
      BY <2>1
    <2>3. OrderInv
      BY <2>2 DEF OrderInv
    <2>4. RunningAt(0)
      BY <2>1, <2>2 DEF RunningAt
    <2> QED
      BY <1>1, <1>4, <1>6, <2>3, <2>4, VerdictIs
  <1>8. CASE scopes = <<>> /\ results = [Tests |-> <<>>, Failures |-> <<0>>,
                                         NonCriticalFailures |-> <<>>]
    <2>1. OrderInv
      BY <1>8 DEF OrderInv
    <2>2. ~RunningAt(0)
      BY <1>8 DEF RunningAt
    <2>3. In(results.Failures, 0)
      <3>1. results.Failures = <<0>>
        BY <1>8
      <3> QED
        BY <3>1 DEF In
    <2>4. contractVerdict[0] =
              IF 0 > counts.total THEN "none"
              ELSE IF RunningAt(0) THEN "running"
              ELSE IF In(results.Failures, 0) THEN "failed"
              ELSE IF In(results.NonCriticalFailures, 0) THEN "excused"
              ELSE IF In(results.Tests, 0) THEN "passed" ELSE "skipped"
      BY <1>4 DEF contractVerdict, RunningAt
    <2>5. contractVerdict[0] = "failed"
      BY <1>2, <2>2, <2>3, <2>4
    <2> QED
      BY <1>6, <2>1, <2>5
  <1> QED
    BY <1>7, <1>8, Zenon DEF Init, ScopeInit

LEMMA StepRefines ==
    ASSUME IInv, SumInv, OrderInv, [Next]_vars
    PROVE  OrderInv' /\ [Contract!Next]_(Contract!contractVars)
  <1> DEFINE Step == [Contract!Next]_(Contract!contractVars)
  <1>0. FALSE \in BOOLEAN /\ TRUE \in BOOLEAN
    OBVIOUS
  <1>1. ScopeInv
    BY DEF IInv, AgreeInv
  <1>2. ASSUME UNCHANGED <<contractVerdict, outcome.exit>>
        PROVE  Step
    BY <1>2 DEF Contract!contractVars
  <1>3. ASSUME \E n \in 0..MaxTests : Contract!End(n)
        PROVE  Step
    BY <1>3 DEF Contract!Next
  <1>4. ASSUME \E n \in 1..MaxTests : Contract!Start(n)
        PROVE  Step
    BY <1>4 DEF Contract!Next
  <1>5. Contract!Exit => Step
    BY DEF Contract!Next
  <1> SUFFICES OrderInv' /\ Step
    OBVIOUS
  <1> HIDE DEF Step
  <1>6. CASE StartTest
    BY <1>1, <1>4, <1>6, StartOrder, StartRefines
  <1>7. CASE ExcludeTest
    <2>1. OrderInv'
      BY <1>7 DEF ExcludeTest, OrderInv
    <2> QED
      BY <1>1, <1>4, <1>7, <2>1, StartRefines
  <1>8. CASE NonCritical
    <2> DEFINE t == [Top EXCEPT !.nonCritical = TRUE]
    <2>1. /\ scopes # <<>> /\ SetTop(t) /\ results' = results /\ counts' = counts
          /\ outcome' = outcome
      BY <1>8 DEF NonCritical, InTest
    <2>2. Top \in Scope
      BY <1>1, <2>1, TopIs DEF ScopeInv
    <2>3. t \in Scope /\ t.id = Top.id /\ t.phase = Top.phase
      BY <2>2 DEF Scope
    <2> HIDE DEF t
    <2> QED
      BY <1>1, <1>2, <2>1, <2>3, SameRefines
  <1>9. CASE Errorf
    <2> DEFINE t == [Top EXCEPT !.failed = TRUE, !.errors = TRUE]
    <2>1. /\ scopes # <<>> /\ SetTop(t) /\ results' = results /\ counts' = counts
          /\ outcome' = outcome
      BY <1>9 DEF Errorf, InTest
    <2>2. Top \in Scope
      BY <1>1, <2>1, TopIs DEF ScopeInv
    <2>3. t \in Scope /\ t.id = Top.id /\ t.phase = Top.phase
      BY <2>2 DEF Scope
    <2> HIDE DEF t
    <2> QED
      BY <1>1, <1>2, <2>1, <2>3, SameRefines
  <1>10. CASE Return
    <2>1. /\ scopes # <<>> /\ Top.phase = "running" /\ Leave(FALSE, FALSE)
          /\ counts' = counts /\ outcome' = outcome
      BY <1>10 DEF Return
    <2>2. OrderInv' /\ \E n \in 0..MaxTests : Contract!End(n)
      BY <1>0, <1>1, <2>1, LeaveRefines, Zenon
    <2> QED
      BY <1>3, <2>2
  <1>11. CASE Panic
    <2>1. scopes # <<>> /\ Top.phase = "running" /\ counts' = counts /\ outcome' = outcome
      BY <1>11 DEF Panic, InTest
    <2>2. Leave(FALSE, TRUE)
      BY <1>11, Zenon DEF Panic
    <2>3. OrderInv' /\ \E n \in 0..MaxTests : Contract!End(n)
      BY <1>0, <1>1, <2>1, <2>2, LeaveRefines, Zenon
    <2> QED
      BY <1>3, <2>3
  <1>12. CASE EndOfCleanups
    BY <1>1, <1>2, <1>12, EndOfCleanupsRefines
  <1>13. CASE EndRun
    BY <1>1, <1>5, <1>13, EndRunRefines
  <1>14. CASE SkipTest
    BY <1>1, <1>3, <1>14, SkipRefines DEF SkipTest
  <1>15. CASE RunCleanup
    <2> DEFINE n == Len(Top.cleanups)
               rest == SubSeq(Top.cleanups, 1, n - 1)
    <2>1. /\ scopes # <<>> /\ Top.cleanups # <<>> /\ SetTop([Top EXCEPT !.cleanups = rest])
          /\ results' = results /\ counts' = counts /\ outcome' = outcome
      BY <1>15 DEF RunCleanup
    <2>2. Top \in Scope
      BY <1>1, <2>1, TopIs DEF ScopeInv
    <2>3. Top.cleanups \in Seq(Clients)
      BY <2>2 DEF Scope
    <2>4. rest \in Seq(Clients)
      BY <2>1, <2>3
    <2> HIDE DEF n, rest
    <2> QED
      BY <1>1, <1>2, <2>1, <2>4, CleanupsRefine
  <1>16. CASE CloseByTest \/ TryNewSDKClientFails
    <2>1. scopes' = scopes /\ results' = results /\ counts' = counts /\ outcome' = outcome
      BY <1>16 DEF CloseByTest, TryNewSDKClientFails, scopeVars
    <2> QED
      BY <1>1, <1>2, <2>1, SameRefines
  <1>17. CASE NewSDKClientRefused \/ NewSDKClientFails
    <2>1. Leave(TRUE, TRUE) /\ UNCHANGED <<counts, outcome>> /\ InTest
      <3>1. CASE NewSDKClientRefused
        BY <3>1 DEF NewSDKClientRefused
      <3>2. CASE NewSDKClientFails
        BY <3>2, Zenon DEF NewSDKClientFails
      <3> QED
        BY <1>17, <3>1, <3>2
    <2>2. scopes # <<>> /\ Top.phase = "running" /\ counts' = counts /\ outcome' = outcome
      BY <2>1 DEF InTest
    <2>3. OrderInv' /\ \E n \in 0..MaxTests : Contract!End(n)
      BY <1>0, <1>1, <2>1, <2>2, LeaveRefines, Zenon
    <2> QED
      BY <1>3, <2>3
  <1>18. ASSUME NEW c \in Clients, NewSDKClient(c) \/ TryNewSDKClient(c)
         PROVE  OrderInv' /\ Step
    <2>1. InTest /\ Created(c) /\ results' = results /\ counts' = counts /\ outcome' = outcome
      BY <1>18 DEF NewSDKClient, TryNewSDKClient
    <2> DEFINE more == Append(Top.cleanups, c)
    <2>2. scopes # <<>> /\ SetTop([Top EXCEPT !.cleanups = more])
      BY <2>1 DEF Created, InTest
    <2>3. Top \in Scope
      BY <1>1, <2>2, TopIs DEF ScopeInv
    <2>4. Top.cleanups \in Seq(Clients)
      BY <2>3 DEF Scope
    <2>5. more \in Seq(Clients)
      BY <2>4
    <2> HIDE DEF more
    <2> QED
      BY <1>1, <1>2, <2>1, <2>2, <2>5, CleanupsRefine
  <1>19. CASE UNCHANGED vars
    <2>1. scopes' = scopes /\ results' = results /\ counts' = counts /\ outcome' = outcome
      BY <1>19 DEF vars, scopeVars
    <2> QED
      BY <1>1, <1>2, <2>1, SameRefines
  <1> QED
    BY <1>6, <1>7, <1>8, <1>9, <1>10, <1>11, <1>12, <1>13, <1>14, <1>15, <1>16, <1>17, <1>18,
       <1>19, Zenon DEF Next

\* Scopes, results and the exit code implement the contract of a run of tests: each
\* test gets one final verdict, the inner ones first, and a run that exits with 0 has
\* no failure (T.Run, T.run and the end of main).
THEOREM Refinement == Spec => ImplementsContract
  <1>1. Init => OrderInv /\ Contract!Init
    BY InitialRefines
  <1>2. IInv /\ SumInv /\ OrderInv /\ [Next]_vars
            => OrderInv' /\ [Contract!Next]_(Contract!contractVars)
    BY StepRefines
  <1>3. Init => SumInv
    BY InitialSums
  <1>4. IInv /\ SumInv /\ [Next]_vars => SumInv'
    BY InductiveSums
  <1> QED
    BY <1>1, <1>2, <1>3, <1>4, Invariant, PTL DEF Spec, ImplementsContract, Contract!Spec

-------------------------------------------------------------------------------
(***************************************************************************)
(* What it takes for the comments on Defer and NewSDKClient to hold.       *)
(***************************************************************************)

\* A run whose end is recorded has exited.
EndInv == outcome = Running \/ outcome.exit # -1

LEMMA EndStep == EndInv /\ [Next]_vars => EndInv'
  <1> SUFFICES ASSUME EndInv, [Next]_vars
               PROVE  EndInv'
    OBVIOUS
  <1>1. CASE EndRun
    BY <1>1 DEF EndRun, EndInv
  <1>2. CASE outcome' = outcome
    BY <1>2 DEF EndInv
  <1>3. [Next]_vars => EndRun \/ outcome' = outcome
    BY Zenon
       DEF Next, StartTest, ExcludeTest, NonCritical, Errorf, Return, Panic, EndOfCleanups,
           SkipTest, Skip, RunCleanup, CloseByTest, NewSDKClientRefused, NewSDKClientFails,
           TryNewSDKClientFails, NewSDKClient, TryNewSDKClient, vars, scopeVars
  <1> QED
    BY <1>1, <1>2, <1>3

\* When the run is over, a client that is alive and that nobody tried to close belongs
\* to a test that was skipped after it had created the client, or was lost in its
\* creation.
LeftBehind ==
    outcome # Running => \A c \in Alive \ (closed \union leaked) : entity[c] = "lost"

\* T.run runs the cleanups for every end of a test but one: of the clients that it
\* knows of, the harness leaves behind those of skipped tests only.  It does not know
\* of a client whose creation the service answered with a response that
\* NewTestServiceEntity takes for an error.
THEOREM OnlySkipsAndLossesLeak == Spec => []LeftBehind
  <1>1. Init => EndInv
    BY DEF Init, ScopeInit, EndInv
  <1>2. IInv /\ EndInv => LeftBehind
    <2> SUFFICES ASSUME IInv, EndInv, outcome # Running
                 PROVE  \A c \in Alive \ (closed \union leaked) : entity[c] = "lost"
      BY DEF LeftBehind
    <2>1. scopes = <<>>
      BY DEF IInv, AgreeInv, ScopeInv, OutcomeInv, EndInv
    <2> QED
      BY <2>1 DEF IInv, NoClientOutlivesItsTest
  <1> QED
    BY <1>1, <1>2, EndStep, Invariant, PTL DEF Spec

\* The comment on Defer is right, of the clients that the harness knows of, in every run in which a test that has deferred a
\* cleanup is not skipped.
THEOREM DeferGuaranteedWithoutSkips ==
    Spec /\ [][SkipTest => Top.cleanups = <<>>]_vars => []DeferIsGuaranteed
  <1> DEFINE NoLeak == leaked = {}
  <1>1. Init => NoLeak
    BY DEF Init
  <1>2. NoLeak /\ [Next]_vars /\ [SkipTest => Top.cleanups = <<>>]_vars => NoLeak'
    <2> SUFFICES ASSUME NoLeak, [Next]_vars, [SkipTest => Top.cleanups = <<>>]_vars
                 PROVE  leaked' = {}
      OBVIOUS
    <2>1. CASE SkipTest
      <3>1. Top.cleanups = <<>> \/ leaked' = leaked
        BY <2>1, Zenon DEF vars, clientVars
      <3>2. Top.cleanups = <<>> => Elements(Top.cleanups) = {}
        BY DEF Elements
      <3> QED
        BY <2>1, <3>1, <3>2 DEF SkipTest
    <2>2. [Next]_vars => SkipTest \/ leaked' = leaked
      BY Zenon
         DEF Next, RunCleanup, CloseByTest, NewSDKClientRefused, NewSDKClientFails,
             TryNewSDKClientFails, NewSDKClient, TryNewSDKClient, vars, clientVars
    <2> QED
      BY <2>1, <2>2
  <1>3. NoLeak /\ LeftBehind => DeferIsGuaranteed
    BY DEF DeferIsGuaranteed, LeftBehind, Live, Alive
  <1> HIDE DEF NoLeak
  <1> QED
    BY <1>1, <1>2, <1>3, OnlySkipsAndLossesLeak, PTL DEF Spec

\* Where every client is counted and closed once, the counter of a singleton SDK is
\* that of the clients not yet closed: there is at most one, and the test that will
\* close it is the only one with a cleanup.
SingleInv ==
    /\ currentlyExistingClientInstances \in {0, 1}
    /\ currentlyExistingClientInstances = 0 => guarded \subseteq closed
    /\ \A b, c \in guarded \ closed : b = c
    /\ \A d \in 1..Len(scopes) : /\ Len(scopes[d].cleanups) <= 1
                                 /\ Elements(scopes[d].cleanups) \subseteq guarded \ closed
    /\ \A d, e \in 1..Len(scopes) :
          scopes[d].cleanups # <<>> /\ scopes[e].cleanups # <<>> => d = e

\* Tests come and go, and no client does.
LEMMA SingleKept ==
    ASSUME SingleInv, UNCHANGED <<currentlyExistingClientInstances, guarded, closed>>,
           \A d \in 1..Len(scopes') :
               \/ scopes'[d].cleanups = <<>>
               \/ d \in 1..Len(scopes) /\ scopes'[d].cleanups = scopes[d].cleanups
    PROVE  SingleInv'
  <1>1. \A d \in 1..Len(scopes') :
            /\ Len(scopes'[d].cleanups) <= 1
            /\ Elements(scopes'[d].cleanups) \subseteq guarded \ closed
    <2> TAKE d \in 1..Len(scopes')
    <2>1. CASE scopes'[d].cleanups = <<>>
      BY <2>1 DEF Elements
    <2>2. CASE d \in 1..Len(scopes) /\ scopes'[d].cleanups = scopes[d].cleanups
      BY <2>2 DEF SingleInv
    <2> QED
      BY <2>1, <2>2
  <1>2. \A d, e \in 1..Len(scopes') :
            scopes'[d].cleanups # <<>> /\ scopes'[e].cleanups # <<>> => d = e
    BY DEF SingleInv
  <1> QED
    BY <1>1, <1>2 DEF SingleInv, Elements

\* The innermost test changes, and keeps its cleanups.
LEMMA SingleSetTop ==
    ASSUME SingleInv, StackInv, scopes # <<>>, NEW t \in Scope, SetTop(t),
           t.cleanups = Top.cleanups,
           UNCHANGED <<currentlyExistingClientInstances, guarded, closed>>
    PROVE  SingleInv'
  <1>1. \A d \in 1..Len(scopes') : d \in 1..Len(scopes) /\ scopes'[d].cleanups = scopes[d].cleanups
    BY SetTopIs, TopIs
  <1> QED
    BY <1>1, SingleKept

LEMMA SingleNewClient ==
    ASSUME IInv, SingleInv, Singleton, NEW c \in Clients, NewSDKClient(c)
    PROVE  SingleInv'
  <1>1. /\ scopes # <<>> /\ Created(c) /\ guarded' = guarded \union {c}
        /\ currentlyExistingClientInstances = 0 /\ currentlyExistingClientInstances' = 1
        /\ closed' = closed
    BY DEF NewSDKClient, InTest, Refused, SingleInv
  <1>2. c \notin guarded \union closed
    BY <1>1 DEF Created, IInv, ClientInv, ClientTypeInv, GuardInv
  <1>3. guarded' \ closed' = {c} /\ guarded \ closed = {}
    BY <1>1, <1>2 DEF SingleInv
  <1>4. StackInv /\ Top \in Scope /\ Top.cleanups \in Seq(Clients)
    <2>1. StackInv
      BY DEF IInv, AgreeInv, ScopeInv
    <2>2. Top \in Scope
      BY <1>1, <2>1, TopIs
    <2> QED
      BY <2>1, <2>2 DEF Scope
  <1>5. \A d \in 1..Len(scopes) : scopes[d].cleanups = <<>>
    <2> TAKE d \in 1..Len(scopes)
    <2>1. scopes[d].cleanups \in Seq(Clients) /\ Elements(scopes[d].cleanups) = {}
      BY <1>3, <1>4, CleanupsAre DEF SingleInv
    <2>2. Len(scopes[d].cleanups) = 0
      <3>1. Len(scopes[d].cleanups) \in Nat
        BY <2>1
      <3>2. ASSUME Len(scopes[d].cleanups) > 0 PROVE FALSE
        <4>1. 1 \in 1..Len(scopes[d].cleanups)
          BY <3>1, <3>2
        <4> QED
          BY <2>1, <4>1 DEF Elements
      <3> QED
        BY <3>1, <3>2
    <2> QED
      BY <2>1, <2>2, EmptySeq
  <1> DEFINE t == [Top EXCEPT !.cleanups = Append(@, c)]
  <1>6. Top.cleanups = <<>>
    BY <1>1, <1>4, <1>5, TopIs
  <1>7. t \in Scope /\ t.cleanups = <<c>>
    <2>1. t = [Top EXCEPT !.cleanups = <<c>>] /\ <<c>> \in Seq(Clients)
      BY <1>6
    <2> HIDE DEF t
    <2> QED
      BY <1>4, <2>1 DEF Scope
  <1>8. SetTop(t)
    BY <1>1 DEF Created
  <1> HIDE DEF t
  <1>9. /\ Len(scopes') = Len(scopes)
        /\ \A d \in 1..Len(scopes) :
              scopes'[d].cleanups = IF d = Len(scopes) THEN <<c>> ELSE <<>>
    BY <1>1, <1>4, <1>5, <1>7, <1>8, SetTopIs
  <1>10. Len(<<c>>) = 1 /\ Elements(<<c>>) = {c} /\ Len(<<>>) = 0 /\ Elements(<<>>) = {}
    BY DEF Elements
  <1>11. \A d \in 1..Len(scopes') : /\ Len(scopes'[d].cleanups) <= 1
                                    /\ Elements(scopes'[d].cleanups) \subseteq {c}
    <2> TAKE d \in 1..Len(scopes')
    <2>1. scopes'[d].cleanups = <<c>> \/ scopes'[d].cleanups = <<>>
      BY <1>9
    <2>2. CASE scopes'[d].cleanups = <<c>>
      BY <1>10, <2>2
    <2>3. CASE scopes'[d].cleanups = <<>>
      BY <1>10, <2>3
    <2> QED
      BY <2>1, <2>2, <2>3
  <1>12. \A d, e \in 1..Len(scopes') :
            scopes'[d].cleanups # <<>> /\ scopes'[e].cleanups # <<>> => d = e
    BY <1>9
  <1>13. /\ currentlyExistingClientInstances' \in {0, 1} /\ currentlyExistingClientInstances' # 0
         /\ \A a, b \in guarded' \ closed' : a = b
    BY <1>1, <1>3
  <1>14. \A d \in 1..Len(scopes') : /\ Len(scopes'[d].cleanups) <= 1
                                    /\ Elements(scopes'[d].cleanups) \subseteq guarded' \ closed'
    BY <1>3, <1>11
  <1> QED
    BY <1>12, <1>13, <1>14 DEF SingleInv, Elements

LEMMA SingleRunCleanup ==
    ASSUME IInv, SingleInv, RunCleanup
    PROVE  SingleInv'
  <1> DEFINE n == Len(Top.cleanups)
             rest == SubSeq(Top.cleanups, 1, n - 1)
             t == [Top EXCEPT !.cleanups = rest]
  <1>1. /\ scopes # <<>> /\ Top.cleanups # <<>> /\ Close(Top.cleanups[n])
        /\ SetTop(t) /\ guarded' = guarded
    BY DEF RunCleanup
  <1>2. /\ StackInv /\ Top \in Scope /\ Top.cleanups \in Seq(Clients)
        /\ Len(scopes) \in 1..Len(scopes) /\ Top = scopes[Len(scopes)]
    <2>1. StackInv
      BY DEF IInv, AgreeInv, ScopeInv
    <2>2. Top \in Scope /\ Len(scopes) \in 1..Len(scopes) /\ Top = scopes[Len(scopes)]
      BY <1>1, <2>1, TopIs
    <2> QED
      BY <2>1, <2>2 DEF Scope
  <1>3. n = 1 /\ Top.cleanups[1] \in guarded \ closed
    <2>1. n \in Nat \ {0}
      BY <1>1, <1>2, EmptySeq
    <2>2. n <= 1 /\ Elements(Top.cleanups) \subseteq guarded \ closed
      BY <1>2 DEF SingleInv
    <2> HIDE DEF n
    <2>3. n = 1 /\ 1 \in 1..n
      BY <2>1, <2>2
    <2> USE DEF n
    <2>4. Top.cleanups[1] \in Elements(Top.cleanups)
      BY <2>3 DEF Elements
    <2> QED
      BY <2>2, <2>3, <2>4
  <1>4. rest = <<>>
    BY <1>2, <1>3
  <1>5. t \in Scope /\ t.cleanups = <<>>
    <2> HIDE DEF rest
    <2>1. <<>> \in Seq(Clients)
      OBVIOUS
    <2>2. t.cleanups = rest /\ t \in Scope
      BY <1>2, <1>4, <2>1 DEF Scope
    <2> QED
      BY <1>4, <2>2
  <1>6. /\ currentlyExistingClientInstances' = currentlyExistingClientInstances - 1
        /\ closed' = closed \union {Top.cleanups[1]}
    BY <1>1, <1>3 DEF Close, CloseEntity
  <1>7. currentlyExistingClientInstances' = 0 /\ guarded' \ closed' = {}
    BY <1>1, <1>3, <1>6 DEF SingleInv
  <1> HIDE DEF t
  <1>8. \A d \in 1..Len(scopes') : scopes'[d].cleanups = <<>>
    <2>1. /\ Len(scopes') = Len(scopes)
          /\ \A d \in 1..Len(scopes) :
                 scopes'[d] = IF d = Len(scopes) THEN t ELSE scopes[d]
      BY <1>1, <1>2, <1>5, SetTopIs
    <2>2. \A d \in 1..Len(scopes) : scopes[d].cleanups # <<>> => d = Len(scopes)
      BY <1>1, <1>2 DEF SingleInv
    <2> QED
      BY <1>5, <2>1, <2>2
  <1>9. \A d \in 1..Len(scopes') : /\ Len(scopes'[d].cleanups) <= 1
                                   /\ Elements(scopes'[d].cleanups) \subseteq {}
    BY <1>8 DEF Elements
  <1> QED
    BY <1>7, <1>8, <1>9 DEF SingleInv, Elements

LEMMA SingleStep ==
    ASSUME IInv, SingleInv, Singleton, [Next]_vars,
           [~CloseByTest /\ \A c \in Clients : ~TryNewSDKClient(c)]_vars
    PROVE  SingleInv'
  <1> DEFINE same == UNCHANGED <<currentlyExistingClientInstances, guarded, closed>>
  <1>1. StackInv /\ ScopeInv
    BY DEF IInv, AgreeInv, ScopeInv
  <1>2. UNCHANGED clientVars => same
    BY DEF clientVars
  <1>3. CASE scopes' = scopes /\ same
    BY <1>3, SingleKept
  <1>4. CASE StartTest /\ UNCHANGED clientVars
    <2>1. scopes' = Append(scopes, NewScope(counts.total + 1))
      BY <1>4 DEF StartTest
    <2>2. NewScope(counts.total + 1).cleanups = <<>>
      BY DEF NewScope
    <2>3. /\ Len(scopes') = Len(scopes) + 1 /\ Len(scopes) \in Nat
          /\ scopes'[Len(scopes) + 1] = NewScope(counts.total + 1)
          /\ \A d \in 1..Len(scopes) : scopes'[d] = scopes[d]
      BY <1>1, <2>1 DEF StackInv
    <2>4. \A d \in 1..Len(scopes') :
              \/ scopes'[d].cleanups = <<>>
              \/ d \in 1..Len(scopes) /\ scopes'[d].cleanups = scopes[d].cleanups
      BY <2>2, <2>3
    <2> QED
      BY <1>2, <1>4, <2>4, SingleKept
  <1>5. ASSUME scopes # <<>>, scopes' = WithoutTop, same
        PROVE  SingleInv'
    <2>1. \A d \in 1..Len(scopes') : d \in 1..Len(scopes) /\ scopes'[d].cleanups = scopes[d].cleanups
      BY <1>1, <1>5, WithoutTopIs, TopIs
    <2> QED
      BY <1>5, <2>1, SingleKept
  <1>6. ASSUME NEW error \in BOOLEAN, NEW panicked \in BOOLEAN, scopes # <<>>,
               Leave(error, panicked), same
        PROVE  SingleInv'
    <2>1. PICK t \in Scope : SetTop(t) /\ t.cleanups = Top.cleanups
      BY <1>1, <1>6, LeaveIs
    <2> QED
      BY <1>1, <1>6, <2>1, SingleSetTop
  <1>7. CASE (NonCritical \/ Errorf) /\ UNCHANGED clientVars
    <2>1. scopes # <<>> /\ Top \in Scope
      <3>1. scopes # <<>>
        BY <1>7 DEF NonCritical, Errorf, InTest
      <3> QED
        BY <1>1, <3>1, TopIs
    <2>2. PICK t : /\ SetTop(t)
                   /\ \/ t = [Top EXCEPT !.nonCritical = TRUE]
                      \/ t = [Top EXCEPT !.failed = TRUE, !.errors = TRUE]
      BY <1>7 DEF NonCritical, Errorf
    <2>3. t \in Scope /\ t.cleanups = Top.cleanups
      BY <2>1, <2>2 DEF Scope
    <2> QED
      BY <1>1, <1>2, <1>7, <2>1, <2>2, <2>3, SingleSetTop
  <1>8. CASE (Return \/ Panic) /\ UNCHANGED clientVars
    <2>1. scopes # <<>>
      <3>1. scopes # <<>> \/ InTest
        BY <1>8, Zenon DEF Return, Panic
      <3> QED
        BY <3>1 DEF InTest
    <2>2. CASE Leave(FALSE, FALSE)
      BY <1>2, <1>6, <1>8, <2>1, <2>2
    <2>3. CASE Leave(FALSE, TRUE)
      BY <1>2, <1>6, <1>8, <2>1, <2>3
    <2> QED
      BY <1>8, <2>2, <2>3, Zenon DEF Return, Panic
  <1>9. CASE NewSDKClientRefused \/ NewSDKClientFails
    <2>1. scopes # <<>>
      <3>1. InTest
        BY <1>9, Zenon DEF NewSDKClientRefused, NewSDKClientFails
      <3> QED
        BY <3>1 DEF InTest
    <2>2. Leave(TRUE, TRUE)
      BY <1>9, Zenon DEF NewSDKClientRefused, NewSDKClientFails
    <2>3. same
      BY <1>2, <1>9 DEF NewSDKClientRefused, NewSDKClientFails
    <2> QED
      BY <1>6, <2>1, <2>2, <2>3
  <1>10. CASE (EndOfCleanups /\ UNCHANGED clientVars) \/ SkipTest
    <2>1. scopes # <<>> /\ scopes' = WithoutTop
      BY <1>10 DEF EndOfCleanups, SkipTest, Skip, InTest
    <2>2. same
      BY <1>2, <1>10 DEF SkipTest
    <2> QED
      BY <1>5, <2>1, <2>2
  <1>11. CASE RunCleanup
    BY <1>11, SingleRunCleanup
  <1>12. CASE \E c \in Clients : NewSDKClient(c)
    BY <1>12, SingleNewClient
  <1>13. CASE UNCHANGED vars
    <2>1. scopes' = scopes /\ same
      BY <1>13 DEF vars, scopeVars, clientVars
    <2> QED
      BY <1>3, <2>1
  <1>14. CASE (ExcludeTest \/ EndRun) /\ UNCHANGED clientVars
    <2>1. scopes' = scopes
      BY <1>14 DEF ExcludeTest, EndRun
    <2> QED
      BY <1>2, <1>3, <1>14, <2>1
  <1>15. CASE TryNewSDKClientFails
    BY <1>3, <1>15 DEF TryNewSDKClientFails, scopeVars
  <1> QED
    BY <1>4, <1>7, <1>8, <1>9, <1>10, <1>11, <1>12, <1>13, <1>14, <1>15, Zenon DEF Next

\* The guard of NewSDKClient is right in every run in which no test closes a client
\* itself and none creates one with TryNewSDKClient: the two calls that let Close
\* count down what was not counted up.
THEOREM GuardHoldsIfCountedOnce ==
    Spec /\ [][~CloseByTest /\ \A c \in Clients : ~TryNewSDKClient(c)]_vars => []SingletonGuard
  <1> DEFINE once == [~CloseByTest /\ \A c \in Clients : ~TryNewSDKClient(c)]_vars
             GInv == Singleton => SingleInv
  <1>1. Init => GInv
    <2> SUFFICES ASSUME Init
                 PROVE  SingleInv
      OBVIOUS
    <2>1. \A d \in 1..Len(scopes) : scopes[d].cleanups = <<>>
      BY DEF Init, ScopeInit, NewScope
    <2>2. Len(scopes) \in {0, 1}
      BY DEF Init, ScopeInit
    <2> QED
      BY <2>1, <2>2 DEF Init, SingleInv, Elements
  <1>2. IInv /\ GInv /\ [Next]_vars /\ once => GInv'
    BY SingleStep
  <1>3. IInv /\ GInv => SingletonGuard
    <2> SUFFICES ASSUME IInv, SingleInv, Singleton
                 PROVE  Cardinality((Live \intersect guarded) \ closed) <= 1
      BY DEF SingletonGuard
    <2> DEFINE S == (Live \intersect guarded) \ closed
    <2>1. \A b, c \in S : b = c
      BY DEF SingleInv
    <2>2. CASE S = {}
      BY <2>2, FS_EmptySet
    <2>3. CASE S # {}
      <3>1. PICK c : S = {c}
        BY <2>1, <2>3
      <3>2. Cardinality({c}) = 1
        BY FS_Singleton
      <3> HIDE DEF S
      <3>3. Cardinality(S) = 1
        BY <3>1, <3>2, Zenon
      <3> QED
        BY <3>3 DEF S
    <2> QED
      BY <2>2, <2>3
  <1> QED
    BY <1>1, <1>2, <1>3, Invariant, PTL DEF Spec
===============================================================================
