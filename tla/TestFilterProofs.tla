---------------------------- MODULE TestFilterProofs ----------------------------
(***************************************************************************)
(* Proofs about TestFilter, for every suite and all patterns.              *)
(***************************************************************************)
EXTENDS TestFilter, FiniteSetTheorems, FunctionTheorems, TLAPS

Patterns == Seq(SUBSET Names)

\* The names of a prefix are those of the test (framework/ldtest/filter.go:44-56
\* compares names one by one from the first).
LEMMA PrefixNames ==
    ASSUME NEW id \in Seq(Names), NEW k \in 1..Len(id)
    PROVE  /\ Prefix(id, k) \in Seq(Names)
           /\ Len(Prefix(id, k)) = k
           /\ \A i \in 1..k : Prefix(id, k)[i] = id[i]
  BY DEF Prefix

\* The filter selects every ancestor of a test that it selects: -run patterns
\* are compared as far as the ancestor goes, and a -skip pattern that matches
\* the ancestor matches the test.
LEMMA AncestorsAreSelected ==
    ASSUME NEW must \in SUBSET Patterns, NEW mustNot \in SUBSET Patterns,
           NEW id \in Seq(Names), NEW k \in 1..Len(id),
           Match(must, mustNot, id)
    PROVE  Match(must, mustNot, Prefix(id, k))
  <1> DEFINE q == Prefix(id, k)
  <1>1. q \in Seq(Names) /\ Len(q) = k /\ \A i \in 1..k : q[i] = id[i]
    BY PrefixNames
  <1>2. ASSUME must # {}
        PROVE  AnyMatch(must, q, TRUE)
    <2>1. PICK p \in must : PatternMatch(p, id, TRUE)
      BY <1>2 DEF Match, AnyMatch
    <2>2. PatternMatch(p, q, TRUE)
      BY <1>1, <2>1 DEF PatternMatch, Patterns
    <2> QED
      BY <2>2 DEF AnyMatch
  <1>3. ASSUME AnyMatch(mustNot, q, FALSE)
        PROVE  FALSE
    <2>1. PICK p \in mustNot : PatternMatch(p, q, FALSE)
      BY <1>3 DEF AnyMatch
    <2>2. Len(p) <= Len(q)
      BY <1>1, <2>1 DEF PatternMatch, Patterns
    <2>3. PatternMatch(p, id, FALSE)
      BY <1>1, <2>1, <2>2 DEF PatternMatch, Patterns
    <2> QED
      BY <2>3 DEF Match, AnyMatch
  <1> QED
    BY <1>2, <1>3 DEF Match

\* The pattern of a path has one set of names for each of its parts, however many
\* parts slashes make of its names.
LEMMA SuppressionIsPattern ==
    ASSUME NEW id \in Seq(Names)
    PROVE  Suppression(id) \in Patterns /\ Len(Suppression(id)) = Cardinality(Places(id))
  <1> DEFINE n == Len(id)
             F == [i \in 1..n |-> {i} \X (1..Len(Parts[id[i]]))]
             S == {{i} \X (1..Len(Parts[id[i]])) : i \in 1..n}
             C == Cardinality(Places(id))
             V == {Line(id)[m] : m \in 1..C}
  <1>1. n \in Nat /\ IsFiniteSet(1..n)
    BY FS_Interval
  <1>2. F \in Surjection(1..n, S)
    BY Fun_IsSurj
  <1>3. IsFiniteSet(S)
    BY <1>1, <1>2, FS_Surjection
  <1>4. ASSUME NEW i \in 1..n
        PROVE  IsFiniteSet({i} \X (1..Len(Parts[id[i]])))
    <2>1. PICK l \in Int : l = Len(Parts[id[i]])
      BY SuiteAssumption
    <2> HIDE DEF F, S, C, V
    <2>2. IsFiniteSet({i})
      BY FS_Singleton
    <2>3. IsFiniteSet(1..l)
      BY FS_Interval
    <2> QED
      BY <2>1, <2>2, <2>3, FS_Product
  <1>5. \A T \in S : IsFiniteSet(T)
    BY <1>4
  <1>6. C \in Nat
    <2>1. IsFiniteSet(Places(id))
      BY <1>3, <1>5, FS_UNION DEF Places
    <2> QED
      BY <2>1, FS_CardinalityType
  <1>7. Line(id) \in Seq(V) /\ Len(Line(id)) = C
    <2>1. Line(id) \in [1..C -> V]
      BY DEF Line
    <2> HIDE DEF C, V
    <2> QED
      BY <1>6, <2>1
  <1> HIDE DEF C, V
  <1>8. \A m \in 1..C : Matching(AutoEscape(QuoteMeta(Line(id)[m]))) \in SUBSET Names
    BY DEF Matching
  <1>9. Suppression(id) \in [1..C -> SUBSET Names]
    BY <1>7, <1>8 DEF Suppression
  <1> QED
    BY <1>6, <1>9 DEF C, Patterns

\* Where each name is of one part, the line has the names in their order.
LEMMA LineOfNames ==
    ASSUME NEW id \in Seq(Names), \A i \in 1..Len(id) : Len(Parts[id[i]]) = 1
    PROVE  /\ Cardinality(Places(id)) = Len(id)
           /\ \A m \in 1..Len(id) : Line(id)[m] = Parts[id[m]][1]
  <1> DEFINE n == Len(id)
             P(k) == {<<i, 1>> : i \in 1..k}
  <1>1. n \in Nat
    OBVIOUS
  <1>2. ASSUME NEW k \in Nat
        PROVE  Cardinality(P(k)) = k
    <2> DEFINE f == [i \in 1..k |-> <<i, 1>>]
    <2>1. f \in Bijection(1..k, P(k))
      BY Fun_IsBij
    <2>2. ExistsBijection(1..k, P(k))
      BY <2>1, Fun_ExistsBij
    <2>3. IsFiniteSet(1..k) /\ Cardinality(1..k) = k
      BY FS_Interval
    <2> QED
      BY <2>2, <2>3, FS_Bijection
  <1>3. Places(id) = P(n)
    <2>1. 1..1 = {1}
      OBVIOUS
    <2>2. \A i \in 1..n : {i} \X (1..Len(Parts[id[i]])) = {i} \X {1}
      BY <2>1
    <2>3. \A i \in 1..n : {i} \X {1} = {<<i, 1>>}
      OBVIOUS
    <2> QED
      BY <2>2, <2>3 DEF Places
  <1>4. ASSUME NEW i \in 1..n
        PROVE  UpTo(id, <<i, 1>>) = P(i)
    BY <1>3 DEF UpTo
  <1>5. ASSUME NEW m \in 1..n
        PROVE  Place(id, m) = <<m, 1>>
    <2>1. \A p \in P(n) : Cardinality(UpTo(id, p)) = m <=> p = <<m, 1>>
      <3> TAKE p \in P(n)
      <3>1. PICK i \in 1..n : p = <<i, 1>>
        OBVIOUS
      <3>2. Cardinality(UpTo(id, p)) = i
        BY <1>2, <1>4, <3>1
      <3> QED
        BY <3>1, <3>2
    <2>2. <<m, 1>> \in P(n)
      OBVIOUS
    <2> QED
      BY <1>3, <2>1, <2>2 DEF Place
  <1>6. Cardinality(Places(id)) = n
    BY <1>1, <1>2, <1>3
  <1>7. ASSUME NEW m \in 1..n
        PROVE  Line(id)[m] = Parts[id[m]][1]
    BY <1>5, <1>6 DEF Line
  <1> QED
    BY <1>6, <1>7

\* Quoting puts one backslash before each metacharacter, and the escaping of
\* parentheses leaves it at that: a text matches the names in which it occurs.
LEMMA QuotedMatches ==
    ASSUME NEW text \in Texts
    PROVE  Matching(AutoEscape(QuoteMeta(text))) = Containing[text]
  <1>1. AutoEscape(QuoteMeta(text)) = [text |-> text, parens |-> 1, others |-> 1]
    BY DEF AutoEscape, QuoteMeta
  <1>2. Containing[text] \subseteq Names
    BY SuiteAssumption
  <1> QED
    BY <1>1, <1>2 DEF Matching

\* A suppression made of a test matches the test and all its subtests, if no name
\* has a slash: each name occurs in itself.
LEMMA SuppressionMatches ==
    ASSUME NEW id \in Seq(Names), NEW k \in 1..Len(id), Recordable(Prefix(id, k))
    PROVE  PatternMatch(Suppression(Prefix(id, k)), id, FALSE)
  <1> DEFINE q == Prefix(id, k)
  <1>1. q \in Seq(Names) /\ Len(q) = k /\ \A i \in 1..k : q[i] = id[i] /\ id[i] \in Names
    BY PrefixNames
  <1>2. \A i \in 1..Len(q) : Len(Parts[q[i]]) = 1
    BY DEF Recordable
  <1> HIDE DEF q
  <1>3. Cardinality(Places(q)) = k /\ \A i \in 1..k : Line(q)[i] = Parts[id[i]][1]
    BY <1>1, <1>2, LineOfNames
  <1>4. \A i \in 1..k : Parts[id[i]][1] \in Texts /\ id[i] \in Containing[Parts[id[i]][1]]
    BY <1>1, <1>2, SuiteAssumption
  <1>5. Len(Suppression(q)) = k
    BY <1>1, <1>3, SuppressionIsPattern
  <1>6. Len(Line(q)) = k
    BY <1>3, <1>1 DEF Line
  <1>7. \A i \in 1..k : id[i] \in Suppression(q)[i]
    BY <1>3, <1>4, <1>6, QuotedMatches DEF Suppression
  <1> QED
    BY <1>1, <1>5, <1>7 DEF PatternMatch, q

\* The failure of the suite itself is a blank line.
LEMMA SuiteIsBlank == BlankLine(<<>>)
  <1>1. Places(<<>>) = {}
    BY DEF Places
  <1>2. Cardinality(Places(<<>>)) = 0
    BY <1>1, FS_EmptySet
  <1> QED
    BY <1>2 DEF BlankLine, Line

-------------------------------------------------------------------------------
\* Type correctness: the patterns come from the command line or from recorded
\* tests, and results are sets of tests (framework/ldtest/test_scope.go:114-134).
THEOREM TypeCorrect == Spec => []TypeOK
  <1>1. Init => TypeOK
    BY SuiteAssumption DEF Init, TypeOK
  <1>2. TypeOK /\ [Next]_vars => TypeOK'
    <2> SUFFICES ASSUME TypeOK, [Next]_vars PROVE TypeOK'
      OBVIOUS
    <2>1. ASSUME NEW id \in Tests, Run(id) PROVE TypeOK'
      BY <2>1, SuiteAssumption DEF TypeOK, Run, Reached
    <2>2. ASSUME NEW id \in Tests, Exclude(id) PROVE TypeOK'
      BY <2>2 DEF TypeOK, Exclude, Reached
    <2>3. CASE RunAgain
      <3>1. failures \subseteq Tests \union {<<>>}
        BY DEF TypeOK
      <3>2. LoadSuppressions(failures) \subseteq {Suppression(id) : id \in Tests}
        BY <3>1, SuiteIsBlank DEF LoadSuppressions
      <3> QED
        BY <2>3, <3>1, <3>2, SuiteAssumption DEF TypeOK, RunAgain
    <2>4. CASE UNCHANGED vars
      BY <2>4 DEF TypeOK, vars
    <2> QED
      BY <2>1, <2>2, <2>3, <2>4 DEF Next
  <1> QED
    BY <1>1, <1>2, PTL DEF Spec

\* What the filter holds are patterns.
LEMMA FilterIsTyped ==
    ASSUME TypeOK
    PROVE  mustMatch \in SUBSET Patterns /\ mustNotMatch \in SUBSET Patterns
  BY SuiteAssumption, SuppressionIsPattern DEF TypeOK, Patterns

-------------------------------------------------------------------------------
\* The first invariant: an excluded test was not selected.
ExcludedInv == \A id \in excluded : ~Match(mustMatch, mustNotMatch, id)

\* The second: in the second run every recorded test is suppressed, and what
\* ran was selected.
RecordedInv ==
    /\ \A id \in recorded : ~BlankLine(id) => Suppression(id) \in mustNotMatch
    /\ \A id \in ran : id # <<>> => Match(mustMatch, mustNotMatch, id)

IInv == TypeOK /\ ExcludedInv /\ RecordedInv

LEMMA Invariance == Spec => []IInv
  <1>1. Init => IInv
    BY SuiteAssumption DEF Init, IInv, TypeOK, ExcludedInv, RecordedInv
  <1>2. IInv /\ TypeOK' /\ [Next]_vars => IInv'
    <2> SUFFICES ASSUME IInv, TypeOK', [Next]_vars PROVE IInv'
      OBVIOUS
    <2>1. ASSUME NEW id \in Tests, Run(id) PROVE IInv'
      BY <2>1 DEF IInv, ExcludedInv, RecordedInv, Run
    <2>2. ASSUME NEW id \in Tests, Exclude(id) PROVE IInv'
      BY <2>2 DEF IInv, ExcludedInv, RecordedInv, Exclude
    <2>3. CASE RunAgain
      <3>1. RecordedInv'
        BY <2>3 DEF RunAgain, RecordedInv, LoadSuppressions
      <3> QED
        BY <2>3, <3>1 DEF IInv, ExcludedInv, RunAgain
    <2>4. CASE UNCHANGED vars
      BY <2>4 DEF IInv, ExcludedInv, RecordedInv, vars
    <2> QED
      BY <2>1, <2>2, <2>3, <2>4 DEF Next
  <1> QED
    BY <1>1, <1>2, TypeCorrect, PTL DEF Spec

\* The filter is asked about a parent first (framework/ldtest/test_scope.go:118):
\* it never excludes one whose subtest it would select.
THEOREM SelectedAreReached == Spec => []NoSelectedTestIsHidden
  <1>1. IInv => NoSelectedTestIsHidden
    <2> SUFFICES ASSUME IInv, NEW id \in Tests, NEW k \in 1..Len(id),
                        Prefix(id, k) \in excluded,
                        Match(mustMatch, mustNotMatch, id)
                 PROVE  FALSE
      BY DEF NoSelectedTestIsHidden
    <2>1. id \in Seq(Names)
      BY SuiteAssumption
    <2>2. mustMatch \in SUBSET Patterns /\ mustNotMatch \in SUBSET Patterns
      BY FilterIsTyped DEF IInv
    <2>3. Match(mustMatch, mustNotMatch, Prefix(id, k))
      BY <2>1, <2>2, AncestorsAreSelected
    <2> QED
      BY <2>3 DEF IInv, ExcludedInv
  <1> QED
    BY <1>1, Invariance, PTL

\* -skip-from (main.go:119-141): a recorded test is not run again, nor are its
\* subtests, if no name on its path has a slash; quoting and escaping do not
\* change what the pattern matches.
THEOREM RecordedSkipped == Spec => []RecordedAreSkipped
  <1>1. IInv => RecordedAreSkipped
    <2> SUFFICES ASSUME IInv, NEW id \in ran, NEW k \in 1..Len(id),
                        Recordable(Prefix(id, k)), Prefix(id, k) \in recorded
                 PROVE  FALSE
      BY DEF RecordedAreSkipped
    <2>1. id \in Seq(Names) /\ id # <<>>
      BY SuiteAssumption DEF IInv, TypeOK
    <2>2. PatternMatch(Suppression(Prefix(id, k)), id, FALSE)
      BY <2>1, SuppressionMatches
    <2>3. Suppression(Prefix(id, k)) \in mustNotMatch
      BY DEF IInv, RecordedInv, Recordable
    <2>4. Match(mustMatch, mustNotMatch, id)
      BY <2>1 DEF IInv, RecordedInv
    <2> QED
      BY <2>2, <2>3, <2>4 DEF Match, AnyMatch
  <1> QED
    BY <1>1, Invariance, PTL
===============================================================================
