------------------------------- MODULE TestFilter -------------------------------
(***************************************************************************)
(* Which tests of the suite a run of the harness executes                  *)
(* (framework/ldtest/filter.go), and how the failures of one run become    *)
(* the filter of the next (-record-failures and -skip-from, main.go).      *)
(*                                                                         *)
(* A test is the path of the names of its parents and its own.  A pattern  *)
(* of -run or -skip is a sequence of regular expressions, each of which    *)
(* stands for the set of names that it matches.  The pattern of a recorded *)
(* test is made from the text of its path: what matters of a text is which *)
(* names it occurs in and whether it has characters with a meaning of      *)
(* their own.                                                              *)
(***************************************************************************)
EXTENDS Integers, Sequences, FiniteSets

CONSTANTS Names,         \* the names of tests
          Tests,         \* the paths of the suite's tests
          RunPatterns,   \* the patterns that may be given with -run
          SkipPatterns,  \* the patterns that may be given with -skip
          Texts,         \* texts without a slash
          Parts,         \* Parts[n]: the texts into which slashes cut the name n
          Containing,    \* Containing[x]: the names in which the text x occurs
          Blank,         \* the texts of white space only
          WithParens,    \* the texts with parentheses
          WithOthers     \* the texts with other metacharacters

ASSUME SuiteAssumption ==
    /\ Tests \subseteq Seq(Names) \ {<<>>}
    /\ RunPatterns \subseteq Seq(SUBSET Names)
    /\ SkipPatterns \subseteq Seq(SUBSET Names)
    /\ Parts \in [Names -> Seq(Texts) \ {<<>>}]
    /\ Containing \in [Texts -> SUBSET Names]
    /\ \A n \in Names : \A i \in 1..Len(Parts[n]) : n \in Containing[Parts[n][i]]
    /\ Blank \subseteq Texts /\ WithParens \subseteq Texts /\ WithOthers \subseteq Texts

VARIABLES
    mustMatch,     \* RegexFilters.MustMatch
    mustNotMatch,  \* RegexFilters.MustNotMatch
    ran,           \* the tests that were run; the root scope always is
    excluded,      \* the tests that T.Run excluded
    failures,      \* the tests with a critical failure, <<>> for the suite itself
    recorded,      \* the file of -record-failures
    again          \* whether this is the second run, with -skip-from

vars == <<mustMatch, mustNotMatch, ran, excluded, failures, recorded, again>>

Prefix(id, k) == SubSeq(id, 1, k)
Parent(id) == Prefix(id, Len(id) - 1)

-------------------------------------------------------------------------------
(* The filter. *)

\* TestIDPattern.Match.
PatternMatch(p, id, includeParents) ==
    /\ Len(p) > Len(id) => includeParents
    /\ \A i \in 1..Len(p) : i <= Len(id) => id[i] \in p[i]

AnyMatch(patterns, id, includeParents) ==
    \E p \in patterns : PatternMatch(p, id, includeParents)

\* Fault: -run of a subtest does not include its parents.
Match_NoParents(must, mustNot, id) ==
    /\ must # {} => AnyMatch(must, id, FALSE)
    /\ ~AnyMatch(mustNot, id, FALSE)

\* RegexFilters.Match.
Match(must, mustNot, id) ==
    /\ must # {} => AnyMatch(must, id, TRUE)
    /\ ~AnyMatch(mustNot, id, FALSE)

-------------------------------------------------------------------------------
(* From a recorded test to a pattern. *)

\* The places of the parts of a path: <<i, k>> is that of the k-th part of the
\* i-th name.
Places(id) == UNION {{i} \X (1..Len(Parts[id[i]])) : i \in 1..Len(id)}

UpTo(id, p) == {q \in Places(id) : q[1] < p[1] \/ (q[1] = p[1] /\ q[2] <= p[2])}
Place(id, m) == CHOOSE p \in Places(id) : Cardinality(UpTo(id, p)) = m

\* TestID.String joins the names with slashes, and ParseTestIDPattern splits the
\* line at each slash: the parts of all names, in order.
Line(id) ==
    [m \in 1..Cardinality(Places(id)) |-> Parts[id[Place(id, m)[1]]][Place(id, m)[2]]]

\* regexp.QuoteMeta: the text, with a backslash before each metacharacter.  It
\* does not touch slashes.
QuoteMeta(text) == [text |-> text, parens |-> 1, others |-> 1]

\* Fault: backslashes that were there already are not taken into account.
AutoEscape_Always(part) == [part EXCEPT !.parens = @ + 1]

\* autoEscapeTestRegex puts a backslash before each parenthesis, and takes one of
\* two away.
AutoEscape(part) ==
    LET more == part.parens + 1
    IN  [part EXCEPT !.parens = IF more >= 2 THEN more - 1 ELSE more]

\* regexp.Compile and MatchString: after one backslash a character stands for
\* itself, and the text matches wherever it occurs.  A regular expression in
\* which one does not is taken to match no name.
Matching(part) ==
    {n \in Names : /\ n \in Containing[part.text]
                   /\ part.text \in WithParens => part.parens = 1
                   /\ part.text \in WithOthers => part.others = 1}

\* ParseTestIDPattern of a quoted line.
Suppression(id) ==
    [m \in 1..Len(Line(id)) |-> Matching(AutoEscape(QuoteMeta(Line(id)[m])))]

BlankLine(id) == Line(id) = <<>> \/ \E x \in Blank : Line(id) = <<x>>

\* loadSuppressions skips blank lines.
LoadSuppressions(file) == {Suppression(id) : id \in {f \in file : ~BlankLine(f)}}

-------------------------------------------------------------------------------
(* Two runs of the harness. *)

Init ==
    /\ mustMatch \in SUBSET RunPatterns
    /\ mustNotMatch \in SUBSET SkipPatterns
    /\ ran = {<<>>}
    /\ excluded = {}
    /\ failures \in {{}, {<<>>}}
    /\ recorded = {}
    /\ again = FALSE

\* T.Run is called for a test by its parent's function, once.
Reached(id) == id \notin ran \union excluded /\ Parent(id) \in ran

Run(id) ==
    /\ Reached(id)
    /\ Match(mustMatch, mustNotMatch, id)
    /\ ran' = ran \union {id}
    /\ failures' \in {failures, failures \union {id}}
    /\ UNCHANGED <<mustMatch, mustNotMatch, excluded, recorded, again>>

Exclude(id) ==
    /\ Reached(id)
    /\ ~Match(mustMatch, mustNotMatch, id)
    /\ excluded' = excluded \union {id}
    /\ UNCHANGED <<mustMatch, mustNotMatch, ran, failures, recorded, again>>

\* Fault: the failures of the first run are kept for the second one.
RunAgain_KeepsFailures ==
    /\ ~again
    /\ \A id \in Tests : ~Reached(id)
    /\ again' = TRUE
    /\ recorded' = failures
    /\ mustNotMatch' = mustNotMatch \union LoadSuppressions(failures)
    /\ ran' = {<<>>}
    /\ excluded' = {}
    /\ UNCHANGED <<mustMatch, failures>>

\* The run ends and records its failures; the harness is run again with the
\* same arguments and -skip-from that file.
RunAgain ==
    /\ ~again
    /\ \A id \in Tests : ~Reached(id)
    /\ again' = TRUE
    /\ recorded' = failures
    /\ mustNotMatch' = mustNotMatch \union LoadSuppressions(failures)
    /\ ran' = {<<>>}
    /\ excluded' = {}
    /\ failures' \in {{}, {<<>>}}
    /\ UNCHANGED mustMatch

Next ==
    \/ \E id \in Tests : Run(id) \/ Exclude(id)
    \/ RunAgain

Spec == Init /\ [][Next]_vars

-------------------------------------------------------------------------------
TypeOK ==
    /\ mustMatch \subseteq RunPatterns
    /\ mustNotMatch \subseteq SkipPatterns \union {Suppression(id) : id \in Tests}
    /\ ran \subseteq Tests \union {<<>>}
    /\ excluded \subseteq Tests \ ran
    /\ failures \subseteq ran
    /\ recorded \subseteq Tests \union {<<>>}
    /\ again \in BOOLEAN

\* The filter is only asked about tests whose parent runs.  It never excludes
\* the parent of a test that it would select.
NoSelectedTestIsHidden ==
    \A id \in Tests : \A k \in 1..Len(id) :
        Prefix(id, k) \in excluded => ~Match(mustMatch, mustNotMatch, id)

\* The path of a test survives the way through the file: it is not blank, and no
\* name on it has a slash.
Recordable(id) ==
    /\ ~BlankLine(id)
    /\ \A i \in 1..Len(id) : Len(Parts[id[i]]) = 1

\* -record-failures and -skip-from: no recorded test and no subtest of one is
\* run again, whatever characters but slashes are in their names.
RecordedAreSkipped ==
    \A id \in ran : \A k \in 1..Len(id) :
        Recordable(Prefix(id, k)) => Prefix(id, k) \notin recorded
===============================================================================
