---------------------------- MODULE EventsContract ----------------------------
(***************************************************************************)
(* What the events service is to the tests and to the SDKs: one log of     *)
(* payloads, which the test reads in order and which is never more than so *)
(* many payloads ahead of it.  A post that is accepted will be in the log; *)
(* of the posts of one payload with an ID the first that is understood is  *)
(* accepted or malformed, and any other is answered as a duplicate.        *)
(* EventsService refines this specification.                               *)
(***************************************************************************)
EXTENDS Naturals, Sequences

CONSTANTS Payloads,    \* the payloads that SDKs have to deliver
          Ahead,       \* bound on what is recorded and not yet read
          RequireGzip  \* whether a post has to be compressed

VARIABLES kind,     \* kind[p]: whether p has an ID, is compressed and is well-formed
          filter,   \* whether duplicates are ignored
          outcome,  \* outcome[p][n]: what has become of the n-th post of p
          log,      \* the payloads recorded, in order
          taken     \* how many of them the test has read

contractVars == <<kind, filter, outcome, log, taken>>

Attempts == 1..2
Kinds == [id : BOOLEAN, gzip : BOOLEAN, wellFormed : BOOLEAN]

Init ==
    /\ kind \in [Payloads -> Kinds]
    /\ filter = TRUE
    /\ outcome = [p \in Payloads |-> [n \in Attempts |-> "none"]]
    /\ log = <<>>
    /\ taken = 0

Becomes(p, n, result) == outcome' = [outcome EXCEPT ![p][n] = result]

\* A post of p has got as far as its ID.
Known(p) == \E n \in Attempts : outcome[p][n] \notin {"none", "refused"}
Ignored(p) == filter /\ kind[p].id /\ Known(p)
Readable(p) == RequireGzip => kind[p].gzip

\* A post that is not understood leaves no trace.
Refuse(p, n) ==
    /\ outcome[p][n] = "none"
    /\ Becomes(p, n, "refused")
    /\ UNCHANGED <<kind, filter, log, taken>>

Discard(p, n) ==
    /\ outcome[p][n] = "none"
    /\ Readable(p) /\ Ignored(p)
    /\ Becomes(p, n, "duplicate")
    /\ UNCHANGED <<kind, filter, log, taken>>

Accept(p, n) ==
    /\ outcome[p][n] = "none"
    /\ Readable(p) /\ ~Ignored(p)
    /\ Becomes(p, n, IF kind[p].wellFormed THEN "accepted" ELSE "malformed")
    /\ UNCHANGED <<kind, filter, log, taken>>

Record(p, n) ==
    /\ outcome[p][n] = "accepted"
    /\ Len(log) < taken + Ahead
    /\ log' = Append(log, p)
    /\ Becomes(p, n, "recorded")
    /\ UNCHANGED <<kind, filter, taken>>

Take ==
    /\ taken < Len(log)
    /\ taken' = taken + 1
    /\ UNCHANGED <<kind, filter, outcome, log>>

TurnOff ==
    /\ filter
    /\ filter' = FALSE
    /\ UNCHANGED <<kind, outcome, log, taken>>

Next ==
    \/ Take \/ TurnOff
    \/ \E p \in Payloads, n \in Attempts :
           Refuse(p, n) \/ Discard(p, n) \/ Accept(p, n) \/ Record(p, n)

Spec == Init /\ [][Next]_contractVars
===============================================================================
