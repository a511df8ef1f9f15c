---------------------------- MODULE PollingContract ----------------------------
(***************************************************************************)
(* What the polling service is to the tests and to the SDKs: one object    *)
(* that holds an etag and a data set.  A test replaces the one or the      *)
(* other, and a poll gets its answer, each in one step.  The poll that     *)
(* finds the data unavailable is the last thing that happens.              *)
(* PollingService refines this specification.                              *)
(***************************************************************************)
EXTENDS Naturals

CONSTANTS Polls,        \* the requests that SDKs may send
          Etags,        \* the values that tests give to SetEtag
          MaxVersion,   \* bound on the versions of the data set
          Unavailable,  \* the versions that cannot be served
          Gzip          \* whether the service compresses its responses

VARIABLES data,    \* the version of the data set
          etag,
          answer,  \* answer[p]: the request with its response, or NoAnswer
          stuck    \* the service has stopped

contractVars == <<data, etag, answer, stuck>>

NoEtag == "no etag"
NoAnswer == [status |-> 0]
Request == [ifNoneMatch : Etags \union {NoEtag}, key : {"all", "known", "unknown"},
            gzip : BOOLEAN]

Init ==
    /\ data = 1
    /\ etag = NoEtag
    /\ answer = [p \in Polls |-> NoAnswer]
    /\ stuck = FALSE

SetData ==
    /\ ~stuck
    /\ data < MaxVersion
    /\ data' = data + 1
    /\ UNCHANGED <<etag, answer, stuck>>

SetEtag ==
    /\ ~stuck
    /\ etag' \in Etags
    /\ UNCHANGED <<data, answer, stuck>>

\* The SDK has what the service holds.
UpToDate(req) == req.ifNoneMatch # NoEtag /\ req.ifNoneMatch = etag

Status(req) ==
    CASE UpToDate(req) -> 304
      [] ~UpToDate(req) /\ (data \in Unavailable \/ req.key = "unknown") -> 404
      [] ~UpToDate(req) /\ data \notin Unavailable /\ req.key # "unknown" ->
             IF Gzip /\ ~req.gzip THEN 400 ELSE 200

Response(req) ==
    [req |-> req, status |-> Status(req),
     etag |-> IF Status(req) \in {200, 400} THEN etag ELSE NoEtag,
     data |-> IF Status(req) = 200 THEN data ELSE 0]

\* A request names no etag but one of an earlier answer.
Poll(p, req) ==
    /\ ~stuck
    /\ answer[p] = NoAnswer
    /\ \/ req.ifNoneMatch = NoEtag
       \/ \E q \in Polls : answer[q] # NoAnswer /\ answer[q].etag = req.ifNoneMatch
    /\ answer' = [answer EXCEPT ![p] = Response(req)]
    /\ stuck' = (~UpToDate(req) /\ data \in Unavailable)
    /\ UNCHANGED <<data, etag>>

Next == SetData \/ SetEtag \/ \E p \in Polls, req \in Request : Poll(p, req)

Spec == Init /\ [][Next]_contractVars
===============================================================================
