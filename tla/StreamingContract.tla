--------------------------- MODULE StreamingContract ---------------------------
(***************************************************************************)
(* What the streaming service is to the tests and to the SDKs: a data set  *)
(* that every new stream opens with, and events that go to all streams at  *)
(* once, so that no two clients see them in different orders and none      *)
(* misses one between the opening of its stream and its end.  The events   *)
(* from before the first stream are kept for that one.                     *)
(* StreamingService refines this specification.                            *)
(***************************************************************************)
EXTENDS Naturals, Sequences

CONSTANTS Conns,      \* the stream connections that SDKs may open
          MaxVersion, \* bound on the versions of the data
          MaxPushes   \* bound on the events that tests push

VARIABLES data,       \* the version of the data; 0: there is none
          refreshed,  \* the version that was last published to all, the one the
                      \* service was created with at first
          pushed,     \* the number of events pushed
          stage,      \* stage[c]: whether the stream of c is yet to open, open or over
          stream      \* stream[c]: what c is sent, in order

contractVars == <<data, refreshed, pushed, stage, stream>>

Put(v) == [name |-> "put", n |-> v]
Push(k) == [name |-> "push", n |-> k]
Open == {c \in Conns : stage[c] = "open"}
Started == \E c \in Conns : stage[c] # "new"

Init ==
    /\ data \in {0, 1}
    /\ refreshed = data
    /\ pushed = 0
    /\ stage = [c \in Conns |-> "new"]
    /\ stream = [c \in Conns |-> <<>>]

SetData ==
    /\ data < MaxVersion
    /\ data' = data + 1
    /\ UNCHANGED <<refreshed, pushed, stage, stream>>

\* An event goes to the open streams.  Those that are too slow for it end instead.
Publish(e) ==
    \E slow \in SUBSET Open :
        /\ stage' = [c \in Conns |-> IF c \in slow THEN "over" ELSE stage[c]]
        /\ stream' = [c \in Conns |-> IF c \in Open \ slow THEN Append(stream[c], e)
                                                           ELSE stream[c]]

Refresh ==
    /\ data # 0
    /\ refreshed' = data
    /\ Publish(Put(data))
    /\ UNCHANGED <<data, pushed>>

\* Before the first stream an event is only kept.
PushEvent ==
    /\ pushed < MaxPushes
    /\ pushed' = pushed + 1
    /\ IF Started THEN Publish(Push(pushed')) ELSE UNCHANGED <<stage, stream>>
    /\ UNCHANGED <<data, refreshed>>

\* A stream opens with data at least as new as the last that was published.
Opening == UNION {IF v = 0 THEN {<<>>} ELSE {<<Put(v)>>} : v \in refreshed..data}
Kept == IF Started THEN <<>> ELSE [k \in 1..pushed |-> Push(k)]

Attach(c) ==
    /\ stage[c] = "new"
    /\ \E opening \in Opening : stream' = [stream EXCEPT ![c] = opening \o Kept]
    /\ stage' = [stage EXCEPT ![c] = "open"]
    /\ UNCHANGED <<data, refreshed, pushed>>

Leave(c) ==
    /\ stage[c] = "open"
    /\ stage' = [stage EXCEPT ![c] = "over"]
    /\ UNCHANGED <<data, refreshed, pushed, stream>>

Next == SetData \/ Refresh \/ PushEvent \/ \E c \in Conns : Attach(c) \/ Leave(c)

Spec == Init /\ [][Next]_contractVars

-------------------------------------------------------------------------------
\* The pushed events of a stream are those after the first m up to the n-th, each
\* once and in order.
IsPush(e) == e.name = "push"
CarriesBetween(s, m, n) ==
    /\ \A k \in m+1..n : \E i \in 1..Len(s) : s[i] = Push(k)
    /\ \A i \in 1..Len(s) : IsPush(s[i]) => s[i].n \in m+1..n
    /\ \A i, j \in 1..Len(s) : i < j /\ IsPush(s[i]) /\ IsPush(s[j]) => s[i].n < s[j].n

\* A stream has each event from the first after its opening, or the first that was
\* kept for it, once and in order; while it is open, up to the last that was pushed.
StreamsHaveNoGaps ==
    \A c \in Conns : stage[c] # "new" =>
        \E m \in 0..pushed : \E n \in m..pushed :
            /\ CarriesBetween(stream[c], m, n)
            /\ stage[c] = "open" => n = pushed
===============================================================================
