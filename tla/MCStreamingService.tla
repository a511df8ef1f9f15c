------------------------- MODULE MCStreamingService -------------------------
(* Model values for checking StreamingService on small instances. *)
EXTENDS StreamingService

CONSTANTS c1, c2

MCConns == {c1, c2}

\* Carries against its definition by selection, on all short streams.
ASSUME CarriesSelects ==
    \A s \in UNION {[1..m -> {Put(1), Put(2), Push(1), Push(2), Push(3)}] : m \in 0..4} :
        \A n \in 0..3 :
            Carries(s, n) <=> SelectSeq(s, IsPush) = [k \in 1..n |-> Push(k)]
=============================================================================
