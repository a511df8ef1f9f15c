--------------------------- MODULE MCMockEndpoint ---------------------------
(* Model values for checking MockEndpoint on small instances: one ordinary *)
(* request and one that is a stream.                                       *)
EXTENDS MockEndpoint

CONSTANTS r1, r2

MCRequests == {r1, r2}
MCStreams == {r2}
=============================================================================
