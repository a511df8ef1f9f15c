--------------------------- MODULE MCEventsService ---------------------------
(* Model values for checking EventsService on small instances. *)
EXTENDS EventsService

CONSTANTS p1, p2

MCPayloads == {p1, p2}
==============================================================================
