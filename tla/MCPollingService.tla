--------------------------- MODULE MCPollingService ---------------------------
(* Model values for checking PollingService on small instances. *)
EXTENDS PollingService

CONSTANTS p1, p2, e1

MCPolls == {p1, p2}
MCOneEtag == {e1}
MCFirstUnavailable == {1}
MCLastUnavailable == {3}
===============================================================================
