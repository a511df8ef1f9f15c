----------------------------- MODULE MCSDKClients -----------------------------
(* Model values for checking SDKClients and TestScope on small instances. *)
EXTENDS SDKClients, TLC

CONSTANTS c1, c2, c3

TwoClients == {c1, c2}
ThreeClients == {c1, c2, c3}

\* Sound for safety: the clients are interchangeable.
MCSymmetry == Permutations(Clients)
===============================================================================
