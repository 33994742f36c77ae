--------------------------- MODULE MCNetworkServer ---------------------------
(* NetworkServer for TLC: connections are interchangeable.                 *)
EXTENDS NetworkServer, TLC

Symmetry == Permutations(Clients)
=============================================================================
