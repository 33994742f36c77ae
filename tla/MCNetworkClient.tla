-------------------------- MODULE MCNetworkClient --------------------------
(* NetworkClient for TLC: interchangeable thread slots.                    *)
EXTENDS NetworkClient, TLC

Symmetry == Permutations(Threads)
=============================================================================
