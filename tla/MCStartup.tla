----------------------------- MODULE MCStartup -----------------------------
(* Startup for TLC: processes are interchangeable.                         *)
EXTENDS Startup, TLC

Symmetry == Permutations(Procs)
=============================================================================
