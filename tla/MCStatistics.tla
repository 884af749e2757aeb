---------------------------- MODULE MCStatistics -----------------------------
(* Small instances of Statistics. *)
EXTENDS Statistics

Symmetry == Permutations(Clients)
=============================================================================
