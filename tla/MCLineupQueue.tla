--------------------------- MODULE MCLineupQueue ----------------------------
(* Small instances of LineupQueue. *)
EXTENDS LineupQueue, TLC

(* Processes of one kind, and orders, are interchangeable. *)
Symmetry ==
    Permutations(Pushers) \union Permutations(Poppers) \union Permutations(Orders)
=============================================================================
