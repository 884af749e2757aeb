---------------------------- MODULE MCLifecycle ----------------------------
(* Clients are interchangeable, and so are the staff. *)
EXTENDS Lifecycle, TLC

Symmetry == Permutations(Clients) \union Permutations(Staff)
=============================================================================
