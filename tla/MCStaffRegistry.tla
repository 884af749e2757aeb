-------------------------- MODULE MCStaffRegistry ---------------------------
(* Small instances of StaffRegistry. *)
EXTENDS StaffRegistry, TLC

Symmetry == Permutations(Cashiers)
=============================================================================
