---------------------------- MODULE MCRestaurant ----------------------------
(* Small instances of Restaurant. *)
EXTENDS Restaurant, SequencesExt

(* Processes of one kind, and dishes, are interchangeable. *)
Symmetry ==
    Permutations(Clients) \union Permutations(Cashiers)
      \union Permutations(MenuItems)

(* TLC may not use symmetry with liveness.  Clients that order the same     *)
(* dish differ in nothing but their names until they come for a token: each *)
(* behaviour is, but for these names, one where they come in a fixed order. *)
(* It is as fair, since a client that has to let another come first finds a *)
(* token exactly when the other does.                                       *)
Line == SetToSeq(Clients)

Come(c) == pc[c] # "get_wait"

InTurn == \A m, n \in DOMAIN Line : m < n /\ Come(Line[n]) => Come(Line[m])

FairSpecInTurn == Init /\ [][Next /\ InTurn']_vars /\ Fairness
=============================================================================
