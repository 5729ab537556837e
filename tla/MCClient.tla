------------------------------ MODULE MCClient ------------------------------
(***************************************************************************)
(* Client with small sets of connections, subscriptions and goroutines.    *)
(* Connections and loop slots are interchangeable; the runs that check     *)
(* safety only use that symmetry.                                          *)
(***************************************************************************)
EXTENDS Client, TLC

Symmetry == Permutations(Conns) \cup Permutations(Loops)

=============================================================================
