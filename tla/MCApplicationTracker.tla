-------------------------- MODULE MCApplicationTracker --------------------------
(* Instances of ApplicationTracker for TLC. *)
EXTENDS ApplicationTracker, TLC

Symmetry == Permutations(Todos) \cup Permutations(Clients)
=============================================================================
