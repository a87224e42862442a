---------------------------- MODULE MCInventory ----------------------------
(* A small instance of Inventory for TLC. *)
EXTENDS Inventory

Symmetry == Permutations(Monitors) \cup Permutations(Requests)
=============================================================================
