----------------------------- MODULE MCAccount -----------------------------
(* Small instances of Account for TLC. *)
EXTENDS Account, TLC

HandlerSymmetry == Permutations(Handlers)
=============================================================================
