--------------------------- MODULE MCDistributor ---------------------------
(* Small instances of Distributor for TLC; the cfg files give the constants. *)
EXTENDS Distributor
=============================================================================
