------------------------------ MODULE MCProbe ------------------------------
(* A small instance of Probe, and of the form it extends, for TLC. *)
EXTENDS Probe

(* Below and above what a column, a signed number of 16 bits and an unsigned one
   hold, and between the last two. *)
TypedPorts == {Fraction, -1, 0, 40000, 65536}
=============================================================================
