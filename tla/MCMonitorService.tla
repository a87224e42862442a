-------------------------- MODULE MCMonitorService --------------------------
(* Small instances of MonitorService for TLC. *)
EXTENDS MonitorService, TLC

HandlerSymmetry == Permutations(Handlers)
=============================================================================
