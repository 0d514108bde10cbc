------------------------- MODULE MCMonitoringSystem -------------------------
(* Model-checking instance of MonitoringSystem. *)
EXTENDS MonitoringSystem
=============================================================================
