--------------------------- MODULE MCMonitorLoops ---------------------------
(* MonitorLoops on small instances: retry bounds of 3, answers 0..2,      *)
(* REBALANCE_TIMEOUT of two polling intervals.                            *)
EXTENDS MonitorLoops, TLC

=============================================================================
