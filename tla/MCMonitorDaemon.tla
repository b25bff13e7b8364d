--------------------------- MODULE MCMonitorDaemon ---------------------------
(* MonitorDaemon with two checkpoints and an event deque small enough to     *)
(* overflow.                                                                 *)
EXTENDS MonitorDaemon
CONSTANTS c1, c2
=============================================================================
