-------------------------- MODULE MCMonitoredLinks --------------------------
(* Small instances of MonitoredLinks for TLC. *)
EXTENDS MonitoredLinks, TLC

Symmetry == Permutations(Threads) \cup Permutations(Links)
=============================================================================
