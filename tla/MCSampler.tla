------------------------------ MODULE MCSampler ------------------------------
(* A machine with two processors, two processes, a disk, "lo" and one more  *)
(* interface, for TLC.                                                       *)
EXTENDS Sampler

CONSTANTS lo, eth0, sda

MCCores == {0, 1}
MCPids == {1, 2}
MCDisks == {sda}
MCNics == {lo, eth0}
MCBudget ==
    {"core", "stat"} :> 2 @@ {"pid", "proc"} :> 2 @@ {"disk", "block", "diskstats"} :> 2
    @@ {"nic", "net"} :> 2 @@ {"addr", "route", "nic"} :> 1 @@ {"log", "kmsg"} :> 3
    @@ {"hostname"} :> 2 @@ {"files", "tcp", "proc"} :> 1
MCLoads == {1, 11}
MCBootLogs == {<<"error", "info", "warning", "warning">>}
=============================================================================
