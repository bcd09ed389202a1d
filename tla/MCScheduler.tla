----------------------------- MODULE MCScheduler -----------------------------
(* Instances of the scheduler for TLC.                                     *)
EXTENDS Scheduler

(* A low, a high and an out-of-range priority: with MAX_PRIORITY 2 the     *)
(* boost through nextPID starts at 1.                                      *)
MCPriorityArgs == {-1, 0, 2}

=============================================================================
