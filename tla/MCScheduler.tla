---------------------------- MODULE MCScheduler ----------------------------
(* Scheduler for TLC: a task of priority 3 and user processes of lower or equal
   priority, the last of which is an APP that spins. *)
EXTENDS Scheduler

MCPriority == [q \in 1..N |-> IF q = 1 THEN 3 ELSE q - 1]
=============================================================================
