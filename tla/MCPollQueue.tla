---------------------------- MODULE MCPollQueue ----------------------------
(***************************************************************************)
(* Small instances of PollQueue.  "status" is the short tier, "discovery"  *)
(* the long one; the ticks keep the order of the code's durations (a run   *)
(* below its lease, discovery's above status's), not their ratios.         *)
(***************************************************************************)
EXTENDS PollQueue, TLC

MCInterval == [k \in Kinds |-> 1]
MCLease == [k \in Kinds |-> IF k = "status" THEN 2 ELSE 3]
\* The headroom the leases are sized for.
MCShortRun == [k \in Kinds |-> IF k = "status" THEN 1 ELSE 2]
=============================================================================
