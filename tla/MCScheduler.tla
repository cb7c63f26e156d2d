---------------------------- MODULE MCScheduler -----------------------------
(***************************************************************************)
(* Small instances of Scheduler: host CPUs with their idle VCPUs, threads  *)
(* and Normal VCPUs.  Idle VCPUs have priority 0 and are bound to their    *)
(* host CPU; all others have priority 1, those in High priority 2, and     *)
(* those in Bound stay on host CPU c1.                                     *)
(***************************************************************************)
EXTENDS Scheduler, SchedulerInv, TLC

CONSTANTS c1, c2, i1, i2, High, Bound

MCIdle == c1 :> i1 @@ c2 :> i2
MCPriority == [v \in VCPU |-> IF v \in {i1, i2} THEN 0 ELSE IF v \in High THEN 2 ELSE 1]
MCAffinity == [v \in VCPU |-> IF v = i2 THEN {c2} ELSE IF v \in Bound \cup {i1} THEN {c1} ELSE CPU]
=============================================================================
