------------------------------ MODULE VcpuFsm -------------------------------
(***************************************************************************)
(* What the scheduler promises about the state of VCPUs: the finite-state  *)
(* machine of vmm_scheduler_state_change() (figure-3 of docs/DesignDoc),   *)
(* together with the host CPU that runs each VCPU.  Ready queues, locks,   *)
(* interrupts and the stages of a context switch are left to Scheduler.    *)
(***************************************************************************)
CONSTANTS CPU, VCPU, NoVcpu,
          Started       \* the VCPUs kicked before the schedulers start

VARIABLES state, current_vcpu
vars == <<state, current_vcpu>>

Init ==
    /\ state = [v \in VCPU |-> IF v \in Started THEN "READY" ELSE "RESET"]
    /\ current_vcpu = [c \in CPU |-> NoVcpu]

(* One transition of the state of v, from one of the states in from. *)
Move(v, from, to) ==
    /\ state[v] \in from
    /\ state' = [state EXCEPT ![v] = to]
    /\ UNCHANGED current_vcpu


Kick(v) == Move(v, {"RESET"}, "READY")
Resume(v) == Move(v, {"PAUSED"}, "READY")
Pause(v) == Move(v, {"READY", "RUNNING"}, "PAUSED")
Halt(v) == Move(v, {"READY", "RUNNING"}, "HALTED")
Reset(v) == Move(v, {"READY", "RUNNING", "PAUSED", "HALTED"}, "RESET")

(* The host CPU that runs v takes it off. *)
Deschedule(c, v) == current_vcpu[c] = v /\ Move(v, {"RUNNING"}, "READY")

(* A host CPU runs v, which no other host CPU runs. *)
Schedule(c, v) ==
    /\ state[v] = "READY"
    /\ \A d \in CPU \ {c} : current_vcpu[d] # v
    /\ state' = [state EXCEPT ![v] = "RUNNING"]
    /\ current_vcpu' = [current_vcpu EXCEPT ![c] = v]

Next ==
    \E v \in VCPU :
      \/ Kick(v) \/ Resume(v) \/ Pause(v) \/ Halt(v) \/ Reset(v)
      \/ \E c \in CPU : Deschedule(c, v) \/ Schedule(c, v)

Spec == Init /\ [][Next]_vars
=============================================================================
