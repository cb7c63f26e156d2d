-------------------------- MODULE SchedulerChange ---------------------------
(***************************************************************************)
(* vmm_scheduler_state_change() and what calls it: sleeping and waking     *)
(* threads, the manager operations on VCPUs of guests, and migrations.     *)
(***************************************************************************)
EXTENDS SchedulerState

(***************************************************************************)
(* The end of vmm_scheduler_state_change(): the host CPU h of the VCPU has *)
(* to be preempted.  On the same host CPU a Normal VCPU is switched when   *)
(* the handler exits and an Orphan VCPU at once, unless the caller holds   *)
(* the lock of the waitqueue, since its preempt_count then makes           *)
(* vmm_scheduler_switch() refuse.  Another host CPU gets a resched IPI,    *)
(* coalesced with one that is on its way (vmm_scheduler_force_resched).    *)
(***************************************************************************)
Preempt(c, h, needed, locked) ==
    LET act == needed /\ current_vcpu[h] # NoVcpu IN
    /\ sw' = IF act /\ c = h /\ current_vcpu[c] \in Orphan /\ ~locked
             THEN [sw EXCEPT ![c] = Switching(c)] ELSE sw
    /\ yield_on_irq_exit' =
             IF act /\ c = h /\ current_vcpu[c] \in Normal
             THEN [yield_on_irq_exit EXCEPT ![c] = TRUE] ELSE yield_on_irq_exit
    /\ rq_resched_state' =
             IF act /\ c # h
             THEN [rq_resched_state EXCEPT ![h] = "TRIGGERED"] ELSE rq_resched_state

(* mutant: a stopped or migrated VCPU stays linked *)
DetachNothing(v) == rq
(* rq_detach: the entry leaves whichever ready queue it is linked in. *)
DetachAll(v) == [c \in CPU |-> rq_detach(rq[c], v)]

(* vmm_scheduler_state_change(v, READY) on host CPU c: kick, resume, wake. *)
ChangeToReady(c, v, locked) ==
    LET h == hcpu[v] IN
    /\ sched_lock[v] = NoCpu
    /\ \/ /\ state[v] \in {"RESET", "PAUSED"}
          /\ rq' = [rq EXCEPT ![h] = rq_enqueue(@, v, priority[v])]
          /\ state' = [state EXCEPT ![v] = "READY"]
          /\ wq_cleanup' = [wq_cleanup EXCEPT ![v] = FALSE]
          /\ LET u == current_vcpu[h] IN
             Preempt(c, h, u # v /\ u # NoVcpu /\ rq_prempt_needed(rq'[h], priority[u]), locked)
          /\ UNCHANGED resumed
       \/ /\ state[v] = "RUNNING"
          /\ resumed' = [resumed EXCEPT ![v] = TRUE]
          /\ Preempt(c, h, TRUE, locked)
          /\ UNCHANGED <<rq, state, wq_cleanup>>
    /\ UNCHANGED <<hcpu, sched_lock, saved, current_vcpu, mode, ipi_reset, ipi_migrate,
                   preempt_count, wq_lock, phase, sleep_cpu>>

(* vmm_scheduler_state_change(v, PAUSED) and (v, HALTED). *)
ChangeToStopped(c, v, new) ==
    LET h == hcpu[v] IN
    /\ sched_lock[v] = NoCpu
    /\ \/ /\ state[v] \in {"READY", "RUNNING"} /\ resumed[v] /\ new = "PAUSED"
          /\ resumed' = [resumed EXCEPT ![v] = FALSE]
          /\ wq_cleanup' = [wq_cleanup EXCEPT ![v] = FALSE]
          /\ UNCHANGED <<state, rq, sw, yield_on_irq_exit, rq_resched_state>>
       \/ /\ state[v] \in {"READY", "RUNNING"} /\ ~(resumed[v] /\ new = "PAUSED")
          /\ resumed' = [resumed EXCEPT ![v] = FALSE]
          /\ state' = [state EXCEPT ![v] = new]
          /\ Preempt(c, h, current_vcpu[h] = v, FALSE)
          /\ rq' = IF current_vcpu[h] # v /\ state[v] = "READY" THEN DetachAll(v) ELSE rq
          /\ UNCHANGED wq_cleanup
       \/ /\ state[v] \notin {"READY", "RUNNING"} /\ ~(state[v] = "PAUSED" /\ new = "PAUSED")
          /\ wq_cleanup' = [wq_cleanup EXCEPT ![v] = FALSE]
          /\ UNCHANGED <<resumed, state, rq, sw, yield_on_irq_exit, rq_resched_state>>
    /\ UNCHANGED <<hcpu, sched_lock, saved, current_vcpu, mode, ipi_migrate>>

(* vmm_scheduler_state_change(v, RESET): arch_vcpu_init() makes vcpu->regs *)
(* the initial registers of the VCPU.                                      *)
ChangeToReset(c, v) ==
    LET h == hcpu[v] IN
    /\ sched_lock[v] = NoCpu
    /\ IF state[v] = "RESET"
       THEN UNCHANGED <<resumed, rq, sw, yield_on_irq_exit, rq_resched_state, saved, state>>
       ELSE /\ resumed' = [resumed EXCEPT ![v] = FALSE]
            /\ rq' = IF current_vcpu[h] # v /\ state[v] = "READY" THEN DetachAll(v) ELSE rq
            /\ Preempt(c, h, current_vcpu[h] = v /\ state[v] = "RUNNING", FALSE)
            /\ saved' = [saved EXCEPT ![v] = TRUE]
            /\ state' = [state EXCEPT ![v] = "RESET"]
    /\ UNCHANGED <<hcpu, sched_lock, current_vcpu, mode, ipi_migrate, wqVars>>

-----------------------------------------------------------------------------
(***************************************************************************)
(* What threads, handlers and guests do.                                   *)
(***************************************************************************)

(* __vmm_waitqueue_sleep up to the switch: with the lock of the waitqueue  *)
(* held, which counts one in preempt_count, the thread links itself and    *)
(* pauses itself.  If it was resumed meanwhile it does not sleep.          *)
Sleep(c) ==
    LET u == current_vcpu[c] IN
    /\ InOrphan(c) /\ u \in Thread /\ preempt_count[u] = 0
    /\ wq_owner = NoVcpu /\ sched_lock[u] = NoCpu /\ state[u] = "RUNNING"
    /\ resumed' = [resumed EXCEPT ![u] = FALSE]
    /\ IF resumed[u]
       THEN UNCHANGED <<state, wqVars, sw, yield_on_irq_exit, rq_resched_state>>
       ELSE /\ state' = [state EXCEPT ![u] = "PAUSED"]
            /\ wq_cleanup' = [wq_cleanup EXCEPT ![u] = TRUE]
            /\ wq_lock' = [wq_lock EXCEPT ![u] = TRUE]
            /\ wq_owner' = u
            /\ preempt_count' = [preempt_count EXCEPT ![u] = 1]
            /\ phase' = [phase EXCEPT ![u] = "asleep"]
            /\ sleep_cpu' = [sleep_cpu EXCEPT ![u] = hcpu[u]]
            /\ Preempt(c, hcpu[u], current_vcpu[hcpu[u]] = u, FALSE)
    /\ UNCHANGED <<hcpu, sched_lock, saved, rq, current_vcpu, mode, ipi_reset, ipi_migrate>>

(* mutant: the thread does not take the lock again *)
NeverRelock(u) == FALSE
(* The end of that state change, when the thread runs again: it takes the  *)
(* lock of the waitqueue if the current VCPU of the host CPU on which it   *)
(* went to sleep (schedp was computed then) has one.                       *)
MustRelock(u) == LET p == current_vcpu[sleep_cpu[u]] IN p # NoVcpu /\ wq_lock[p]
Relock(c) ==
    LET u == current_vcpu[c]
        relock == MustRelock(u) IN
    /\ sw[c].step = "none" /\ mode[c] = "vcpu" /\ u \in Thread /\ phase[u] = "asleep"
    /\ relock => wq_owner = NoVcpu
    /\ wq_owner' = IF relock THEN u ELSE wq_owner
    /\ preempt_count' = IF relock THEN [preempt_count EXCEPT ![u] = @ + 1] ELSE preempt_count
    /\ phase' = [phase EXCEPT ![u] = "woken"]
    /\ UNCHANGED <<vcpuVars, wq_lock, wq_cleanup, sleep_cpu, cpuVars, ipiVars>>

(* __vmm_waitqueue_sleep returns; its caller unlocks the waitqueue. *)
SleepReturn(c) ==
    LET u == current_vcpu[c] IN
    /\ sw[c].step = "none" /\ mode[c] = "vcpu" /\ u \in Thread /\ phase[u] = "woken"
    /\ wq_lock' = [wq_lock EXCEPT ![u] = FALSE]
    /\ wq_owner' = NoVcpu
    /\ preempt_count' = [preempt_count EXCEPT ![u] = PreemptEnable(u)]
    /\ phase' = [phase EXCEPT ![u] = "none"]
    /\ sleep_cpu' = [sleep_cpu EXCEPT ![u] = NoCpu]
    /\ UNCHANGED <<vcpuVars, wq_cleanup, cpuVars, ipiVars>>

(* vmm_waitqueue_wake and the other wake functions: the lock of the        *)
(* waitqueue is held around the state change.  A handler that is made to   *)
(* switch keeps it until the switch is over.                               *)
Wake(c, v) ==
    /\ Caller(c) /\ wq_owner = NoVcpu /\ wq_cleanup[v]
    /\ ChangeToReady(c, v, mode[c] = "vcpu")
    /\ wq_owner' = IF sw' = sw THEN wq_owner ELSE c

(* vmm_manager_vcpu_kick *)
Kick(c, v) ==
    /\ Caller(c) /\ state[v] = "RESET" /\ (v \in Normal => Booted)
    /\ Quiesced => OffCpu(v)
    /\ ChangeToReady(c, v, FALSE)
    /\ UNCHANGED wq_owner

(* vmm_scheduler_yield by the current Orphan VCPU, idle_orphan included. *)
Yield(c) ==
    LET u == current_vcpu[c] IN
    /\ InOrphan(c) /\ state[u] = "RUNNING"
    /\ ChangeToReady(c, u, FALSE)
    /\ UNCHANGED wq_owner

(* vmm_scheduler_preempt_disable and _enable around a spinlock. *)
SpinLock(c) ==
    LET u == current_vcpu[c] IN
    /\ "spin" \in Ops /\ InOrphan(c) /\ u \in Thread /\ preempt_count[u] < 2
    /\ \/ preempt_count' = [preempt_count EXCEPT ![u] = 1] /\ preempt_count[u] = 0
       \/ preempt_count' = [preempt_count EXCEPT ![u] = 0] /\ preempt_count[u] = 1
    /\ UNCHANGED <<vcpuVars, wq_lock, wq_cleanup, phase, sleep_cpu, wq_owner, cpuVars, ipiVars>>

(* vmm_manager_vcpu_pause, _halt and _resume of a VCPU of a guest, from a  *)
(* thread, from a handler or, for the first two, from the exception handler *)
(* of the VCPU itself.                                                     *)
StopGuest(c, v, new) ==
    /\ Caller(c) \/ (mode[c] = "trap" /\ sw[c].step = "none" /\ v = current_vcpu[c])
    /\ ChangeToStopped(c, v, new)
    /\ UNCHANGED <<preempt_count, wq_lock, phase, sleep_cpu, wq_owner, ipi_reset>>

ResumeGuest(c, v) ==
    /\ "resume" \in Ops /\ Caller(c) /\ state[v] # "RESET"
    /\ Quiesced => OffCpu(v)
    /\ ChangeToReady(c, v, FALSE)
    /\ UNCHANGED wq_owner

(* vmm_manager_vcpu_set_state(v, RESET): the reset is done by the host CPU *)
(* the VCPU is assigned to, directly or in the handler of a sync IPI.      *)
ResetGuest(c, v) ==
    /\ "reset" \in Ops /\ Caller(c)
    /\ IF hcpu[v] = c
       THEN ChangeToReset(c, v) /\ UNCHANGED ipi_reset
       ELSE /\ sched_lock[v] = NoCpu
            /\ ipi_reset' = [ipi_reset EXCEPT ![hcpu[v]] = @ \cup {v}]
            /\ UNCHANGED <<vcpuVars, wqVars, cpuVars, rq_resched_state, ipi_migrate>>

(* manager_vcpu_ipi_reset *)
IpiReset(c, v) ==
    /\ InIrq(c) /\ v \in ipi_reset[c]
    /\ ChangeToReset(c, v)
    /\ ipi_reset' = [ipi_reset EXCEPT ![c] = @ \ {v}]

(* mutant: a RUNNING VCPU is assigned to the new host CPU at once *)
LeaveReady(v) == state[v] = "READY"
LeaveToHcpu(v) == state[v] \in {"READY", "RUNNING"}

(* vmm_scheduler_set_hcpu: a VCPU that is READY or RUNNING is left to its  *)
(* host CPU, any other is assigned to the new one at once.                 *)
SetHcpu(c, v, new) ==
    /\ "migrate" \in Ops /\ InOrphan(c) /\ sched_lock[v] = NoCpu
    /\ hcpu[v] # new /\ new \in cpu_affinity[v]
    /\ IF LeaveToHcpu(v)
       THEN /\ ipi_migrate' = [ipi_migrate EXCEPT ![hcpu[v]] = @ \cup {<<v, new>>}]
            /\ UNCHANGED hcpu
       ELSE hcpu' = [hcpu EXCEPT ![v] = new] /\ UNCHANGED ipi_migrate
    /\ UNCHANGED <<state, resumed, sched_lock, saved, wqVars, cpuVars, rq_resched_state, ipi_reset>>

(* mutant: a VCPU that runs is migrated *)
MovableAny(c, v, new) == hcpu[v] = c /\ c # new
Movable(c, v, new) == state[v] = "READY" /\ hcpu[v] = c /\ c # new
Moved(v, new) == [DetachAll(v) EXCEPT ![new] = rq_enqueue(@, v, priority[v])]

(* scheduler_ipi_migrate_vcpu, run by a thread of the old host CPU. *)
MigrateVcpu(c, v, new) ==
    /\ InOrphan(c) /\ <<v, new>> \in ipi_migrate[c] /\ sched_lock[v] = NoCpu
    /\ ipi_migrate' = [ipi_migrate EXCEPT ![c] = @ \ {<<v, new>>}]
    /\ IF Movable(c, v, new)
       THEN /\ rq' = Moved(v, new)
            /\ hcpu' = [hcpu EXCEPT ![v] = new]
            /\ rq_resched_state' = [rq_resched_state EXCEPT ![new] = "TRIGGERED"]
       ELSE UNCHANGED <<rq, hcpu, rq_resched_state>>
    /\ UNCHANGED <<state, resumed, sched_lock, saved, wqVars, current_vcpu, sw, mode,
                   yield_on_irq_exit, ipi_reset>>

Move(c) == \E v \in VCPU, new \in CPU : SetHcpu(c, v, new) \/ MigrateVcpu(c, v, new)
=============================================================================
