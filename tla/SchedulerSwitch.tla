-------------------------- MODULE SchedulerSwitch ---------------------------
(***************************************************************************)
(* What a host CPU does by itself: the stages of its context switch, and   *)
(* entering and leaving interrupt and exception handlers.                  *)
(***************************************************************************)
EXTENDS SchedulerState

(***************************************************************************)
(* vmm_scheduler_switch() on host CPU c, with interrupts disabled.         *)
(***************************************************************************)

(* A handler that was exiting returns to the VCPU after its switch. *)
ModeAfter(c) == [mode EXCEPT ![c] = IF @ = "exit" THEN "vcpu" ELSE @]
NoWaitqueueLock(c) == wq_owner' = IF wq_owner = c THEN NoVcpu ELSE wq_owner

(* The switch is refused while the current VCPU has disabled preemption    *)
(* (the timer event is restarted); a VCPU going to sleep holds one lock.   *)
SwitchRefuse(c) ==
    LET u == current_vcpu[c] IN
    /\ sw[c].step = "start" /\ u # NoVcpu
    /\ preempt_count[u] # (IF wq_lock[u] THEN 1 ELSE 0)
    /\ sw' = [sw EXCEPT ![c] = NoSwitch]
    /\ mode' = ModeAfter(c)
    /\ NoWaitqueueLock(c)
    /\ UNCHANGED <<vcpuVars, preempt_count, wq_lock, wq_cleanup, phase, sleep_cpu,
                   rq, current_vcpu, yield_on_irq_exit, ipiVars>>

(* mutant: the VCPU whose time slice is over is not queued again *)
RequeueNothing(c, u) == rq[c]
Requeue(c, u) == rq_enqueue(rq[c], u, priority[u])

(* Lock the current VCPU; one that is RUNNING goes back to the tail of its *)
(* list, and the registers of one that is SAVEABLE will be saved.          *)
SwitchStart(c) ==
    LET u == current_vcpu[c]
        run == u # NoVcpu /\ state[u] = "RUNNING" IN
    /\ sw[c].step = "start"
    /\ u # NoVcpu => /\ preempt_count[u] = (IF wq_lock[u] THEN 1 ELSE 0)
                     /\ sched_lock[u] = NoCpu
    /\ sw' = [sw EXCEPT ![c] =
                SwitchAt("dequeue", u, NoVcpu, u # NoVcpu /\ state[u] \in Saveable)]
    /\ sched_lock' = IF u = NoVcpu THEN sched_lock ELSE [sched_lock EXCEPT ![u] = c]
    /\ state' = IF run THEN [state EXCEPT ![u] = "READY"] ELSE state
    /\ rq' = IF run THEN [rq EXCEPT ![c] = Requeue(c, u)] ELSE rq
    /\ UNCHANGED <<hcpu, resumed, saved, wqVars, current_vcpu, mode, yield_on_irq_exit, ipiVars>>

(* The tail of __vmm_scheduler_next2(): n becomes the current VCPU. *)
RunNext(c, n) ==
    LET u == sw[c].cur IN
    /\ state' = [state EXCEPT ![n] = "RUNNING"]
    /\ resumed' = [resumed EXCEPT ![n] = FALSE]
    /\ current_vcpu' = [current_vcpu EXCEPT ![c] = n]
    /\ sched_lock' = IF u = NoVcpu THEN sched_lock ELSE [sched_lock EXCEPT ![u] = NoCpu]
    /\ sw' = [sw EXCEPT ![c] = SwitchAt("release", u, NoVcpu, FALSE)]
    /\ UNCHANGED <<hcpu, wqVars, mode, yield_on_irq_exit, ipiVars>>

(* Take the next VCPU off the ready queue.  If it is the current one there *)
(* is nothing to switch; any other must be locked first.                   *)
SwitchDequeue(c) ==
    LET n == rq_first(rq[c]) IN
    /\ sw[c].step = "dequeue"
    /\ Queued(rq[c]) # {}
    /\ rq' = [rq EXCEPT ![c] = rq_dequeue(@)]
    /\ IF n = sw[c].cur
       THEN RunNext(c, n) /\ UNCHANGED saved
       ELSE /\ sw' = [sw EXCEPT ![c] = SwitchAt("lock", sw[c].cur, n, sw[c].save)]
            /\ UNCHANGED <<vcpuVars, wqVars, current_vcpu, mode, yield_on_irq_exit, ipiVars>>

(* mutant: the state is not looked at again *)
AnyState(n) == TRUE
StillReady(n) == state[n] = "READY"

(* Lock the next VCPU.  If it is READY arch_vcpu_switch() saves the        *)
(* registers of the current VCPU and loads those of the next, otherwise    *)
(* another one is dequeued.  The first switch of a host CPU, by            *)
(* __vmm_scheduler_next1(), does not look at the state.                    *)
SwitchLock(c) ==
    LET u == sw[c].cur
        n == sw[c].next IN
    /\ sw[c].step = "lock"
    /\ sched_lock[n] = NoCpu
    /\ IF StillReady(n) \/ u = NoVcpu
       THEN /\ RunNext(c, n)
            /\ saved' = [v \in VCPU |-> IF v = n THEN FALSE
                                         ELSE saved[v] \/ (v = u /\ sw[c].save)]
            /\ UNCHANGED rq
       ELSE /\ sw' = [sw EXCEPT ![c] = SwitchAt("dequeue", u, NoVcpu, sw[c].save)]
            /\ UNCHANGED <<vcpuVars, wqVars, rq, current_vcpu, mode, yield_on_irq_exit, ipiVars>>

(* Release the lock of the waitqueue on behalf of a VCPU that went to      *)
(* sleep, and return to the interrupted handler or to the VCPU.  A handler *)
(* that switched while waking a VCPU then releases the lock it holds.      *)
SwitchRelease(c) ==
    LET u == sw[c].cur
        sleeper == u # NoVcpu /\ wq_lock[u] IN
    /\ sw[c].step = "release"
    /\ IF sleeper THEN wq_owner' = NoVcpu ELSE NoWaitqueueLock(c)
    /\ preempt_count' = IF sleeper THEN [preempt_count EXCEPT ![u] = PreemptEnable(u)]
                        ELSE preempt_count
    /\ sw' = [sw EXCEPT ![c] = NoSwitch]
    /\ mode' = ModeAfter(c)
    /\ UNCHANGED <<vcpuVars, wq_lock, wq_cleanup, phase, sleep_cpu,
                   rq, current_vcpu, yield_on_irq_exit, ipiVars>>

-----------------------------------------------------------------------------
(***************************************************************************)
(* Interrupts and exceptions.                                              *)
(***************************************************************************)

(* vmm_scheduler_irq_enter: an interrupt arrives, or a Normal VCPU traps.  *)
(* Interrupts are disabled inside handlers and while a thread returns from *)
(* its sleep.                                                              *)
IrqEnter(c) ==
    /\ sw[c].step = "none" /\ mode[c] = "vcpu"
    /\ current_vcpu[c] \in VCPU => phase[current_vcpu[c]] = "none"
    /\ \/ mode' = [mode EXCEPT ![c] = "irq"]
       \/ current_vcpu[c] \in Normal /\ mode' = [mode EXCEPT ![c] = "trap"]
    /\ yield_on_irq_exit' = [yield_on_irq_exit EXCEPT ![c] = FALSE]
    /\ UNCHANGED <<vcpuVars, wqVars, rq, current_vcpu, sw, ipiVars>>

(* scheduler_timer_event: the time slice of the current VCPU is over. *)
TimerEvent(c) ==
    /\ InIrq(c)
    /\ sw' = [sw EXCEPT ![c] = Switching(c)]
    /\ UNCHANGED <<vcpuVars, wqVars, rq, current_vcpu, mode, yield_on_irq_exit, ipiVars>>

(* scheduler_ipi_resched *)
IpiResched(c) ==
    /\ InIrq(c) /\ rq_resched_state[c] = "TRIGGERED"
    /\ rq_resched_state' = [rq_resched_state EXCEPT ![c] = "IDLE"]
    /\ LET u == current_vcpu[c] IN
       sw' = IF u # NoVcpu /\ rq_prempt_needed(rq[c], priority[u])
             THEN [sw EXCEPT ![c] = Switching(c)] ELSE sw
    /\ UNCHANGED <<vcpuVars, wqVars, rq, current_vcpu, mode, yield_on_irq_exit,
                   ipi_reset, ipi_migrate>>

(* vmm_scheduler_irq_exit *)
IrqExit(c) ==
    LET u == current_vcpu[c]
        switch == u # NoVcpu /\ (state[u] # "RUNNING" \/ yield_on_irq_exit[c]) IN
    /\ sw[c].step = "none" /\ mode[c] \in {"irq", "trap"}
    /\ mode' = [mode EXCEPT ![c] = IF switch THEN "exit" ELSE "vcpu"]
    /\ sw' = IF switch THEN [sw EXCEPT ![c] = Switching(c)] ELSE sw
    /\ yield_on_irq_exit' = [yield_on_irq_exit EXCEPT ![c] = FALSE]
    /\ UNCHANGED <<vcpuVars, wqVars, rq, current_vcpu, ipiVars>>

Switch(c) ==
    \/ SwitchRefuse(c) \/ SwitchStart(c) \/ SwitchDequeue(c)
    \/ SwitchLock(c) \/ SwitchRelease(c)

Interrupt(c) == IrqEnter(c) \/ TimerEvent(c) \/ IpiResched(c) \/ IrqExit(c)
=============================================================================
