----------------------------- MODULE Scheduler ------------------------------
(***************************************************************************)
(* The scheduler: every host CPU takes the steps of SchedulerSwitch and of *)
(* SchedulerChange, interleaved with those of the others.                  *)
(***************************************************************************)
EXTENDS SchedulerSwitch, SchedulerChange

(* scheduler_startup on every host CPU: the idle VCPU has been kicked and  *)
(* the first timer event will load it; every other VCPU is in RESET.       *)
Init ==
    /\ state = [v \in VCPU |-> IF v \in Idle THEN "READY" ELSE "RESET"]
    /\ hcpu \in {h \in [VCPU -> CPU] : \A v \in VCPU : h[v] \in cpu_affinity[v]}
    /\ resumed = [v \in VCPU |-> FALSE]
    /\ sched_lock = [v \in VCPU |-> NoCpu]
    /\ saved = [v \in VCPU |-> TRUE]
    /\ preempt_count = [v \in VCPU |-> 0]
    /\ wq_lock = [v \in VCPU |-> FALSE]
    /\ wq_cleanup = [v \in VCPU |-> FALSE]
    /\ phase = [v \in VCPU |-> "none"]
    /\ sleep_cpu = [v \in VCPU |-> NoCpu]
    /\ wq_owner = NoVcpu
    /\ rq = [c \in CPU |-> rq_enqueue(rq_create, idle_vcpu[c], priority[idle_vcpu[c]])]
    /\ current_vcpu = [c \in CPU |-> NoVcpu]
    /\ sw = [c \in CPU |-> NoSwitch]
    /\ mode = [c \in CPU |-> "vcpu"]
    /\ yield_on_irq_exit = [c \in CPU |-> FALSE]
    /\ rq_resched_state = [c \in CPU |-> "IDLE"]
    /\ ipi_reset = [c \in CPU |-> {}]
    /\ ipi_migrate = [c \in CPU |-> {}]

Step(c) ==
    \/ Switch(c) \/ Interrupt(c)
    \/ Sleep(c) \/ Relock(c) \/ SleepReturn(c) \/ Yield(c) \/ SpinLock(c)
    \/ \E v \in Thread : Wake(c, v)
    \/ \E v \in VCPU : Kick(c, v)
    \/ \E v \in Normal :
         \/ "pause" \in Ops /\ StopGuest(c, v, "PAUSED")
         \/ "halt" \in Ops /\ StopGuest(c, v, "HALTED")
         \/ ResumeGuest(c, v) \/ ResetGuest(c, v) \/ IpiReset(c, v)

Next == \E c \in CPU : Step(c) \/ Move(c)

Spec == Init /\ [][Next]_vars

(* A context switch and a thread that returns from its sleep go on; an     *)
(* interrupt that is pending is taken (it stays pending while interrupts   *)
(* are disabled), the timer event of the time slice keeps coming since     *)
(* every switch restarts it, and handlers end.                             *)
Fairness ==
    \A c \in CPU :
      /\ WF_vars(Switch(c)) /\ WF_vars(Relock(c)) /\ WF_vars(SleepReturn(c))
      /\ SF_vars(IrqEnter(c)) /\ SF_vars(TimerEvent(c)) /\ SF_vars(IrqExit(c))

FairSpec == Spec /\ Fairness

(* Nobody gives a thread another host CPU while it sleeps or returns from  *)
(* its sleep: it would take back the lock of a waitqueue of the old one.   *)
SleepersStay == \A v \in Thread : phase[v] # "none" => hcpu'[v] = hcpu[v]
StayNext == \E c \in CPU : Step(c) \/ (Move(c) /\ SleepersStay)
StaySpec == Init /\ [][StayNext]_vars

(* That is so when every thread is bound to one host CPU. *)
ThreadsBound == \A v \in Thread : \A c, d \in cpu_affinity[v] : c = d

-----------------------------------------------------------------------------
Fsm == INSTANCE VcpuFsm WITH Started <- Idle
(* The scheduler implements the finite-state machine of VCPUs: no           *)
(* interleaving of switches, wakes, resets and migrations takes a VCPU     *)
(* along another edge, starts one that is not READY, or one that runs.     *)
FollowsFsm == Fsm!Spec

(* A READY thread is eventually dispatched, as long as no VCPU has a higher *)
(* priority: lists are served first in, first out and every time slice     *)
(* ends.  One that is woken returns from __vmm_waitqueue_sleep().          *)
ThreadsGoOn ==
    \A v \in Thread :
        /\ state[v] = "READY" ~> state[v] = "RUNNING"
        /\ phase[v] = "asleep" /\ state[v] = "READY" ~> phase[v] = "none"
=============================================================================
