--------------------------- MODULE SchedulerState ---------------------------
(***************************************************************************)
(* The hypervisor scheduler (core/vmm_scheduler.c) on an SMP host.         *)
(*                                                                         *)
(* Each host CPU has a ready queue, a current VCPU and its own context     *)
(* switch; each VCPU has a state protected by its sched_lock.  One action  *)
(* is what a host CPU does between two points where another host CPU can   *)
(* interfere: a whole critical section of a sched_lock, or one stage of    *)
(* __vmm_scheduler_next2(), which holds the lock of the current VCPU       *)
(* across several critical sections.                                       *)
(*                                                                         *)
(* A thread (Orphan VCPU) sleeps in a waitqueue by pausing itself with the *)
(* lock of the waitqueue held; the context switch releases that lock after *)
(* the thread has left the CPU and the thread takes it again when it runs  *)
(* (core/vmm_waitqueue.c).  One waitqueue stands for all of them.          *)
(*                                                                         *)
(* This module has the state, what the operations share and the safety     *)
(* properties.  SchedulerSwitch has the context switch and the interrupts, *)
(* SchedulerChange the state changes and the migrations, and Scheduler     *)
(* composes them.                                                          *)
(***************************************************************************)
EXTENDS ReadyQueue, FiniteSets

CONSTANTS
    CPU,            \* host CPUs
    Orphan,         \* Orphan VCPUs (threads and the idle VCPUs)
    Normal,         \* Normal VCPUs (those of guests)
    idle_vcpu,      \* the idle VCPU of each host CPU
    priority,       \* the priority of each VCPU
    cpu_affinity,   \* the host CPUs each VCPU may run on
    NoVcpu, NoCpu,  \* the NULL pointers
    Ops,            \* the manager operations issued by the environment
    Quiesced        \* TRUE: a VCPU is kicked or resumed only once off its CPU

VCPU == Orphan \cup Normal
Idle == {idle_vcpu[c] : c \in CPU}
Thread == Orphan \ Idle
AllOps == {"pause", "resume", "halt", "reset", "migrate", "spin"}

ASSUME SchedulerAssumption ==
    /\ idle_vcpu \in [CPU -> Orphan]
    /\ \A c, d \in CPU : idle_vcpu[c] = idle_vcpu[d] => c = d
    /\ Orphan \cap Normal = {}
    /\ priority \in [VCPU -> Priorities]
    /\ cpu_affinity \in [VCPU -> (SUBSET CPU) \ {{}}]
    /\ \A c \in CPU : cpu_affinity[idle_vcpu[c]] = {c}
    /\ NoVcpu \notin VCPU /\ NoCpu \notin CPU /\ CPU \cap (VCPU \cup {NoVcpu}) = {}
    /\ Ops \subseteq AllOps /\ Quiesced \in BOOLEAN

States == {"RESET", "READY", "RUNNING", "PAUSED", "HALTED"}
SaveableOnlyRunning == {"RUNNING"}               \* mutant: a stopped VCPU is not saved
Saveable == {"RUNNING", "PAUSED", "HALTED"}      \* VMM_VCPU_STATE_SAVEABLE

VARIABLES
    state, hcpu, resumed,   \* struct vmm_vcpu, protected by sched_lock
    sched_lock,             \* the host CPU that holds it across actions
    saved,                  \* vcpu->regs holds the latest registers
    preempt_count,          \* nesting of preemption disabling
    wq_lock,                \* vcpu->wq_lock is not NULL
    wq_cleanup,             \* the VCPU is linked in the waitqueue
    phase,                  \* where the VCPU is in __vmm_waitqueue_sleep()
    sleep_cpu,              \* schedp of the state change that put it to sleep
    wq_owner,               \* holder of the lock of the waitqueue
    rq, current_vcpu,       \* struct vmm_scheduler_ctrl
    sw,                     \* stage and locals of vmm_scheduler_switch()
    mode,                   \* context the host CPU executes in
    yield_on_irq_exit,
    rq_resched_state,       \* a resched IPI is on its way
    ipi_reset,              \* VCPUs whose reset IPI is on its way
    ipi_migrate             \* migrations on their way

vcpuVars == <<state, hcpu, resumed, sched_lock, saved>>
wqVars == <<preempt_count, wq_lock, wq_cleanup, phase, sleep_cpu, wq_owner>>
cpuVars == <<rq, current_vcpu, sw, mode, yield_on_irq_exit>>
ipiVars == <<rq_resched_state, ipi_reset, ipi_migrate>>
vars == <<vcpuVars, wqVars, cpuVars, ipiVars>>

SwitchAt(step, cur, next, save) == [step |-> step, cur |-> cur, next |-> next, save |-> save]
NoSwitch == SwitchAt("none", NoVcpu, NoVcpu, FALSE)
Switching(c) == SwitchAt("start", current_vcpu[c], NoVcpu, FALSE)

-----------------------------------------------------------------------------
(***************************************************************************)
(* Contexts.  Orphan context: the current thread executes hypervisor code  *)
(* with interrupts enabled.  Handler: interrupt or exception handler code  *)
(* between vmm_scheduler_irq_enter() and vmm_scheduler_irq_exit().         *)
(***************************************************************************)
InOrphan(c) ==
    /\ sw[c].step = "none" /\ mode[c] = "vcpu"
    /\ current_vcpu[c] \in Orphan /\ phase[current_vcpu[c]] = "none"
InIrq(c) == sw[c].step = "none" /\ mode[c] = "irq"
(* Guests exist only after every host CPU has loaded its first VCPU. *)
Booted == \A c \in CPU : current_vcpu[c] # NoVcpu
(* No host CPU executes the VCPU or is about to. *)
OffCpu(v) == \A c \in CPU : current_vcpu[c] # v /\ sw[c].next # v
Caller(c) == InIrq(c) \/ (InOrphan(c) /\ current_vcpu[c] \in Thread)

(* The guarded decrement of preempt_count, when the lock of the waitqueue  *)
(* is released by the switch and when the thread itself releases it.       *)
PreemptEnable(u) == IF preempt_count[u] > 0 THEN preempt_count[u] - 1 ELSE 0

-----------------------------------------------------------------------------
(***************************************************************************)
(* Properties.                                                             *)
(***************************************************************************)

Switches == [step : {"none", "start", "dequeue", "lock", "release"},
             cur : VCPU \cup {NoVcpu}, next : VCPU \cup {NoVcpu}, save : BOOLEAN]

(* Every variable holds a value of its C type: in particular hcpu is       *)
(* always a host CPU, whatever the migrations.                             *)
TypeOK ==
    /\ state \in [VCPU -> States] /\ hcpu \in [VCPU -> CPU]
    /\ resumed \in [VCPU -> BOOLEAN] /\ saved \in [VCPU -> BOOLEAN]
    /\ sched_lock \in [VCPU -> CPU \cup {NoCpu}]
    /\ preempt_count \in [VCPU -> Nat]
    /\ wq_lock \in [VCPU -> BOOLEAN] /\ wq_cleanup \in [VCPU -> BOOLEAN]
    /\ phase \in [VCPU -> {"none", "asleep", "woken"}]
    /\ sleep_cpu \in [VCPU -> CPU \cup {NoCpu}]
    /\ wq_owner \in VCPU \cup CPU \cup {NoVcpu}
    /\ rq \in [CPU -> [Priorities -> Seq(VCPU)]]
    /\ current_vcpu \in [CPU -> VCPU \cup {NoVcpu}]
    /\ sw \in [CPU -> Switches]
    /\ mode \in [CPU -> {"vcpu", "irq", "trap", "exit"}]
    /\ yield_on_irq_exit \in [CPU -> BOOLEAN]
    /\ rq_resched_state \in [CPU -> {"IDLE", "TRIGGERED"}]
    /\ ipi_reset \in [CPU -> SUBSET VCPU]
    /\ ipi_migrate \in [CPU -> SUBSET (VCPU \X CPU)]

(* A VCPU is the current VCPU of at most one host CPU, whatever the        *)
(* migrations, wakes and switches under way (schedp->current_vcpu).        *)
OneCpuPerVcpu ==
    \A c, d \in CPU : current_vcpu[c] = current_vcpu[d] /\ c # d => current_vcpu[c] = NoVcpu

(* An entry is linked at most once, only while its VCPU is READY, and only *)
(* in the queue of its host CPU and the list of its priority: no           *)
(* list_add_tail() ever corrupts a list, and rq_detach() with the lock of  *)
(* that host CPU's queue is enough.                                        *)
LinkedOnce ==
    \A c \in CPU, p \in Priorities :
        /\ Once(rq[c][p])
        /\ \A v \in Linked(rq[c][p]) : state[v] = "READY" /\ hcpu[v] = c /\ priority[v] = p

(* A READY VCPU can be found by a scheduler: it is linked in the queue of  *)
(* its host CPU or that CPU has just dequeued it to run it.                *)
ReadyNotLost ==
    \A v \in VCPU : state[v] = "READY" =>
        v \in Queued(rq[hcpu[v]]) \/ sw[hcpu[v]].next = v

(* "RUNNING: VCPU is currently running on hardware": the RUNNING VCPU is   *)
(* the current one of the host CPU it is assigned to.                      *)
RunningIsCurrent ==
    \A v \in VCPU : state[v] = "RUNNING" => current_vcpu[hcpu[v]] = v

(* rq_dequeue() never fails inside a context switch ("This should never    *)
(* happen !!!"): there is always a VCPU to run, the idle one at least.     *)
DequeueNeverFails ==
    \A c \in CPU : sw[c].step = "dequeue" => Queued(rq[c]) # {}

(* Whenever a READY VCPU is off the CPUs its registers are in vcpu->regs,  *)
(* so the next arch_vcpu_switch() resumes it where it stopped.             *)
ContextIntact ==
    \A v \in VCPU : state[v] = "READY" /\ OffCpu(v) => saved[v]

(* A host CPU that waits for the sched_lock of its next VCPU, with the lock *)
(* of its current one held, never waits for a VCPU that another host CPU   *)
(* is switching away from: context switches cannot deadlock.               *)
NoSwitchDeadlock ==
    \A c, d \in CPU :
        sw[c].step = "lock" /\ sw[d].step \in {"dequeue", "lock"} => sw[c].next # sw[d].cur

(* The lock of the waitqueue is handed over exactly once: a VCPU that has  *)
(* left its CPU holds neither the lock nor a preemption count, and when    *)
(* __vmm_waitqueue_sleep() returns, the thread holds the lock again, as    *)
(* its callers rely on.                                                    *)
LockHandedOver ==
    /\ \A v \in VCPU : (\A c \in CPU : current_vcpu[c] # v /\ sw[c].cur # v) =>
         preempt_count[v] = 0 /\ wq_owner # v
    /\ \A v \in Thread : phase[v] = "woken" => wq_owner = v /\ preempt_count[v] = 1
=============================================================================
