---------------------------- MODULE SchedulerInv ----------------------------
(***************************************************************************)
(* The inductive invariant behind the safety properties of Scheduler.  It  *)
(* holds when VCPUs are kicked and resumed only once off their CPU         *)
(* (Quiesced) and no thread is migrated while it sleeps (SleepersStay).    *)
(***************************************************************************)
EXTENDS SchedulerState

(* The locals of a switch, and the sched_lock that a switch holds. *)
SwitchInv ==
    \A c \in CPU :
      /\ sw[c].step \in {"start", "dequeue", "lock"} => sw[c].cur = current_vcpu[c]
      /\ sw[c].step = "lock" <=> sw[c].next # NoVcpu
      /\ \A v \in VCPU : sched_lock[v] = c <=> sw[c].step \in {"dequeue", "lock"} /\ sw[c].cur = v

(* While it is switched away from, a current VCPU is not RUNNING, has no   *)
(* lock but that of its waitqueue, and its registers are or will be saved. *)
LeavingInv ==
    \A c \in CPU : sw[c].step \in {"dequeue", "lock"} /\ sw[c].cur # NoVcpu =>
      LET u == sw[c].cur IN
      /\ state[u] # "RUNNING"
      /\ sw[c].save \/ saved[u]
      /\ preempt_count[u] = IF wq_lock[u] THEN 1 ELSE 0

(* A VCPU that a switch has dequeued belongs to that switch alone. *)
NextInv ==
    \A c \in CPU : sw[c].next # NoVcpu =>
      LET n == sw[c].next IN
      /\ \A d \in CPU : /\ n \notin Queued(rq[d])
                        /\ current_vcpu[d] # n
                        /\ sw[d].next = n => d = c
      /\ state[n] = "READY" => hcpu[n] = c
      /\ n \in Orphan => state[n] = "READY"
      /\ n \in Orphan \/ Booted

(* A current VCPU is READY only in the middle of its own switch, and a     *)
(* current thread is on its host CPU.                                      *)
CurrentInv ==
    \A c \in CPU : \A v \in VCPU : current_vcpu[c] = v =>
      /\ state[v] = "READY" => sched_lock[v] = c /\ hcpu[v] = c
      /\ state[v] = "RESET" => saved[v] /\ v \in Normal
      /\ v \in Thread => hcpu[v] = c

(* Off the CPUs a VCPU has its registers in vcpu->regs and no lock. *)
OffInv ==
    \A v \in VCPU : (\A c \in CPU : current_vcpu[c] # v) =>
      saved[v] /\ (wq_owner # v => preempt_count[v] = 0)

(* The idle VCPUs never stop and never move, guests appear after boot and  *)
(* do not wait in the waitqueue, and a thread stops only to sleep.         *)
KindInv ==
    /\ \A c \in CPU : state[idle_vcpu[c]] \in {"READY", "RUNNING"}
    /\ ~Booted => \A v \in Normal : state[v] = "RESET"
    /\ \A v \in Normal : ~wq_cleanup[v]
    /\ \A v \in Orphan : state[v] # "HALTED"
    /\ \A v \in Orphan : state[v] = "PAUSED" => phase[v] = "asleep"
    /\ \A v \in Orphan : state[v] = "RESET" => phase[v] = "none"

(* VCPUs stay within their affinity. *)
AffinityInv ==
    /\ \A v \in VCPU : hcpu[v] \in cpu_affinity[v]
    /\ \A c \in CPU, v \in VCPU, d \in CPU :
         <<v, d>> \in ipi_migrate[c] => d \in cpu_affinity[v] /\ "migrate" \in Ops

(* The lock of the waitqueue.  It belongs to a thread from the time it     *)
(* links itself until the switch away from it is over, and again from      *)
(* Relock to SleepReturn.                                                  *)
SleepInv ==
    \A v \in VCPU :
      /\ wq_lock[v] <=> phase[v] # "none"
      /\ phase[v] # "none" => v \in Thread /\ sleep_cpu[v] = hcpu[v]
      /\ wq_cleanup[v] => /\ state[v] = "PAUSED"
                          /\ wq_owner = v \/ \A c \in CPU : current_vcpu[c] # v
      /\ phase[v] = "woken" => wq_owner = v /\ preempt_count[v] = 1 /\ state[v] = "RUNNING"
      /\ phase[v] = "asleep" /\ wq_owner # v => preempt_count[v] = 0
      /\ phase[v] = "asleep" /\ state[v] = "PAUSED" /\ wq_owner # v =>
           \A c \in CPU : current_vcpu[c] # v

(* The thread that holds the lock of the waitqueue. *)
OwnerInv ==
    \A v \in VCPU : wq_owner = v =>
      \/ phase[v] = "woken" /\ \A c \in CPU : current_vcpu[c] = v => sw[c].step = "none" /\ mode[c] = "vcpu"
      \/ /\ phase[v] = "asleep" /\ state[v] = "PAUSED" /\ preempt_count[v] = 1
         /\ \E c \in CPU : sw[c].cur = v /\ sw[c].step # "none"

(* The VCPU a switch has left is a sleeper only if it holds that lock, and *)
(* no host CPU runs it before the lock is released.  A thread has been     *)
(* kicked, and stays on its host CPU, until then.                          *)
ReleaseInv ==
    \A c \in CPU : sw[c].step = "release" /\ sw[c].cur # NoVcpu =>
      LET u == sw[c].cur IN
      /\ wq_lock[u] => /\ wq_owner = u /\ phase[u] = "asleep"
                       /\ \A d \in CPU : current_vcpu[d] # u
      /\ u \in Thread => hcpu[u] = c /\ state[u] # "RESET"

IndInv ==
    /\ TypeOK /\ OneCpuPerVcpu /\ LinkedOnce /\ ReadyNotLost /\ RunningIsCurrent
    /\ SwitchInv /\ LeavingInv /\ NextInv /\ CurrentInv /\ OffInv /\ KindInv
    /\ AffinityInv /\ SleepInv /\ OwnerInv /\ ReleaseInv
=============================================================================
