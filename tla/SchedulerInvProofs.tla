------------------------- MODULE SchedulerInvProofs -------------------------
(***************************************************************************)
(* Type correctness of the scheduler, and its invariant, kept by the       *)
(* migrations too.  The safety properties and the refinement of the        *)
(* finite-state machine of VCPUs follow.                                   *)
(***************************************************************************)
EXTENDS Scheduler, SchedulerProofs, WellFoundedInduction

USE DEF Queues

(* Init establishes the types. *)
LEMMA InitType == Init => TypeOK
<1> SUFFICES ASSUME Init PROVE TypeOK
  BY Zenon
<1>1. rq_create \in Queues(VCPU) BY DEF rq_create
<1>2. \A c \in CPU : idle_vcpu[c] \in VCPU /\ priority[idle_vcpu[c]] \in Priorities
  BY SchedulerAssumption, Zenon DEF VCPU
<1>3. \A c \in CPU : rq_enqueue(rq_create, idle_vcpu[c], priority[idle_vcpu[c]]) \in Queues(VCPU)
  BY <1>1, <1>2, EnqueueType, Zenon
<1>4. rq \in [CPU -> [Priorities -> Seq(VCPU)]] BY <1>3, Zenon DEF Init
<1>5. NoSwitch \in Switches BY Zenon DEF NoSwitch, SwitchAt, Switches
<1> QED BY <1>4, <1>5, Zenon DEF Init, TypeOK, States

(* The end of a state change keeps the types. *)
LEMMA PreemptType ==
  ASSUME TypeOK, NEW c \in CPU, NEW h \in CPU, NEW needed, NEW locked,
         Preempt(c, h, needed, locked)
  PROVE  /\ sw' \in [CPU -> Switches] /\ yield_on_irq_exit' \in [CPU -> BOOLEAN]
         /\ rq_resched_state' \in [CPU -> {"IDLE", "TRIGGERED"}]
<1>1. Switching(c) \in Switches BY Zenon DEF Switching, SwitchAt, Switches, TypeOK
<1> QED BY <1>1, Zenon DEF Preempt, TypeOK

(* So does each state change. *)
LEMMA ChangeType ==
  ASSUME TypeOK, NEW c \in CPU, NEW v \in VCPU
  PROVE  /\ \A locked : ChangeToReady(c, v, locked) /\ wq_owner' \in VCPU \cup CPU \cup {NoVcpu} => TypeOK'
         /\ \A new \in {"PAUSED", "HALTED"} :
              ChangeToStopped(c, v, new) /\ UNCHANGED <<preempt_count, wq_lock, phase, sleep_cpu, wq_owner, ipi_reset>>
                => TypeOK'
         /\ ChangeToReset(c, v) /\ ipi_reset' \in [CPU -> SUBSET VCPU] => TypeOK'
<1>1. hcpu[v] \in CPU /\ priority[v] \in Priorities /\ \A h \in CPU : rq[h] \in Queues(VCPU)
  BY SchedulerAssumption, Zenon DEF TypeOK
<1>2. DetachAll(v) \in [CPU -> [Priorities -> Seq(VCPU)]]
  BY <1>1, QueueTypes, ZenonT(60) DEF DetachAll
<1>3. rq_enqueue(rq[hcpu[v]], v, priority[v]) \in [Priorities -> Seq(VCPU)]
  BY <1>1, EnqueueType, ZenonT(60)
<1>4. ASSUME NEW locked, ChangeToReady(c, v, locked), wq_owner' \in VCPU \cup CPU \cup {NoVcpu}
      PROVE  TypeOK'
  <2>1. /\ sw' \in [CPU -> Switches] /\ yield_on_irq_exit' \in [CPU -> BOOLEAN]
        /\ rq_resched_state' \in [CPU -> {"IDLE", "TRIGGERED"}]
    BY <1>1, <1>4, PreemptType, ZenonT(60) DEF ChangeToReady
  <2>2. rq' \in [CPU -> [Priorities -> Seq(VCPU)]] BY <1>1, <1>3, <1>4, ZenonT(60) DEF ChangeToReady, TypeOK
  <2>3. state' \in [VCPU -> States]
    <3>1. state \in [VCPU -> States] /\ "READY" \in States BY Zenon DEF TypeOK, States
    <3>2. state' = state \/ state' = [state EXCEPT ![v] = "READY"] BY <1>4, ZenonT(60) DEF ChangeToReady
    <3> QED BY <3>1, <3>2, Zenon
  <2>4. resumed' \in [VCPU -> BOOLEAN] /\ wq_cleanup' \in [VCPU -> BOOLEAN]
    BY <1>4, ZenonT(60) DEF ChangeToReady, TypeOK
  <2>5. UNCHANGED <<hcpu, sched_lock, saved, current_vcpu, mode, ipi_reset, ipi_migrate,
                    preempt_count, wq_lock, phase, sleep_cpu>>
    BY <1>4, Zenon DEF ChangeToReady
  <2> QED BY <1>4, <2>1, <2>2, <2>3, <2>4, <2>5, Zenon DEF TypeOK
<1>5. ASSUME NEW new \in {"PAUSED", "HALTED"}, ChangeToStopped(c, v, new),
             UNCHANGED <<preempt_count, wq_lock, phase, sleep_cpu, wq_owner, ipi_reset>>
      PROVE  TypeOK'
  <2>1. /\ sw' \in [CPU -> Switches] /\ yield_on_irq_exit' \in [CPU -> BOOLEAN]
        /\ rq_resched_state' \in [CPU -> {"IDLE", "TRIGGERED"}]
    BY <1>1, <1>5, PreemptType, ZenonT(60) DEF ChangeToStopped, TypeOK
  <2>2. rq' \in [CPU -> [Priorities -> Seq(VCPU)]] BY <1>2, <1>5, ZenonT(60) DEF ChangeToStopped, TypeOK
  <2>3. state' \in [VCPU -> States]
    <3>1. state \in [VCPU -> States] /\ new \in States BY Zenon DEF TypeOK, States
    <3>2. state' = state \/ state' = [state EXCEPT ![v] = new] BY <1>5, ZenonT(60) DEF ChangeToStopped
    <3> QED BY <3>1, <3>2, Zenon
  <2>4. resumed' \in [VCPU -> BOOLEAN] /\ wq_cleanup' \in [VCPU -> BOOLEAN]
    BY <1>5, ZenonT(60) DEF ChangeToStopped, TypeOK
  <2>5. UNCHANGED <<hcpu, sched_lock, saved, current_vcpu, mode, ipi_migrate>>
    BY <1>5, Zenon DEF ChangeToStopped
  <2> QED BY <1>5, <2>1, <2>2, <2>3, <2>4, <2>5, ZenonT(30) DEF TypeOK
<1>6. ASSUME ChangeToReset(c, v), ipi_reset' \in [CPU -> SUBSET VCPU]
      PROVE  TypeOK'
  <2>1. /\ sw' \in [CPU -> Switches] /\ yield_on_irq_exit' \in [CPU -> BOOLEAN]
        /\ rq_resched_state' \in [CPU -> {"IDLE", "TRIGGERED"}]
    BY <1>1, <1>6, PreemptType, ZenonT(60) DEF ChangeToReset, TypeOK
  <2>2. rq' \in [CPU -> [Priorities -> Seq(VCPU)]] BY <1>2, <1>6, ZenonT(60) DEF ChangeToReset, TypeOK
  <2>3. state' \in [VCPU -> States] BY <1>6, ZenonT(60) DEF ChangeToReset, TypeOK, States
  <2>4. resumed' \in [VCPU -> BOOLEAN] /\ saved' \in [VCPU -> BOOLEAN]
    BY <1>6, ZenonT(60) DEF ChangeToReset, TypeOK
  <2>5. UNCHANGED <<hcpu, sched_lock, current_vcpu, mode, ipi_migrate, wqVars>>
    BY <1>6, Zenon DEF ChangeToReset
  <2> QED BY <1>6, <2>1, <2>2, <2>3, <2>4, <2>5, ZenonT(30) DEF TypeOK, wqVars
<1> QED BY <1>4, <1>5, <1>6, Zenon

(* Every step keeps the types. *)
LEMMA NextType == ScanFinds /\ TypeOK /\ [Next]_vars => TypeOK'
<1> SUFFICES ASSUME ScanFinds, TypeOK, [Next]_vars PROVE TypeOK'
  BY Zenon
<1>q. \A c \in CPU : rq[c] \in Queues(VCPU) BY Zenon DEF TypeOK
<1>p. \A v \in VCPU : priority[v] \in Priorities BY SchedulerAssumption, Zenon
<1>n. NoSwitch \in Switches BY Zenon DEF NoSwitch, SwitchAt, Switches
<1>w. \A c \in CPU : Switching(c) \in Switches BY Zenon DEF Switching, SwitchAt, Switches, TypeOK
<1>a. \A step \in {"dequeue", "lock", "release"}, u, n \in VCPU \cup {NoVcpu}, b \in BOOLEAN :
        SwitchAt(step, u, n, b) \in Switches
  BY Zenon DEF SwitchAt, Switches
<1>s. \A c \in CPU : /\ sw[c] \in Switches /\ sw[c].cur \in VCPU \cup {NoVcpu}
                     /\ sw[c].next \in VCPU \cup {NoVcpu} /\ sw[c].save \in BOOLEAN
  BY Zenon DEF TypeOK, Switches
<1>m. \A c \in CPU : ModeAfter(c) \in [CPU -> {"vcpu", "irq", "trap", "exit"}]
  BY Zenon DEF ModeAfter, TypeOK
<1>1. CASE UNCHANGED vars
  BY <1>1, Zenon DEF TypeOK, vars, vcpuVars, wqVars, cpuVars, ipiVars
<1>2. ASSUME NEW c \in CPU, SwitchRefuse(c) PROVE TypeOK'
  BY <1>2, <1>n, <1>m, Zenon DEF SwitchRefuse, TypeOK, NoWaitqueueLock, vcpuVars, ipiVars
<1>3. ASSUME NEW c \in CPU, SwitchStart(c) PROVE TypeOK'
  <2> DEFINE u == current_vcpu[c]
  <2>1. u \in VCPU \cup {NoVcpu} BY Zenon DEF TypeOK
  <2>2. state' \in [VCPU -> States]
    <3>1. state \in [VCPU -> States] /\ "READY" \in States BY Zenon DEF TypeOK, States
    <3>2. state' = state \/ state' = [state EXCEPT ![u] = "READY"] BY <1>3, Zenon DEF SwitchStart
    <3> QED BY <3>1, <3>2, Zenon
  <2>3. rq' \in [CPU -> [Priorities -> Seq(VCPU)]]
    <3>1. CASE u \in VCPU
      <4>1. rq_enqueue(rq[c], u, priority[u]) \in [Priorities -> Seq(VCPU)]
        BY <1>q, <1>p, <3>1, EnqueueType, Zenon
      <4> QED BY <4>1, <1>3, Zenon DEF SwitchStart, Requeue, TypeOK
    <3>2. CASE u = NoVcpu BY <3>2, <1>3, Zenon DEF SwitchStart, TypeOK
    <3> QED BY <2>1, <3>1, <3>2, Zenon
  <2>4. sw' \in [CPU -> Switches]
    <3>1. (u # NoVcpu /\ state[u] \in Saveable) \in BOOLEAN BY Zenon
    <3>2. SwitchAt("dequeue", u, NoVcpu, u # NoVcpu /\ state[u] \in Saveable) \in Switches
      BY <1>a, <2>1, <3>1, ZenonT(60)
    <3> QED BY <1>3, <3>2, Zenon DEF SwitchStart, TypeOK
  <2>5. sched_lock' \in [VCPU -> CPU \cup {NoCpu}] BY <1>3, Zenon DEF SwitchStart, TypeOK
  <2>6. UNCHANGED <<hcpu, resumed, saved, wqVars, current_vcpu, mode, yield_on_irq_exit, ipiVars>>
    BY <1>3, Zenon DEF SwitchStart
  <2> QED BY <2>2, <2>3, <2>4, <2>5, <2>6, ZenonT(30) DEF TypeOK, wqVars, ipiVars
<1>4. ASSUME NEW c \in CPU, NEW n \in VCPU \cup {NoVcpu}, RunNext(c, n),
             rq' \in [CPU -> [Priorities -> Seq(VCPU)]], saved' \in [VCPU -> BOOLEAN]
      PROVE  TypeOK'
  <2>1. state' \in [VCPU -> States]
    <3>1. state \in [VCPU -> States] /\ "RUNNING" \in States BY Zenon DEF TypeOK, States
    <3> QED BY <1>4, <3>1, ZenonT(60) DEF RunNext
  <2>2. sw' \in [CPU -> Switches] BY <1>4, <1>a, <1>s, ZenonT(60) DEF RunNext, TypeOK
  <2>3. /\ sched_lock' \in [VCPU -> CPU \cup {NoCpu}] /\ resumed' \in [VCPU -> BOOLEAN]
        /\ current_vcpu' \in [CPU -> VCPU \cup {NoVcpu}]
    BY <1>4, ZenonT(60) DEF RunNext, TypeOK
  <2>4. UNCHANGED <<hcpu, wqVars, mode, yield_on_irq_exit, ipiVars>> BY <1>4, Zenon DEF RunNext
  <2> QED BY <1>4, <2>1, <2>2, <2>3, <2>4, Zenon DEF TypeOK, wqVars, ipiVars
<1>5. ASSUME NEW c \in CPU, SwitchDequeue(c) PROVE TypeOK'
  <2> DEFINE n == rq_first(rq[c])
  <2>1. n \in VCPU /\ rq_dequeue(rq[c]) \in [Priorities -> Seq(VCPU)]
    <3>1. Queued(rq[c]) # {} BY <1>5, Zenon DEF SwitchDequeue
    <3>2. PICK v \in VCPU : TRUE BY SchedulerAssumption, Zenon DEF VCPU
    <3> QED BY <1>q, <3>1, <3>2, QueueTypes, Zenon
  <2> HIDE DEF n
  <2>2. rq' \in [CPU -> [Priorities -> Seq(VCPU)]] BY <1>5, <2>1, Zenon DEF SwitchDequeue, TypeOK
  <2>3. CASE n = sw[c].cur
    <3>1. RunNext(c, n) /\ UNCHANGED saved BY <1>5, <2>3, Zenon DEF SwitchDequeue, n
    <3> QED BY <1>4, <2>1, <2>2, <3>1, ZenonT(60) DEF TypeOK
  <2>4. CASE n # sw[c].cur
    <3>1. /\ sw' = [sw EXCEPT ![c] = SwitchAt("lock", sw[c].cur, n, sw[c].save)]
          /\ UNCHANGED <<vcpuVars, wqVars, current_vcpu, mode, yield_on_irq_exit, ipiVars>>
      BY <1>5, <2>4, Zenon DEF SwitchDequeue, n
    <3>2. sw' \in [CPU -> Switches] BY <1>a, <1>s, <2>1, <3>1, ZenonT(60) DEF TypeOK
    <3> QED BY <2>2, <3>1, <3>2, Zenon DEF TypeOK, vcpuVars, wqVars, ipiVars
  <2> QED BY <2>3, <2>4, Zenon
<1>6. ASSUME NEW c \in CPU, SwitchLock(c) PROVE TypeOK'
  <2> DEFINE n == sw[c].next
  <2>1. n \in VCPU \cup {NoVcpu} BY <1>s, Zenon
  <2>2. CASE state[n] = "READY" \/ sw[c].cur = NoVcpu
    <3>1. RunNext(c, n) /\ UNCHANGED rq BY <1>6, <2>2, ZenonT(60) DEF SwitchLock, StillReady
    <3>2. saved' \in [VCPU -> BOOLEAN]
      <4>1. saved' = [v \in VCPU |-> IF v = n THEN FALSE
                                      ELSE saved[v] \/ (v = sw[c].cur /\ sw[c].save)]
        BY <1>6, <2>2, ZenonT(60) DEF SwitchLock, StillReady
      <4>2. \A v \in VCPU : saved[v] \in BOOLEAN BY Zenon DEF TypeOK
      <4>3. \A v \in VCPU : (IF v = n THEN FALSE ELSE saved[v] \/ (v = sw[c].cur /\ sw[c].save)) \in BOOLEAN
        BY <4>2, Zenon
      <4> QED BY <4>1, <4>3, Zenon
    <3> QED BY <1>4, <2>1, <3>1, <3>2, ZenonT(60) DEF TypeOK
  <2>3. CASE ~(state[n] = "READY" \/ sw[c].cur = NoVcpu)
    <3>1. /\ sw' = [sw EXCEPT ![c] = SwitchAt("dequeue", sw[c].cur, NoVcpu, sw[c].save)]
          /\ UNCHANGED <<vcpuVars, wqVars, rq, current_vcpu, mode, yield_on_irq_exit, ipiVars>>
      BY <1>6, <2>3, Zenon DEF SwitchLock, StillReady
    <3>2. sw' \in [CPU -> Switches] BY <1>a, <1>s, <3>1, ZenonT(60) DEF TypeOK
    <3> QED BY <3>1, <3>2, Zenon DEF TypeOK, vcpuVars, wqVars, ipiVars
  <2> QED BY <2>2, <2>3, Zenon
<1>7. ASSUME NEW c \in CPU, SwitchRelease(c) PROVE TypeOK'
  <2>1. preempt_count' \in [VCPU -> Nat] BY <1>7, <1>s DEF SwitchRelease, PreemptEnable, TypeOK
  <2>2. /\ sw' \in [CPU -> Switches] /\ mode' \in [CPU -> {"vcpu", "irq", "trap", "exit"}]
        /\ wq_owner' \in VCPU \cup CPU \cup {NoVcpu}
    BY <1>7, <1>n, <1>m, Zenon DEF SwitchRelease, NoWaitqueueLock, TypeOK
  <2>3. UNCHANGED <<vcpuVars, wq_lock, wq_cleanup, phase, sleep_cpu,
                    rq, current_vcpu, yield_on_irq_exit, ipiVars>>
    BY <1>7, Zenon DEF SwitchRelease
  <2> QED BY <2>1, <2>2, <2>3, Zenon DEF TypeOK, vcpuVars, ipiVars
<1>8. ASSUME NEW c \in CPU, Interrupt(c) PROVE TypeOK'
  <2>1. CASE IrqEnter(c) BY <2>1, ZenonT(60) DEF IrqEnter, TypeOK, vcpuVars, wqVars, ipiVars
  <2>2. CASE TimerEvent(c) BY <1>w, <2>2, Zenon DEF TimerEvent, TypeOK, vcpuVars, wqVars, ipiVars
  <2>3. CASE IpiResched(c) BY <1>w, <2>3, Zenon DEF IpiResched, TypeOK, vcpuVars, wqVars
  <2>4. CASE IrqExit(c) BY <1>w, <2>4, Zenon DEF IrqExit, TypeOK, vcpuVars, wqVars, ipiVars
  <2> QED BY <1>8, <2>1, <2>2, <2>3, <2>4, Zenon DEF Interrupt
<1>9. ASSUME NEW c \in CPU, Sleep(c) PROVE TypeOK'
  <2> DEFINE u == current_vcpu[c]
  <2>1. u \in VCPU /\ hcpu[u] \in CPU BY <1>9, Zenon DEF Sleep, TypeOK, Thread, VCPU
  <2>2. CASE resumed[u]
    BY <1>9, <2>2, ZenonT(60) DEF Sleep, TypeOK, wqVars
  <2>3. CASE ~resumed[u]
    <3>1. /\ sw' \in [CPU -> Switches] /\ yield_on_irq_exit' \in [CPU -> BOOLEAN]
          /\ rq_resched_state' \in [CPU -> {"IDLE", "TRIGGERED"}]
      BY <1>9, <2>1, <2>3, PreemptType, ZenonT(60) DEF Sleep
    <3>2. state' \in [VCPU -> States]
      <4>1. state \in [VCPU -> States] /\ "PAUSED" \in States BY Zenon DEF TypeOK, States
      <4> QED BY <1>9, <2>3, <4>1, Zenon DEF Sleep
    <3>3. /\ wq_cleanup' \in [VCPU -> BOOLEAN] /\ wq_lock' \in [VCPU -> BOOLEAN]
          /\ wq_owner' \in VCPU \cup CPU \cup {NoVcpu} /\ preempt_count' \in [VCPU -> Nat]
      <4>1. /\ wq_cleanup' = [wq_cleanup EXCEPT ![u] = TRUE] /\ wq_lock' = [wq_lock EXCEPT ![u] = TRUE]
            /\ wq_owner' = u /\ preempt_count' = [preempt_count EXCEPT ![u] = 1]
        BY <1>9, <2>3, Zenon DEF Sleep
      <4> QED BY <2>1, <4>1, Zenon DEF TypeOK
    <3>4. /\ phase' \in [VCPU -> {"none", "asleep", "woken"}]
          /\ sleep_cpu' \in [VCPU -> CPU \cup {NoCpu}] /\ resumed' \in [VCPU -> BOOLEAN]
      BY <1>9, <2>1, <2>3, ZenonT(60) DEF Sleep, TypeOK
    <3>5. UNCHANGED <<hcpu, sched_lock, saved, rq, current_vcpu, mode, ipi_reset, ipi_migrate>>
      BY <1>9, Zenon DEF Sleep
    <3> QED BY <3>1, <3>2, <3>3, <3>4, <3>5, Zenon DEF TypeOK
  <2> QED BY <2>2, <2>3, Zenon
<1>10. ASSUME NEW c \in CPU, Relock(c) PROVE TypeOK'
  <2>1. current_vcpu[c] \in VCPU BY <1>10, Zenon DEF Relock, Thread, VCPU
  <2>2. wq_owner' \in VCPU \cup CPU \cup {NoVcpu} /\ preempt_count' \in [VCPU -> Nat]
    BY <1>10, <2>1 DEF Relock, TypeOK
  <2>3. phase' \in [VCPU -> {"none", "asleep", "woken"}] BY <1>10, <2>1, Zenon DEF Relock, TypeOK
  <2> QED BY <1>10, <2>2, <2>3, Zenon DEF Relock, TypeOK, vcpuVars, cpuVars, ipiVars
<1>11. ASSUME NEW c \in CPU, SleepReturn(c) PROVE TypeOK'
  <2>1. current_vcpu[c] \in VCPU BY <1>11, Zenon DEF SleepReturn, Thread, VCPU
  <2>2. preempt_count' \in [VCPU -> Nat] /\ wq_owner' \in VCPU \cup CPU \cup {NoVcpu}
    BY <1>11, <2>1 DEF SleepReturn, PreemptEnable, TypeOK
  <2>3. /\ phase' \in [VCPU -> {"none", "asleep", "woken"}] /\ wq_lock' \in [VCPU -> BOOLEAN]
        /\ sleep_cpu' \in [VCPU -> CPU \cup {NoCpu}]
    BY <1>11, <2>1, Zenon DEF SleepReturn, TypeOK
  <2> QED BY <1>11, <2>2, <2>3, Zenon DEF SleepReturn, TypeOK, vcpuVars, cpuVars, ipiVars
<1>12. ASSUME NEW c \in CPU, NEW v \in VCPU, Wake(c, v) \/ Kick(c, v) PROVE TypeOK'
  BY <1>12, ChangeType, ZenonT(60) DEF Wake, Kick, TypeOK
<1>13. ASSUME NEW c \in CPU, Yield(c) PROVE TypeOK'
  <2>1. current_vcpu[c] \in VCPU BY <1>13, Zenon DEF Yield, InOrphan, VCPU
  <2> QED BY <1>13, <2>1, ChangeType, ZenonT(60) DEF Yield, TypeOK
<1>14. ASSUME NEW c \in CPU, SpinLock(c) PROVE TypeOK'
  <2> DEFINE u == current_vcpu[c]
  <2>1. preempt_count' \in [VCPU -> Nat]
    <3>1. \/ preempt_count' = [preempt_count EXCEPT ![u] = 1]
          \/ preempt_count' = [preempt_count EXCEPT ![u] = 0]
      BY <1>14, Zenon DEF SpinLock
    <3>2. preempt_count \in [VCPU -> Nat] BY Zenon DEF TypeOK
    <3> QED BY <3>1, <3>2
  <2>2. UNCHANGED <<vcpuVars, wq_lock, wq_cleanup, phase, sleep_cpu, wq_owner, cpuVars, ipiVars>>
    BY <1>14, Zenon DEF SpinLock
  <2> QED BY <2>1, <2>2, Zenon DEF TypeOK, vcpuVars, cpuVars, ipiVars
<1>15. ASSUME NEW c \in CPU, NEW v \in Normal, NEW new \in {"PAUSED", "HALTED"}, StopGuest(c, v, new)
       PROVE  TypeOK'
  BY <1>15, ChangeType, Zenon DEF StopGuest, VCPU
<1>16. ASSUME NEW c \in CPU, NEW v \in Normal, ResumeGuest(c, v) PROVE TypeOK'
  BY <1>16, ChangeType, ZenonT(60) DEF ResumeGuest, VCPU, TypeOK
<1>17. ASSUME NEW c \in CPU, NEW v \in Normal, ResetGuest(c, v) PROVE TypeOK'
  <2>1. v \in VCPU /\ hcpu[v] \in CPU BY Zenon DEF VCPU, TypeOK
  <2>2. CASE hcpu[v] = c
    BY <1>17, <2>1, <2>2, ChangeType, ZenonT(60) DEF ResetGuest, TypeOK
  <2>3. CASE hcpu[v] # c
    <3>1. ipi_reset' = [ipi_reset EXCEPT ![hcpu[v]] = @ \cup {v}] BY <1>17, <2>3, Zenon DEF ResetGuest
    <3>2. ipi_reset' \in [CPU -> SUBSET VCPU] BY <2>1, <3>1, ZenonT(30) DEF TypeOK
    <3>3. UNCHANGED <<vcpuVars, wqVars, cpuVars, rq_resched_state, ipi_migrate>>
      BY <1>17, <2>3, Zenon DEF ResetGuest
    <3> QED BY <3>2, <3>3, ZenonT(30) DEF TypeOK, vcpuVars, wqVars, cpuVars
  <2> QED BY <2>2, <2>3, Zenon
<1>18. ASSUME NEW c \in CPU, NEW v \in Normal, IpiReset(c, v) PROVE TypeOK'
  <2>1. ipi_reset' \in [CPU -> SUBSET VCPU] BY <1>18, ZenonT(30) DEF IpiReset, TypeOK
  <2> QED BY <1>18, <2>1, ChangeType, Zenon DEF IpiReset, VCPU
<1>19. ASSUME NEW c \in CPU, NEW v \in VCPU, NEW new \in CPU, SetHcpu(c, v, new) PROVE TypeOK'
  <2>1. hcpu' \in [VCPU -> CPU] /\ ipi_migrate' \in [CPU -> SUBSET (VCPU \X CPU)]
    <3>1. hcpu' = hcpu \/ hcpu' = [hcpu EXCEPT ![v] = new] BY <1>19, Zenon DEF SetHcpu
    <3>2. \/ ipi_migrate' = ipi_migrate
          \/ ipi_migrate' = [ipi_migrate EXCEPT ![hcpu[v]] = @ \cup {<<v, new>>}]
      BY <1>19, Zenon DEF SetHcpu
    <3>3. <<v, new>> \in VCPU \X CPU BY Zenon
    <3>4. \A d \in CPU : ipi_migrate[d] \cup {<<v, new>>} \in SUBSET (VCPU \X CPU)
      BY <3>3, Zenon DEF TypeOK
    <3>5. hcpu \in [VCPU -> CPU] /\ ipi_migrate \in [CPU -> SUBSET (VCPU \X CPU)] BY Zenon DEF TypeOK
    <3>6. hcpu' \in [VCPU -> CPU] BY <3>1, <3>5, Zenon
    <3>7. ipi_migrate' \in [CPU -> SUBSET (VCPU \X CPU)] BY <3>2, <3>4, <3>5
    <3> QED BY <3>6, <3>7, Zenon
  <2> QED BY <1>19, <2>1, ZenonT(60) DEF SetHcpu, TypeOK, wqVars, cpuVars
<1>20. ASSUME NEW c \in CPU, NEW v \in VCPU, NEW new \in CPU, MigrateVcpu(c, v, new) PROVE TypeOK'
  <2>1. hcpu' \in [VCPU -> CPU] /\ ipi_migrate' \in [CPU -> SUBSET (VCPU \X CPU)]
    BY <1>20, ZenonT(60) DEF MigrateVcpu, TypeOK
  <2>2. rq' \in [CPU -> [Priorities -> Seq(VCPU)]]
    <3>1. DetachAll(v) \in [CPU -> Queues(VCPU)] BY <1>q, QueueTypes, ZenonT(60) DEF DetachAll
    <3>2. rq_enqueue(DetachAll(v)[new], v, priority[v]) \in Queues(VCPU) BY <1>p, <3>1, EnqueueType, ZenonT(60)
    <3> QED BY <1>20, <3>1, <3>2, ZenonT(60) DEF MigrateVcpu, Moved, Movable, TypeOK
  <2>3. rq_resched_state' \in [CPU -> {"IDLE", "TRIGGERED"}] BY <1>20, ZenonT(60) DEF MigrateVcpu, TypeOK
  <2> QED BY <1>20, <2>1, <2>2, <2>3, ZenonT(60) DEF MigrateVcpu, TypeOK, wqVars
<1> QED
  BY <1>1, <1>2, <1>3, <1>5, <1>6, <1>7, <1>8, <1>9, <1>10, <1>11, <1>12, <1>13, <1>14, <1>15,
     <1>16, <1>17, <1>18, <1>19, <1>20, ZenonT(30) DEF Next, Step, Move, Switch, Thread, VCPU

HIDE DEF Queues

-----------------------------------------------------------------------------
(***************************************************************************)
(* The invariant holds at boot and gives the safety properties.            *)
(***************************************************************************)

(* At boot only the idle VCPUs are READY, linked in the queue of their host *)
(* CPU.                                                                    *)
LEMMA InitInv == Init => IndInv
<1> SUFFICES ASSUME Init PROVE IndInv
  BY Zenon
<1> DEFINE i(c) == idle_vcpu[c]
<1>r. TypeOK BY InitType, Zenon
<1>1. /\ \A v \in VCPU : /\ state[v] = (IF v \in Idle THEN "READY" ELSE "RESET") /\ hcpu[v] \in cpu_affinity[v]
                         /\ sched_lock[v] = NoCpu /\ saved[v] /\ preempt_count[v] = 0 /\ ~wq_lock[v]
                         /\ ~wq_cleanup[v] /\ phase[v] = "none"
      /\ \A c \in CPU : /\ current_vcpu[c] = NoVcpu /\ sw[c].step = "none" /\ sw[c].next = NoVcpu
                        /\ ipi_migrate[c] = {}
      /\ wq_owner = NoVcpu
  BY Zenon DEF Init, NoSwitch, SwitchAt
<1>2. \A c \in CPU : i(c) \in VCPU /\ i(c) \in Idle /\ i(c) \in Orphan /\ state[i(c)] = "READY" /\ hcpu[i(c)] = c
  BY <1>1, SchedulerAssumption DEF VCPU, Idle
<1>3. LinkedOnce /\ \A c \in CPU : i(c) \in Queued(rq[c])
  <2> SUFFICES ASSUME NEW c \in CPU
               PROVE  /\ \A p \in Priorities :
                           /\ Once(rq[c][p])
                           /\ \A v \in Linked(rq[c][p]) : state[v] = "READY" /\ hcpu[v] = c /\ priority[v] = p
                      /\ i(c) \in Queued(rq[c])
    BY Zenon DEF LinkedOnce
  <2>1. rq[c] = rq_enqueue(rq_create, i(c), priority[i(c)]) BY Zenon DEF Init
  <2>2. rq_create \in Queues(VCPU) BY DEF rq_create, Queues
  <2>3. \A p \in Priorities : Linked(rq_create[p]) = {} /\ Once(rq_create[p])
    BY DEF rq_create, Linked, Once
  <2>4. i(c) \in VCPU /\ priority[i(c)] \in Priorities BY <1>2, SchedulerAssumption, Zenon
  <2>5. /\ \A o \in Priorities : o # priority[i(c)] => rq[c][o] = rq_create[o]
        /\ Linked(rq[c][priority[i(c)]]) = {i(c)}
        /\ Once(rq[c][priority[i(c)]])
    <3> DEFINE e == rq_enqueue(rq_create, i(c), priority[i(c)])
    <3>1. /\ \A o \in Priorities : o # priority[i(c)] => e[o] = rq_create[o]
          /\ Linked(e[priority[i(c)]]) = Linked(rq_create[priority[i(c)]]) \cup {i(c)}
          /\ Once(rq_create[priority[i(c)]]) /\ i(c) \notin Linked(rq_create[priority[i(c)]])
               => Once(e[priority[i(c)]])
      BY <2>2, <2>4, Enqueue, ZenonT(60)
    <3> HIDE DEF e
    <3>2. Linked(e[priority[i(c)]]) = {i(c)} /\ Once(e[priority[i(c)]]) BY <2>3, <2>4, <3>1, Zenon
    <3>3. rq[c] = e BY <2>1, Zenon DEF e
    <3> QED BY <3>1, <3>2, <3>3, Zenon
  <2> QED BY <1>2, <2>3, <2>4, <2>5 DEF Queued
<1>4. ReadyNotLost BY <1>1, <1>2, <1>3 DEF ReadyNotLost, Idle
<1>5. OneCpuPerVcpu /\ RunningIsCurrent BY <1>1, Zenon DEF OneCpuPerVcpu, RunningIsCurrent
<1>6. SwitchInv /\ LeavingInv /\ NextInv /\ ReleaseInv
  BY <1>1, SchedulerAssumption DEF SwitchInv, LeavingInv, NextInv, ReleaseInv
<1>7. CurrentInv /\ OffInv /\ AffinityInv /\ SleepInv /\ OwnerInv
  BY <1>1, SchedulerAssumption DEF CurrentInv, OffInv, AffinityInv, SleepInv, OwnerInv
<1>8. KindInv
  <2>1. \A v \in Normal : v \in VCPU /\ v \notin Idle BY SchedulerAssumption DEF VCPU, Idle
  <2>2. \A v \in Orphan : v \in VCPU BY Zenon DEF VCPU
  <2> QED BY <1>1, <1>2, <2>1, <2>2, Zenon DEF KindInv
<1> QED BY <1>r, <1>3, <1>4, <1>5, <1>6, <1>7, <1>8, ZenonT(30) DEF IndInv

(* Each stage of vmm_scheduler_switch() is a step of the finite-state      *)
(* machine of VCPUs or changes no state.                                   *)
LEMMA SwitchFsm ==
  ASSUME ScanFinds, IndInv, TypeOK, NEW c \in CPU, Switch(c) PROVE [Fsm!Next]_(Fsm!vars)
<1>1. CASE SwitchRefuse(c) \/ SwitchRelease(c)
  BY <1>1, Zenon DEF SwitchRefuse, SwitchRelease, vcpuVars, Fsm!vars
<1>2. CASE SwitchStart(c)
  <2> DEFINE u == current_vcpu[c]
  <2>1. u = NoVcpu \/ u \in VCPU BY Zenon DEF TypeOK
  <2>2. CASE u # NoVcpu /\ state[u] = "RUNNING"
    <3>1. Fsm!Deschedule(c, u) BY <1>2, <2>2, Zenon DEF SwitchStart, Fsm!Deschedule, Fsm!Move
    <3> QED BY <2>1, <2>2, <3>1, Zenon DEF Fsm!Next
  <2>3. CASE ~(u # NoVcpu /\ state[u] = "RUNNING") BY <1>2, <2>3, Zenon DEF SwitchStart, Fsm!vars
  <2> QED BY <2>2, <2>3, Zenon
<1>3. ASSUME NEW n \in VCPU, RunNext(c, n), state[n] = "READY", \A d \in CPU \ {c} : current_vcpu[d] # n
      PROVE  Fsm!Next
  <2>1. Fsm!Schedule(c, n) BY <1>3, Zenon DEF RunNext, Fsm!Schedule
  <2> QED BY <2>1, Zenon DEF Fsm!Next
<1>4. CASE SwitchDequeue(c)
  <2> DEFINE n == rq_first(rq[c])
  <2>1. CASE n = sw[c].cur
    <3>1. n \in VCPU /\ n \in Queued(rq[c])
      BY <1>4, DequeueShape, ZenonT(60) DEF SwitchDequeue, IndInv
    <3>2. state[n] = "READY" BY <3>1, LinkedOnceQueued, Zenon DEF IndInv, QueuedReady
    <3>3. n = current_vcpu[c] BY <1>4, <2>1, Zenon DEF SwitchDequeue, IndInv, SwitchInv
    <3>4. \A d \in CPU \ {c} : current_vcpu[d] # n BY <3>1, <3>3, SchedulerAssumption, Zenon DEF IndInv, OneCpuPerVcpu
    <3>5. RunNext(c, n) BY <1>4, <2>1, Zenon DEF SwitchDequeue
    <3> HIDE DEF n
    <3> QED BY <1>3, <3>1, <3>2, <3>4, <3>5, Zenon
  <2>2. CASE n # sw[c].cur BY <1>4, <2>2, Zenon DEF SwitchDequeue, vcpuVars, Fsm!vars
  <2> QED BY <2>1, <2>2, Zenon
<1>5. CASE SwitchLock(c)
  <2> DEFINE u == sw[c].cur
             n == sw[c].next
  <2>1. CASE StillReady(n) \/ u = NoVcpu
    <3>1. n \in VCPU /\ n # NoVcpu /\ u = current_vcpu[c]
      BY <1>5, Ranges, SchedulerAssumption, Zenon DEF SwitchLock, IndInv, SwitchInv
    <3>2. state[n] = "READY"
      BY <2>1, <3>1, Zenon DEF StillReady, IndInv, NextInv, Booted
    <3>3. \A d \in CPU \ {c} : current_vcpu[d] # n BY <3>1, Zenon DEF IndInv, NextInv
    <3>4. RunNext(c, n) BY <1>5, <2>1, ZenonT(60) DEF SwitchLock
    <3> HIDE DEF n
    <3> QED BY <1>3, <3>1, <3>2, <3>3, <3>4, Zenon
  <2>2. CASE ~(StillReady(n) \/ u = NoVcpu) BY <1>5, <2>2, Zenon DEF SwitchLock, vcpuVars, Fsm!vars
  <2> QED BY <2>1, <2>2, Zenon
<1> QED BY <1>1, <1>2, <1>4, <1>5, Zenon DEF Switch

(* So is every other step: kick, resume and wake make a VCPU READY, sleep, *)
(* pause, halt and reset stop it, migrations and interrupts change no state. *)
LEMMA StepFsm == ScanFinds /\ IndInv /\ [Next]_vars => [Fsm!Next]_(Fsm!vars)
<1> SUFFICES ASSUME ScanFinds, IndInv, TypeOK, [Next]_vars PROVE [Fsm!Next]_(Fsm!vars)
  BY Zenon DEF IndInv
<1>1. ASSUME NEW c \in CPU, NEW v \in VCPU, NEW locked, ChangeToReady(c, v, locked)
      PROVE  [Fsm!Next]_(Fsm!vars)
  <2>1. CASE state' = state BY <1>1, <2>1, Zenon DEF ChangeToReady, Fsm!vars
  <2>2. CASE state' # state
    <3>1. Fsm!Kick(v) \/ Fsm!Resume(v)
      BY <1>1, <2>2, ZenonT(60) DEF ChangeToReady, Fsm!Kick, Fsm!Resume, Fsm!Move
    <3> QED BY <3>1, Zenon DEF Fsm!Next
  <2> QED BY <2>1, <2>2, Zenon
<1>2. ASSUME NEW c \in CPU, NEW v \in VCPU, NEW new \in {"PAUSED", "HALTED"}, ChangeToStopped(c, v, new)
      PROVE  [Fsm!Next]_(Fsm!vars)
  <2>1. CASE state' = state BY <1>2, <2>1, Zenon DEF ChangeToStopped, Fsm!vars
  <2>2. CASE state' # state
    <3>1. Fsm!Pause(v) \/ Fsm!Halt(v)
      BY <1>2, <2>2, ZenonT(60) DEF ChangeToStopped, Fsm!Pause, Fsm!Halt, Fsm!Move
    <3> QED BY <3>1, Zenon DEF Fsm!Next
  <2> QED BY <2>1, <2>2, Zenon
<1>3. ASSUME NEW c \in CPU, NEW v \in VCPU, ChangeToReset(c, v) PROVE [Fsm!Next]_(Fsm!vars)
  <2>1. CASE state[v] = "RESET" BY <1>3, <2>1, Zenon DEF ChangeToReset, Fsm!vars
  <2>2. CASE state[v] # "RESET"
    <3>1. state[v] \in {"READY", "RUNNING", "PAUSED", "HALTED"} BY <2>2, Ranges, Zenon DEF States
    <3>2. Fsm!Reset(v) BY <1>3, <2>2, <3>1, Zenon DEF ChangeToReset, Fsm!Reset, Fsm!Move
    <3> QED BY <3>2, Zenon DEF Fsm!Next
  <2> QED BY <2>1, <2>2, Zenon
<1>4. ASSUME NEW c \in CPU, Sleep(c) PROVE [Fsm!Next]_(Fsm!vars)
  <2> DEFINE u == current_vcpu[c]
  <2>1. u \in VCPU /\ state[u] = "RUNNING" BY <1>4, Zenon DEF Sleep, Thread, VCPU
  <2>2. CASE resumed[u] BY <1>4, <2>2, Zenon DEF Sleep, Fsm!vars
  <2>3. CASE ~resumed[u]
    <3>1. Fsm!Pause(u) BY <1>4, <2>1, <2>3, Zenon DEF Sleep, Fsm!Pause, Fsm!Move
    <3> QED BY <2>1, <3>1, Zenon DEF Fsm!Next
  <2> QED BY <2>2, <2>3, Zenon
<1>5. ASSUME NEW c \in CPU,
             Interrupt(c) \/ Relock(c) \/ SleepReturn(c) \/ SpinLock(c) \/ Move(c)
      PROVE  UNCHANGED <<state, current_vcpu>>
  BY <1>5, ZenonT(60) DEF Interrupt, IrqEnter, TimerEvent, IpiResched, IrqExit, Relock, SleepReturn, SpinLock, Move,
              SetHcpu, MigrateVcpu, vcpuVars, cpuVars
<1>6. ASSUME NEW c \in CPU, NEW v \in Normal, ResetGuest(c, v) \/ IpiReset(c, v)
      PROVE  [Fsm!Next]_(Fsm!vars)
  <2>1. CASE ChangeToReset(c, v) BY <1>3, <2>1, Zenon DEF VCPU
  <2>2. CASE ~ChangeToReset(c, v)
    BY <1>6, <2>2, Zenon DEF ResetGuest, IpiReset, vcpuVars, cpuVars, Fsm!vars
  <2> QED BY <2>1, <2>2, Zenon
<1>7. ASSUME NEW c \in CPU, Step(c) \/ Move(c) PROVE [Fsm!Next]_(Fsm!vars)
  <2>1. CASE Switch(c) BY <2>1, SwitchFsm, Zenon
  <2>2. CASE Interrupt(c) \/ Relock(c) \/ SleepReturn(c) \/ SpinLock(c) \/ Move(c)
    BY <1>5, <2>2, Zenon DEF Fsm!vars
  <2>3. CASE Sleep(c) BY <1>4, <2>3, Zenon
  <2>4. CASE Yield(c)
    <3>1. current_vcpu[c] \in VCPU /\ ChangeToReady(c, current_vcpu[c], FALSE) BY <2>4, ZenonT(60) DEF Yield, InOrphan, VCPU
    <3> QED BY <1>1, <3>1, ZenonT(60)
  <2>5. ASSUME NEW v \in VCPU, Wake(c, v) \/ Kick(c, v) \/ ResumeGuest(c, v) PROVE [Fsm!Next]_(Fsm!vars)
    BY <1>1, <2>5, ZenonT(60) DEF Wake, Kick, ResumeGuest
  <2>6. ASSUME NEW v \in VCPU, StopGuest(c, v, "PAUSED") \/ StopGuest(c, v, "HALTED")
        PROVE  [Fsm!Next]_(Fsm!vars)
    BY <1>2, <2>6, Zenon DEF StopGuest
  <2> QED BY <1>6, <1>7, <2>1, <2>2, <2>3, <2>4, <2>5, <2>6, Zenon DEF Step, Thread, VCPU
<1>8. CASE UNCHANGED vars BY <1>8, Zenon DEF vars, vcpuVars, cpuVars, Fsm!vars
<1> QED BY <1>7, <1>8, Zenon DEF Next

(* vmm_scheduler_set_hcpu(): a VCPU that is READY or RUNNING is left to its *)
(* host CPU, any other is assigned to the new one.                         *)
LEMMA SetHcpuKeeps ==
  ASSUME IndInv, TypeOK, TypeOK', NEW c \in CPU, NEW v \in VCPU, NEW new \in CPU, SetHcpu(c, v, new), SleepersStay
  PROVE  IndInv'
<1>1. UNCHANGED <<state, sched_lock, saved, preempt_count, wq_lock, wq_cleanup, phase, sleep_cpu, wq_owner,
                  rq, current_vcpu, sw, mode>>
  BY Zenon DEF SetHcpu, wqVars, cpuVars
<1>2. "migrate" \in Ops /\ hcpu[v] # new /\ new \in cpu_affinity[v] BY Zenon DEF SetHcpu
<1>3. CASE LeaveToHcpu(v)
  <2>1. hcpu' = hcpu /\ ipi_migrate' = [ipi_migrate EXCEPT ![hcpu[v]] = @ \cup {<<v, new>>}]
    BY <1>3, Zenon DEF SetHcpu
  <2>2. \A d \in CPU, x \in VCPU, e \in CPU :
          <<x, e>> \in ipi_migrate'[d] => <<x, e>> \in ipi_migrate[d] \/ (x = v /\ e = new)
    <3>1. ipi_migrate \in [CPU -> SUBSET (VCPU \X CPU)] BY Zenon DEF TypeOK
    <3> QED BY <2>1, <3>1, Zenon
  <2>3. AffinityInv' BY <1>2, <2>1, <2>2, Zenon DEF AffinityInv, IndInv
  <2>4. /\ OneCpuPerVcpu' /\ LinkedOnce' /\ ReadyNotLost' /\ RunningIsCurrent' /\ SwitchInv' /\ LeavingInv'
        /\ NextInv' /\ CurrentInv' /\ OffInv' /\ KindInv' /\ SleepInv' /\ OwnerInv' /\ ReleaseInv'
    BY <1>1, <2>1, Frame, Zenon
  <2> QED BY <2>3, <2>4, Zenon DEF IndInv
<1>4. CASE ~LeaveToHcpu(v)
  <2>1. hcpu' = [hcpu EXCEPT ![v] = new] /\ ipi_migrate' = ipi_migrate /\ state[v] \notin {"READY", "RUNNING"}
    BY <1>4, Zenon DEF SetHcpu, LeaveToHcpu
  <2>2. \A x \in VCPU : hcpu'[x] = IF x = v THEN new ELSE hcpu[x] BY <2>1, Zenon DEF TypeOK
  <2>3. v \in Thread => phase[v] = "none" BY <1>2, <2>2, Zenon DEF SleepersStay
  <2>4. v \in Thread => state[v] = "RESET"
    BY <2>1, <2>3, Ranges, Zenon DEF IndInv, KindInv, Thread, States
  <2>5. LinkedOnce'
    <3>1. \A d \in CPU : \A x \in Queued(rq[d]) : x \in VCPU /\ x # v /\ state[x] = "READY" /\ hcpu[x] = d
      BY <2>1, LinkedOnceQueued, QueuedVcpus DEF IndInv, QueuedReady
    <3>2. QueuedReady' BY <1>1, <2>2, <3>1, Zenon DEF QueuedReady
    <3>3. Shape' BY <1>1, LinkedOnceQueued, Zenon DEF IndInv, Shape
    <3> QED BY <3>2, <3>3, LinkedOnceQueued, Zenon
  <2>6. ReadyNotLost' BY <1>1, <2>1, <2>2, Zenon DEF ReadyNotLost, IndInv
  <2>7. RunningIsCurrent' BY <1>1, <2>1, <2>2, Zenon DEF RunningIsCurrent, IndInv
  <2>8. NextInv'
    <3> SUFFICES ASSUME NEW d \in CPU, sw[d].next # NoVcpu PROVE NextInv!(d)!2'
      BY <1>1, Zenon DEF NextInv
    <3>1. Booted' = Booted BY <1>1, Zenon DEF Booted
    <3>2. NextInv!(d)!2 /\ sw[d].next \in VCPU BY Ranges, Zenon DEF IndInv, NextInv
    <3> QED BY <1>1, <2>1, <2>2, <3>1, <3>2, Zenon
  <2>9. CurrentInv'
    <3> SUFFICES ASSUME NEW d \in CPU, NEW x \in VCPU, current_vcpu[d] = x PROVE CurrentInv!(d)!(x)!2'
      BY <1>1, Zenon DEF CurrentInv
    <3>1. CurrentInv!(d)!(x)!2 BY Zenon DEF IndInv, CurrentInv
    <3>2. x \in Thread => x # v BY <2>4, <3>1, SchedulerAssumption, Zenon DEF Thread
    <3> QED BY <1>1, <2>1, <2>2, <3>1, <3>2, Zenon
  <2>10. AffinityInv' BY <1>2, <2>1, <2>2, Zenon DEF AffinityInv, IndInv
  <2>11. SleepInv'
    <3> SUFFICES ASSUME NEW x \in VCPU PROVE SleepInv!(x)'
      BY Zenon DEF SleepInv
    <3>1. SleepInv!(x) BY Zenon DEF IndInv, SleepInv
    <3>2. phase[x] # "none" => hcpu'[x] = hcpu[x] BY <2>2, <2>3, <3>1, Zenon
    <3> QED BY <1>1, <3>1, <3>2, Zenon
  <2>12. ReleaseInv'
    <3> SUFFICES ASSUME NEW d \in CPU, sw[d].step = "release", sw[d].cur # NoVcpu PROVE ReleaseInv!(d)!2'
      BY <1>1, Zenon DEF ReleaseInv
    <3>1. ReleaseInv!(d)!2 /\ sw[d].cur \in VCPU BY Ranges, Zenon DEF IndInv, ReleaseInv
    <3>2. sw[d].cur \in Thread => hcpu'[sw[d].cur] = hcpu[sw[d].cur] BY <2>2, <2>4, <3>1, Zenon
    <3> QED BY <1>1, <3>1, <3>2, Zenon
  <2>13. OneCpuPerVcpu' /\ SwitchInv' /\ LeavingInv' /\ OffInv' /\ KindInv' /\ OwnerInv' BY <1>1, Frame, Zenon
  <2> QED BY <2>5, <2>6, <2>7, <2>8, <2>9, <2>10, <2>11, <2>12, <2>13, ZenonT(30) DEF IndInv
<1> QED BY <1>3, <1>4, Zenon

(* scheduler_ipi_migrate_vcpu() moves a VCPU from one ready queue to the   *)
(* other, if it is still READY and still here.                             *)
LEMMA MigrateKeeps ==
  ASSUME IndInv, TypeOK, TypeOK', NEW c \in CPU, NEW v \in VCPU, NEW new \in CPU, MigrateVcpu(c, v, new), SleepersStay
  PROVE  IndInv'
<1>1. UNCHANGED <<state, sched_lock, saved, preempt_count, wq_lock, wq_cleanup, phase, sleep_cpu, wq_owner,
                  current_vcpu, sw, mode>>
  BY Zenon DEF MigrateVcpu, wqVars
<1>2. <<v, new>> \in ipi_migrate[c] /\ sched_lock[v] = NoCpu /\ sw[c].step = "none"
  BY Zenon DEF MigrateVcpu, InOrphan
<1>3. new \in cpu_affinity[v] /\ "migrate" \in Ops BY <1>2, Zenon DEF IndInv, AffinityInv
<1>4. \A d \in CPU : ipi_migrate'[d] \subseteq ipi_migrate[d]
  <2>1. ipi_migrate' = [ipi_migrate EXCEPT ![c] = @ \ {<<v, new>>}] BY Zenon DEF MigrateVcpu
  <2> QED BY <2>1, Zenon DEF TypeOK
<1>5. CASE ~Movable(c, v, new)
  <2>1. UNCHANGED <<rq, hcpu>> BY <1>5, Zenon DEF MigrateVcpu
  <2>2. AffinityInv' BY <1>4, <2>1, Zenon DEF AffinityInv, IndInv
  <2>3. /\ OneCpuPerVcpu' /\ LinkedOnce' /\ ReadyNotLost' /\ RunningIsCurrent' /\ SwitchInv' /\ LeavingInv'
        /\ NextInv' /\ CurrentInv' /\ OffInv' /\ KindInv' /\ SleepInv' /\ OwnerInv' /\ ReleaseInv'
    BY <1>1, <2>1, Frame, ZenonT(30)
  <2> QED BY <2>2, <2>3, Zenon DEF IndInv
<1>6. CASE Movable(c, v, new)
  <2>1. rq' = Moved(v, new) /\ hcpu' = [hcpu EXCEPT ![v] = new] BY <1>6, Zenon DEF MigrateVcpu
  <2>2. state[v] = "READY" /\ hcpu[v] = c /\ c # new BY <1>6, Zenon DEF Movable
  <2>3. \A x \in VCPU : hcpu'[x] = IF x = v THEN new ELSE hcpu[x] BY <2>1, Zenon DEF TypeOK
  <2>4. \A d \in CPU : current_vcpu[d] # v BY <1>2, <2>2, SchedulerAssumption DEF IndInv, CurrentInv
  <2>5. v \in Queued(rq[c]) /\ \A d \in CPU : sw[d].next # v
    <3>1. sw[c].next # v BY <1>2, SchedulerAssumption DEF IndInv, SwitchInv
    <3>2. v \in Queued(rq[c]) BY <2>2, <3>1, Zenon DEF IndInv, ReadyNotLost
    <3> QED BY <3>2, SchedulerAssumption DEF IndInv, NextInv
  <2>6. Shape' /\ \A d \in CPU : Queued(rq'[d]) = IF d = new THEN (Queued(rq[d]) \ {v}) \cup {v} ELSE Queued(rq[d]) \ {v}
    <3> DEFINE q == DetachAll(v)
               e == rq_enqueue(q[new], v, priority[v])
    <3>1. Shape BY LinkedOnceQueued, Zenon DEF IndInv
    <3>2. /\ q \in [CPU -> Queues(VCPU)]
          /\ \A d \in CPU, p \in Priorities : Once(q[d][p]) /\ Linked(q[d][p]) \subseteq Linked(rq[d][p])
      BY <3>1, DetachShape, Zenon
    <3>3. \A d \in CPU : Queued(q[d]) = Queued(rq[d]) \ {v} BY <3>1, DetachShape, Zenon
    <3>4. priority[v] \in Priorities BY SchedulerAssumption, Zenon
    <3>5. rq' = [q EXCEPT ![new] = e] BY <2>1, Zenon DEF Moved
    <3> HIDE DEF q
    <3>6. /\ \A o \in Priorities : o # priority[v] => e[o] = q[new][o]
          /\ Linked(e[priority[v]]) = Linked(q[new][priority[v]]) \cup {v}
          /\ Once(q[new][priority[v]]) /\ v \notin Linked(q[new][priority[v]]) => Once(e[priority[v]])
          /\ Queued(e) = Queued(q[new]) \cup {v}
      <4>1. q[new] \in Queues(VCPU) BY <3>2, Zenon
      <4>2. \A r \in Queues(VCPU), p \in Priorities :
              /\ \A o \in Priorities : o # p => rq_enqueue(r, v, p)[o] = r[o]
              /\ Linked(rq_enqueue(r, v, p)[p]) = Linked(r[p]) \cup {v}
              /\ Once(r[p]) /\ v \notin Linked(r[p]) => Once(rq_enqueue(r, v, p)[p])
              /\ Queued(rq_enqueue(r, v, p)) = Queued(r) \cup {v}
        BY Enqueue, EnqueueQueued
      <4> QED BY <3>4, <4>1, <4>2, ZenonT(60)
    <3>7. v \notin Linked(q[new][priority[v]]) BY <3>3, <3>4, Zenon DEF Queued
    <3> HIDE DEF e
    <3>8. \A d \in CPU : rq'[d] = IF d = new THEN e ELSE q[d] BY <3>2, <3>5, Zenon
    <3>9. Shape'
      <4> SUFFICES ASSUME NEW d \in CPU, NEW p \in Priorities
                   PROVE  Once(rq'[d][p]) /\ \A x \in Linked(rq'[d][p]) : priority[x] = p
        BY Zenon DEF Shape
      <4>1. \A x \in Linked(q[d][p]) : priority[x] = p BY <3>1, <3>2, Zenon DEF Shape
      <4>2. CASE d = new /\ p = priority[v] BY <3>2, <3>6, <3>7, <3>8, <4>1, <4>2, Zenon
      <4>3. CASE ~(d = new /\ p = priority[v])
        <5>1. rq'[d][p] = q[d][p] BY <3>6, <3>8, <4>3, Zenon
        <5> QED BY <3>2, <4>1, <5>1, Zenon
      <4> QED BY <4>2, <4>3, Zenon
    <3> QED BY <3>3, <3>6, <3>8, <3>9, Zenon
  <2>7. LinkedOnce'
    <3>1. \A d \in CPU : \A x \in Queued(rq[d]) : x \in VCPU /\ state[x] = "READY" /\ hcpu[x] = d
      BY LinkedOnceQueued, QueuedVcpus, Zenon DEF IndInv, QueuedReady
    <3>2. QueuedReady'
      <4> SUFFICES ASSUME NEW d \in CPU, NEW x \in Queued(rq'[d]) PROVE state'[x] = "READY" /\ hcpu'[x] = d
        BY Zenon DEF QueuedReady
      <4>1. (x = v /\ d = new) \/ (x # v /\ x \in Queued(rq[d])) BY <2>6, ZenonT(60)
      <4> QED BY <1>1, <2>2, <2>3, <3>1, <4>1, Zenon
    <3> QED BY <2>6, <3>2, LinkedOnceQueued, Zenon
  <2>8. ReadyNotLost'
    <3> SUFFICES ASSUME NEW x \in VCPU, state[x] = "READY"
                 PROVE  x \in Queued(rq'[hcpu'[x]]) \/ sw[hcpu'[x]].next = x
      BY <1>1, Zenon DEF ReadyNotLost
    <3>1. CASE x = v BY <2>3, <2>6, <3>1, ZenonT(60)
    <3>2. CASE x # v
      <4>1. hcpu'[x] = hcpu[x] /\ hcpu[x] \in CPU BY <2>3, <3>2, Ranges, Zenon
      <4>2. x \in Queued(rq[hcpu[x]]) \/ sw[hcpu[x]].next = x BY Zenon DEF IndInv, ReadyNotLost
      <4> QED BY <2>6, <3>2, <4>1, <4>2, ZenonT(60)
    <3> QED BY <3>1, <3>2, Zenon
  <2>9. RunningIsCurrent' BY <1>1, <2>2, <2>3, Zenon DEF RunningIsCurrent, IndInv
  <2>10. NextInv'
    <3> SUFFICES ASSUME NEW d \in CPU, sw[d].next # NoVcpu PROVE NextInv!(d)!2'
      BY <1>1, Zenon DEF NextInv
    <3>1. Booted' = Booted BY <1>1, Zenon DEF Booted
    <3>2. NextInv!(d)!2 /\ sw[d].next \in VCPU /\ sw[d].next # v BY <2>5, Ranges, Zenon DEF IndInv, NextInv
    <3>3. \A e \in CPU : sw[d].next \notin Queued(rq'[e]) BY <2>6, <3>2, ZenonT(60)
    <3>4. hcpu'[sw[d].next] = hcpu[sw[d].next] BY <2>3, <3>2, Zenon
    <3> QED BY <1>1, <3>1, <3>2, <3>3, <3>4, Zenon
  <2>11. CurrentInv'
    <3> SUFFICES ASSUME NEW d \in CPU, NEW x \in VCPU, current_vcpu[d] = x PROVE CurrentInv!(d)!(x)!2'
      BY <1>1, Zenon DEF CurrentInv
    <3>1. CurrentInv!(d)!(x)!2 /\ hcpu'[x] = hcpu[x] BY <2>3, <2>4, Zenon DEF IndInv, CurrentInv
    <3> QED BY <1>1, <3>1, Zenon
  <2>12. AffinityInv' BY <1>3, <1>4, <2>3, Zenon DEF AffinityInv, IndInv
  <2>13. SleepInv'
    <3> SUFFICES ASSUME NEW x \in VCPU PROVE SleepInv!(x)'
      BY Zenon DEF SleepInv
    <3>1. SleepInv!(x) BY Zenon DEF IndInv, SleepInv
    <3>2. phase[x] # "none" => hcpu'[x] = hcpu[x] BY <3>1, Zenon DEF SleepersStay
    <3> QED BY <1>1, <3>1, <3>2, Zenon
  <2>14. ReleaseInv'
    <3> SUFFICES ASSUME NEW d \in CPU, sw[d].step = "release", sw[d].cur # NoVcpu PROVE ReleaseInv!(d)!2'
      BY <1>1, Zenon DEF ReleaseInv
    <3>1. ReleaseInv!(d)!2 /\ sw[d].cur \in VCPU BY Ranges, Zenon DEF IndInv, ReleaseInv
    <3>2. sw[d].cur \in Thread => sw[d].cur # v BY <1>2, <2>2, <3>1, Zenon
    <3>3. sw[d].cur \in Thread => hcpu'[sw[d].cur] = hcpu[sw[d].cur] BY <2>3, <3>1, <3>2, Zenon
    <3> QED BY <1>1, <3>1, <3>3, Zenon
  <2>15. OneCpuPerVcpu' /\ SwitchInv' /\ LeavingInv' /\ OffInv' /\ KindInv' /\ OwnerInv' BY <1>1, Frame, Zenon
  <2> QED BY <2>7, <2>8, <2>9, <2>10, <2>11, <2>12, <2>13, <2>14, <2>15, Zenon DEF IndInv
<1> QED BY <1>5, <1>6, Zenon

-----------------------------------------------------------------------------
(***************************************************************************)
(* The invariant always holds.                                             *)
(***************************************************************************)

(* The scan of rq_dequeue() finds a list with an entry when there is one. *)
LEMMA ScanWorks == ScanFinds
<1> SUFFICES ASSUME NEW q \in Queues(VCPU), Queued(q) # {}
             PROVE  TopPriority(q) \in Priorities /\ q[TopPriority(q)] # << >>
  BY Zenon DEF ScanFinds
<1>1. PICK p \in Priorities : Linked(q[p]) # {} BY Zenon DEF Queued
<1>2. q[p] # << >> BY <1>1 DEF Linked
<1>3. p \in Occupied(q) BY <1>2, Zenon DEF Occupied
<1>4. Occupied(q) \subseteq 0 .. MaxPriority BY Zenon DEF Occupied, Priorities
<1>5. \E m \in Occupied(q) : \A o \in Occupied(q) : o <= m
  <2> DEFINE T == {MaxPriority - o : o \in Occupied(q)}
  <2>1. T \subseteq Nat /\ T # {} BY <1>3, <1>4, MaxPriorityAssumption
  <2> HIDE DEF T
  <2>2. PICK x \in T : \A y \in T : ~(<<y, x>> \in OpToRel(<, Nat))
    BY <2>1, WFMin, NatLessThanWellFounded, ZenonT(60)
  <2>3. \A y \in T : ~(y < x) BY <2>1, <2>2, ZenonT(60) DEF OpToRel
  <2>4. PICK m \in Occupied(q) : x = MaxPriority - m BY Zenon DEF T
  <2>5. ASSUME NEW o \in Occupied(q) PROVE o <= m
    <3>1. MaxPriority - o \in T BY Zenon DEF T
    <3>2. ~(MaxPriority - o < MaxPriority - m) BY <2>3, <2>4, <3>1, ZenonT(60)
    <3> QED BY <1>4, <3>2, MaxPriorityAssumption
  <2> QED BY <2>5, Zenon
<1> QED BY <1>5, Zenon DEF TopPriority, Occupied

(* Type correctness of the scheduler, whatever the operations issued and   *)
(* in whichever order.                                                     *)
THEOREM TypeCorrect == Spec => []TypeOK
  BY InitType, NextType, ScanWorks, PTL DEF Spec

(* Every operation but a migration keeps the invariant. *)
LEMMA StepKeeps ==
  ASSUME Quiesced, ScanFinds, IndInv, TypeOK, TypeOK', NEW c \in CPU, Step(c) PROVE IndInv'
<1>1. CASE Switch(c)
  BY <1>1, SwitchRefuseKeeps, SwitchStartKeeps, SwitchDequeueKeeps, SwitchLockKeeps, SwitchReleaseKeeps, Zenon
  DEF Switch
<1>2. CASE Interrupt(c) BY <1>2, InterruptKeeps, Zenon
<1>3. CASE Sleep(c) \/ Relock(c) \/ SleepReturn(c) \/ Yield(c) \/ SpinLock(c)
  BY <1>3, SleepKeeps, RelockKeeps, SleepReturnKeeps, YieldKeeps, SpinLockKeeps, Zenon
<1>4. CASE \E v \in Thread : Wake(c, v) BY <1>4, WakeKeeps, Zenon
<1>5. CASE \E v \in VCPU : Kick(c, v) BY <1>5, KickKeeps, Zenon
<1>6. ASSUME NEW v \in Normal,
             \/ "pause" \in Ops /\ StopGuest(c, v, "PAUSED")
             \/ "halt" \in Ops /\ StopGuest(c, v, "HALTED")
             \/ ResumeGuest(c, v) \/ ResetGuest(c, v) \/ IpiReset(c, v)
      PROVE  IndInv'
  BY <1>6, StopKeeps, ResumeKeeps, ResetGuestKeeps, Zenon
<1> QED BY <1>1, <1>2, <1>3, <1>4, <1>5, <1>6, Zenon DEF Step

(* So does every step, when no sleeping thread is migrated. *)
LEMMA StayKeeps == ASSUME Quiesced PROVE IndInv /\ [StayNext]_vars => IndInv'
<1> SUFFICES ASSUME IndInv, TypeOK, [StayNext]_vars PROVE IndInv'
  BY Zenon DEF IndInv
<1>1. [Next]_vars BY Zenon DEF StayNext, Next
<1>2. TypeOK' BY <1>1, ScanWorks, NextType, Zenon
<1>3. ASSUME NEW c \in CPU, Step(c) PROVE IndInv' BY <1>2, <1>3, ScanWorks, StepKeeps, Zenon
<1>4. ASSUME NEW c \in CPU, Move(c), SleepersStay PROVE IndInv'
  BY <1>2, <1>4, SetHcpuKeeps, MigrateKeeps, Zenon DEF Move
<1>5. CASE UNCHANGED vars BY <1>2, <1>5, SameKeeps, Zenon DEF vars, vcpuVars, wqVars, cpuVars, ipiVars
<1> QED BY <1>3, <1>4, <1>5, Zenon DEF StayNext

(* vmm_scheduler_set_hcpu() honours cpu_affinity, so a thread that is bound *)
(* to one host CPU is never migrated.                                      *)
LEMMA BoundStay == ASSUME ThreadsBound PROVE IndInv /\ [Next]_vars => [StayNext]_vars
<1> SUFFICES ASSUME IndInv, TypeOK, Next PROVE StayNext
  BY Zenon DEF IndInv
<1>c. PICK c \in CPU : Step(c) \/ Move(c) BY Zenon DEF Next
<1> SUFFICES ASSUME Move(c) PROVE SleepersStay
  BY <1>c, Zenon DEF StayNext
<1> SUFFICES ASSUME NEW x \in Thread PROVE hcpu'[x] = hcpu[x]
  BY Zenon DEF SleepersStay
<1>1. x \in VCPU BY Zenon DEF Thread, VCPU
<1>2. PICK v \in VCPU, new \in CPU : SetHcpu(c, v, new) \/ MigrateVcpu(c, v, new) BY Zenon DEF Move
<1>3. hcpu' = hcpu \/ (hcpu' = [hcpu EXCEPT ![v] = new] /\ hcpu[v] # new)
  BY <1>2, Zenon DEF SetHcpu, MigrateVcpu, Movable
<1>4. new \in cpu_affinity[v] /\ hcpu[v] \in cpu_affinity[v]
  BY <1>2, Zenon DEF SetHcpu, MigrateVcpu, IndInv, AffinityInv
<1>5. CASE x = v BY <1>3, <1>4, <1>5, Zenon DEF ThreadsBound
<1>6. CASE x # v BY <1>1, <1>3, <1>6, Zenon DEF TypeOK
<1> QED BY <1>5, <1>6, Zenon

(* The invariant of the scheduler holds in every execution in which VCPUs  *)
(* are kicked and resumed off their CPU and no sleeping thread is migrated, *)
(* for any number of host CPUs, threads and guests: ready queues without a *)
(* duplicate or a stray entry, no READY VCPU lost, no VCPU on two host CPUs. *)
THEOREM SchedulerInvariant == ASSUME Quiesced PROVE StaySpec => []IndInv
<1>1. IndInv /\ [StayNext]_vars => IndInv' BY StayKeeps, Zenon
<1> QED BY <1>1, InitInv, PTL DEF StaySpec

(* When threads are bound to one host CPU nothing has to be assumed of     *)
(* migrations: the migrations of guests alone never break the invariant.   *)
THEOREM BoundInvariant == ASSUME Quiesced, ThreadsBound PROVE Spec => []IndInv
<1>1. IndInv /\ [Next]_vars => IndInv' BY StayKeeps, BoundStay, Zenon
<1> QED BY <1>1, InitInv, PTL DEF Spec

-----------------------------------------------------------------------------
(***************************************************************************)
(* What follows from it.                                                   *)
(***************************************************************************)

(* rq_dequeue() in a switch always finds a VCPU: the idle VCPU of the host *)
(* CPU is there when nothing else is (the BUG_ON of __vmm_scheduler_next2). *)
THEOREM DequeueSucceeds == ASSUME Quiesced PROVE StaySpec => []DequeueNeverFails
  BY SchedulerInvariant, InvGives, PTL

(* arch_vcpu_switch() never loads stale registers: a READY VCPU that is off *)
(* the CPUs has been saved.                                                *)
THEOREM ContextKept == ASSUME Quiesced PROVE StaySpec => []ContextIntact
  BY SchedulerInvariant, InvGives, PTL

(* Two switches that hold the sched_lock of their current VCPU never wait  *)
(* for each other's lock, on any number of host CPUs.                      *)
THEOREM SwitchesGoOn == ASSUME Quiesced PROVE StaySpec => []NoSwitchDeadlock
  BY SchedulerInvariant, InvGives, PTL

(* A thread that has left its CPU holds neither the lock of the waitqueue  *)
(* nor a preemption count, and holds the lock when its sleep returns.      *)
THEOREM LockHandover == ASSUME Quiesced PROVE StaySpec => []LockHandedOver
  BY SchedulerInvariant, InvGives, PTL

(* The scheduler implements the finite-state machine of VCPUs: the refinement *)
(* that FollowsFsm states, under the hypotheses of the invariant.          *)
THEOREM SchedulerFsm == ASSUME Quiesced PROVE StaySpec => FollowsFsm
<1>1. Init => Fsm!Init BY Zenon DEF Init, Fsm!Init
<1>2. [StayNext]_vars => [Next]_vars BY Zenon DEF StayNext, Next
<1> QED BY <1>1, <1>2, SchedulerInvariant, StepFsm, ScanWorks, PTL DEF StaySpec, FollowsFsm, Fsm!Spec
=============================================================================
