------------------------------ MODULE VcpuIrq -------------------------------
(***************************************************************************)
(* The virtual interrupts of one Normal VCPU (core/vmm_vcpu_irq.c).  A     *)
(* source per interrupt line, serialised by the lock of its interrupt      *)
(* controller, asserts and deasserts the line from any host CPU.  The host *)
(* CPU that executes the VCPU injects asserted lines whenever it leaves an *)
(* interrupt or a trap, and executes the guest's wait for an interrupt     *)
(* (WFI), which yields some times and then pauses the VCPU; asserts and a  *)
(* timer resume it through a call on its host CPU, which may come late.    *)
(* There are no locks around the lines: every access is an atomic step.    *)
(* Lines have one priority and are injected by setting a bit of hvip, as   *)
(* in the RISC-V port, but injections may fail and more than one line may  *)
(* or may not be processed in turn, as in others.                          *)
(* State changes of the VCPU are those of Scheduler, seen from outside.    *)
(***************************************************************************)
EXTENDS Integers, FiniteSets

CONSTANTS Irqs,         \* arch_vcpu_irq_count(): the lines are 0 .. Irqs - 1
          YieldThreshold, \* WFI_YIELD_THRESHOLD
          MaxPending,   \* bound on execute_pending
          MaxCalls,     \* bound on calls under way to the host CPU of the VCPU
          MaxFails      \* bound on injections that fail

Irq == 0 .. Irqs - 1

ASSUME VcpuIrqAssumption ==
    /\ Irqs \in Nat \ {0} /\ YieldThreshold \in Nat
    /\ MaxPending \in Nat /\ MaxCalls \in Nat /\ MaxFails \in Nat

VARIABLES state, resumed, current,      \* of the VCPU, as in Scheduler
          assert,                       \* irqs.irq[i].assert
          execute_pending,
          wfi_state, yield_count, timer, \* irqs.wfi, timer: its event is active
          hvip,                         \* the lines injected into the VCPU
          source,                       \* stage of the source of each line
          trap, line,         \* stage and local of its host CPU
          calls,                        \* vcpu_irq_wfi_resume calls under way, by cause
          expired,                      \* vcpu_irq_wfi_timeout is under way
          resuming,                     \* vmm_manager_vcpu_resume calls to come
          fails,
          want, held                    \* history, see the properties
vcpuVars == <<state, resumed, current>>
irqVars == <<assert, execute_pending>>
wfiVars == <<wfi_state, yield_count, timer>>
cpuVars == <<trap, line>>
wakeVars == <<calls, expired, resuming>>
vars == <<vcpuVars, irqVars, wfiVars, hvip, source, cpuVars, wakeVars, fails, want, held>>

Cause == {"assert", "timeout"}
Interruptible == {"READY", "RUNNING", "PAUSED"}

Init ==
    /\ state = "RESET" /\ resumed = FALSE /\ current = FALSE
    /\ assert = [i \in Irq |-> "DEASSERTED"] /\ execute_pending = 0
    /\ wfi_state = FALSE /\ yield_count = 0 /\ timer = FALSE
    /\ hvip = {}
    /\ source = [i \in Irq |-> "idle"]
    /\ trap = "guest" /\ line = 0
    /\ calls = [w \in Cause |-> 0] /\ expired = FALSE /\ resuming = 0
    /\ fails = 0
    /\ want = [i \in Irq |-> FALSE] /\ held = FALSE

-----------------------------------------------------------------------------
(* vmm_vcpu_irq_assert by the source of a line: the look at the state of   *)
(* the VCPU, the exchange of the line, the count, the call                 *)
AssertBegin(i) ==
    /\ source[i] = "idle" /\ state \in Interruptible
    /\ execute_pending + Cardinality({j \in Irq : source[j] # "idle"}) < MaxPending
    /\ source' = [source EXCEPT ![i] = "exchange"]
    /\ UNCHANGED <<vcpuVars, irqVars, wfiVars, hvip, cpuVars, wakeVars, fails, want, held>>
AssertExchange(i) ==
    /\ source[i] = "exchange"
    /\ want' = [want EXCEPT ![i] = TRUE]
    /\ IF assert[i] = "DEASSERTED"
       THEN /\ assert' = [assert EXCEPT ![i] = "ASSERTED"]
            /\ source' = [source EXCEPT ![i] = "count"]
       ELSE /\ source' = [source EXCEPT ![i] = "idle"]
            /\ UNCHANGED assert
    /\ UNCHANGED <<vcpuVars, execute_pending, wfiVars, hvip, cpuVars, wakeVars, fails, held>>
AssertCount(i) ==
    /\ source[i] = "count"
    /\ execute_pending' = execute_pending + 1
    /\ source' = [source EXCEPT ![i] = "call"]
    /\ UNCHANGED <<vcpuVars, assert, wfiVars, hvip, cpuVars, wakeVars, fails, want, held>>
(* vmm_manager_vcpu_hcpu_func, of an assert and of vcpu_irq_wfi_timeout *)
(* mutant: a paused VCPU is not called *)
CallReady(cause) ==
    /\ calls[cause] < MaxCalls
    /\ calls' = IF state \in {"READY", "RUNNING"} THEN [calls EXCEPT ![cause] = @ + 1] ELSE calls
CallResume(cause) ==
    /\ calls[cause] < MaxCalls
    /\ calls' = IF state \in Interruptible THEN [calls EXCEPT ![cause] = @ + 1] ELSE calls
AssertCall(i) ==
    /\ source[i] = "call"
    /\ CallResume("assert")
    /\ source' = [source EXCEPT ![i] = "idle"]
    /\ UNCHANGED <<vcpuVars, irqVars, wfiVars, hvip, cpuVars, expired, resuming, fails, want, held>>

(* vmm_vcpu_irq_wait_resume, by an emulator that is not a source *)
WaitResume ==
    /\ CallResume("assert")
    /\ UNCHANGED <<vcpuVars, irqVars, wfiVars, hvip, source, cpuVars, expired, resuming, fails, want, held>>

(* vmm_vcpu_irq_deassert *)
Deassert(i) ==
    /\ source[i] = "idle"
    /\ assert' = [assert EXCEPT ![i] = "DEASSERTED"]
    /\ want' = [want EXCEPT ![i] = FALSE]
    /\ UNCHANGED <<vcpuVars, execute_pending, wfiVars, hvip, source, cpuVars, wakeVars, fails, held>>

-----------------------------------------------------------------------------
(* vmm_scheduler_irq_exit of the host CPU whose current VCPU this is: the  *)
(* VCPU is switched out, or its interrupts are processed: ProcessOne takes *)
(* a count, Scan looks for an asserted line, Exchange takes the line,      *)
(* Execute injects it and Executed or Failed give the line back.           *)
Interrupt ==
    /\ current /\ trap = "guest"
    /\ trap' = "exit"
    /\ UNCHANGED <<vcpuVars, irqVars, wfiVars, hvip, source, line, wakeVars, fails, want, held>>
SwitchOut ==
    /\ trap = "exit"
    /\ current' = FALSE /\ trap' = "guest"
    /\ state' = IF state = "RUNNING" THEN "READY" ELSE state
    /\ UNCHANGED <<resumed, irqVars, wfiVars, hvip, source, line, wakeVars, fails, want, held>>
Stay ==
    /\ trap = "exit" /\ state = "RUNNING"
    /\ trap' = "process"
    /\ UNCHANGED <<vcpuVars, irqVars, wfiVars, hvip, source, line, wakeVars, fails, want, held>>
Dispatch ==
    /\ state = "READY" /\ ~current
    /\ state' = "RUNNING" /\ current' = TRUE /\ resumed' = FALSE
    /\ trap' = "process"
    /\ UNCHANGED <<irqVars, wfiVars, hvip, source, line, wakeVars, fails, want, held>>

Process ==
    /\ trap = "process"
    /\ trap' = IF state \in Interruptible THEN "one" ELSE "guest"
    /\ UNCHANGED <<vcpuVars, irqVars, wfiVars, hvip, source, line, wakeVars, fails, want, held>>
(* arch_vcpu_irq_can_execute_multiple says whether process goes on *)
Again == {"one", "guest"}
ProcessOne ==
    /\ trap = "one"
    /\ IF execute_pending > 0
       THEN execute_pending' = execute_pending - 1 /\ trap' = "scan"
       ELSE trap' = "guest" /\ UNCHANGED execute_pending
    /\ UNCHANGED <<vcpuVars, assert, wfiVars, hvip, source, line, wakeVars, fails, want, held>>
Scan ==
    /\ trap = "scan"
    /\ \/ assert[line] = "ASSERTED" /\ trap' = "exchange" /\ UNCHANGED line
       \/ assert[line] # "ASSERTED" /\ line + 1 < Irqs /\ line' = line + 1 /\ UNCHANGED trap
       \/ assert[line] # "ASSERTED" /\ line + 1 = Irqs /\ trap' = "guest" /\ line' = 0
    /\ UNCHANGED <<vcpuVars, irqVars, wfiVars, hvip, source, wakeVars, fails, want, held>>
Exchange ==
    /\ trap = "exchange"
    /\ IF assert[line] = "ASSERTED"
       THEN /\ assert' = [assert EXCEPT ![line] = "PENDING"]
            /\ trap' = "execute" /\ UNCHANGED line
       ELSE trap' \in Again /\ line' = 0 /\ UNCHANGED assert
    /\ UNCHANGED <<vcpuVars, execute_pending, wfiVars, hvip, source, wakeVars, fails, want, held>>
Execute ==
    /\ trap = "execute"
    /\ \/ hvip' = hvip \cup {line} /\ trap' = "executed" /\ UNCHANGED fails
       \/ fails < MaxFails /\ fails' = fails + 1 /\ trap' = "failed" /\ UNCHANGED hvip
    /\ UNCHANGED <<vcpuVars, irqVars, wfiVars, source, line, wakeVars, want, held>>
Executed ==
    /\ trap = "executed"
    /\ assert' = [assert EXCEPT ![line] = "DEASSERTED"]
    /\ trap' \in Again /\ line' = 0
    /\ UNCHANGED <<vcpuVars, execute_pending, wfiVars, hvip, source, wakeVars, fails, want, held>>
(* mutant: a failed injection does not give its count back *)
FailedUncounted ==
    /\ trap = "failed"
    /\ UNCHANGED execute_pending
    /\ trap' = "undo"
    /\ UNCHANGED <<vcpuVars, assert, wfiVars, hvip, source, line, wakeVars, fails, want, held>>
Failed ==
    /\ trap = "failed"
    /\ execute_pending' = execute_pending + 1
    /\ trap' = "undo"
    /\ UNCHANGED <<vcpuVars, assert, wfiVars, hvip, source, line, wakeVars, fails, want, held>>
Undo ==
    /\ trap = "undo"
    /\ assert' = [assert EXCEPT ![line] = "ASSERTED"]
    /\ trap' \in Again /\ line' = 0
    /\ UNCHANGED <<vcpuVars, execute_pending, wfiVars, hvip, source, wakeVars, fails, want, held>>

(* vmm_vcpu_irq_clear by a trap of the guest that handles an interrupt *)
Clear(i) ==
    /\ current /\ trap = "guest" /\ i \in hvip
    /\ hvip' = hvip \ {i}
    /\ trap' = "cleared" /\ line' = i
    /\ UNCHANGED <<vcpuVars, irqVars, wfiVars, source, wakeVars, fails, want, held>>
Cleared ==
    /\ trap = "cleared"
    /\ assert' = [assert EXCEPT ![line] = "DEASSERTED"]
    /\ want' = [want EXCEPT ![line] = FALSE]
    /\ trap' = "exit" /\ line' = 0
    /\ UNCHANGED <<vcpuVars, execute_pending, wfiVars, hvip, source, wakeVars, fails, held>>

-----------------------------------------------------------------------------
(* vmm_vcpu_irq_wait_timeout: the first look, the decision under wfi.lock, *)
(* the second look, and the pause or its cancellation                      *)
Pending == execute_pending > 0 \/ hvip # {}
Wfi ==
    /\ current /\ trap = "guest"
    /\ trap' = IF Pending THEN "awake" ELSE "idle"
    /\ UNCHANGED <<vcpuVars, irqVars, wfiVars, hvip, source, line, wakeVars, fails, want, held>>
Wait ==
    /\ \/ /\ trap = "awake"
          /\ yield_count' = 0 /\ trap' = "exit"
          /\ UNCHANGED <<wfi_state, timer>>
       \/ /\ trap = "idle" /\ yield_count < YieldThreshold
          /\ yield_count' = yield_count + 1 /\ trap' = "exit"
          /\ UNCHANGED <<wfi_state, timer>>
       \/ /\ trap = "idle" /\ yield_count >= YieldThreshold /\ ~wfi_state
          /\ wfi_state' = TRUE /\ timer' = TRUE /\ trap' = "recheck"
          /\ UNCHANGED yield_count
       \/ /\ trap = "idle" /\ yield_count >= YieldThreshold /\ wfi_state
          /\ trap' = "exit"
          /\ UNCHANGED wfiVars
    /\ UNCHANGED <<vcpuVars, irqVars, hvip, source, line, wakeVars, fails, want, held>>
(* mutant: no second look before the pause *)
RecheckSkipped ==
    /\ trap = "recheck"
    /\ trap' = "pause"
    /\ UNCHANGED <<vcpuVars, irqVars, wfiVars, hvip, source, line, wakeVars, fails, want, held>>
Recheck ==
    /\ trap = "recheck"
    /\ trap' = IF Pending THEN "cancel" ELSE "pause"
    /\ UNCHANGED <<vcpuVars, irqVars, wfiVars, hvip, source, line, wakeVars, fails, want, held>>
(* mutant: the cancelled wait leaves wfi.state set *)
CancelTimerOnly ==
    /\ trap = "cancel"
    /\ yield_count' = 0 /\ UNCHANGED wfi_state /\ timer' = FALSE
    /\ trap' = "exit"
    /\ UNCHANGED <<vcpuVars, irqVars, hvip, source, line, wakeVars, fails, want, held>>
Cancel ==
    /\ trap = "cancel"
    /\ yield_count' = 0 /\ wfi_state' = FALSE /\ timer' = FALSE
    /\ trap' = "exit"
    /\ UNCHANGED <<vcpuVars, irqVars, hvip, source, line, wakeVars, fails, want, held>>

(* The cases of vmm_scheduler_state_change *)
ToReady ==
    /\ state' = IF state \in {"RESET", "PAUSED"} THEN "READY" ELSE state
    /\ resumed' = (resumed \/ state = "RUNNING")
(* mutant: the resumed flag is ignored *)
ToPausedAlways ==
    /\ resumed' = FALSE
    /\ state' = IF state \in {"READY", "RUNNING"} THEN "PAUSED" ELSE state
ToPaused ==
    /\ resumed' = IF state \in {"READY", "RUNNING"} THEN FALSE ELSE resumed
    /\ state' = IF state \in {"READY", "RUNNING"} /\ ~resumed THEN "PAUSED" ELSE state
WfiPause ==
    /\ trap = "pause"
    /\ ToPaused
    /\ trap' = "exit"
    /\ UNCHANGED <<current, irqVars, wfiVars, hvip, source, line, wakeVars, fails, want, held>>

(* The timer expires, vcpu_irq_wfi_timeout, vcpu_irq_wfi_resume on a host  *)
(* CPU, and the resume it ends with                                        *)
TimerExpires ==
    /\ timer /\ ~expired
    /\ timer' = FALSE /\ expired' = TRUE
    /\ UNCHANGED <<vcpuVars, irqVars, wfi_state, yield_count, hvip, source, cpuVars, calls, resuming, fails, want, held>>
WfiTimeout ==
    /\ expired /\ expired' = FALSE
    /\ CallResume("timeout")
    /\ UNCHANGED <<vcpuVars, irqVars, wfiVars, hvip, source, cpuVars, resuming, fails, want, held>>
WfiResume(cause) ==
    /\ calls[cause] > 0 /\ resuming < MaxCalls
    /\ calls' = [calls EXCEPT ![cause] = @ - 1]
    /\ yield_count' = IF cause = "assert" THEN 0 ELSE yield_count
    /\ wfi_state' = FALSE
    /\ timer' = (timer /\ ~wfi_state)
    /\ resuming' = resuming + (IF wfi_state THEN 1 ELSE 0)
    /\ UNCHANGED <<vcpuVars, irqVars, hvip, source, cpuVars, expired, fails, want, held>>
WfiResumed ==
    /\ resuming > 0 /\ resuming' = resuming - 1
    /\ ToReady
    /\ UNCHANGED <<current, irqVars, wfiVars, hvip, source, cpuVars, calls, expired, fails, want, held>>

(* The manager's requests: pause, resume or kick, halt, reset with the     *)
(* vmm_vcpu_irq_init and arch_vcpu_init it ends with                       *)
Pause ==
    /\ ToPaused
    /\ held' = (state \in Interruptible)
    /\ UNCHANGED <<current, irqVars, wfiVars, hvip, source, cpuVars, wakeVars, fails, want>>
Resume ==
    /\ ToReady
    /\ held' = (held /\ current)
    /\ UNCHANGED <<current, irqVars, wfiVars, hvip, source, cpuVars, wakeVars, fails, want>>
Halt ==
    /\ state \in {"READY", "RUNNING"}
    /\ state' = "HALTED" /\ resumed' = FALSE
    /\ UNCHANGED <<current, irqVars, wfiVars, hvip, source, cpuVars, wakeVars, fails, want, held>>
Reset ==
    /\ state # "RESET" /\ (current => trap = "guest")
    /\ state' = "RESET" /\ resumed' = FALSE
    /\ execute_pending' = 0 /\ assert' = [i \in Irq |-> "DEASSERTED"]
    /\ yield_count' = 0 /\ wfi_state' = FALSE /\ timer' = FALSE
    /\ hvip' = {}
    /\ want' = [i \in Irq |-> FALSE] /\ held' = FALSE
    /\ trap' = IF current THEN "exit" ELSE trap
    /\ UNCHANGED <<current, source, line, wakeVars, fails>>

-----------------------------------------------------------------------------
SourceStep(i) == AssertExchange(i) \/ AssertCount(i) \/ AssertCall(i)
ProcessStep ==
    \/ Process \/ ProcessOne \/ Scan \/ Exchange \/ Execute \/ Executed \/ Failed \/ Undo \/ Cleared
    \/ Wait \/ Recheck \/ Cancel \/ WfiPause
Next ==
    \/ \E i \in Irq : AssertBegin(i) \/ SourceStep(i) \/ Deassert(i) \/ Clear(i)
    \/ Interrupt \/ SwitchOut \/ Stay \/ Dispatch \/ ProcessStep \/ Wfi
    \/ WaitResume \/ TimerExpires \/ WfiTimeout \/ \E cause \in Cause : WfiResume(cause)
    \/ WfiResumed \/ Pause \/ Resume \/ Halt \/ Reset

(* Sources, host CPUs and calls finish what they began; a host CPU keeps   *)
(* taking interrupts and the scheduler keeps dispatching a ready VCPU.     *)
(* Nothing is assumed of the timer or of the manager.                      *)
Spec ==
    /\ Init /\ [][Next]_vars
    /\ \A i \in Irq : WF_vars(SourceStep(i))
    /\ WF_vars(ProcessStep) /\ WF_vars(Interrupt) /\ WF_vars(SwitchOut \/ Stay)
    /\ WF_vars(Dispatch) /\ WF_vars(WfiResume("assert")) /\ WF_vars(WfiResumed)

-----------------------------------------------------------------------------
TypeOK ==
    /\ state \in {"RESET", "READY", "RUNNING", "PAUSED", "HALTED"}
    /\ resumed \in BOOLEAN /\ current \in BOOLEAN
    /\ assert \in [Irq -> {"DEASSERTED", "ASSERTED", "PENDING"}]
    /\ execute_pending \in 0 .. MaxPending + 1
    /\ wfi_state \in BOOLEAN /\ yield_count \in 0 .. YieldThreshold /\ timer \in BOOLEAN
    /\ hvip \subseteq Irq
    /\ source \in [Irq -> {"idle", "exchange", "count", "call"}]
    /\ line \in Irq
    /\ calls \in [Cause -> 0 .. MaxCalls] /\ expired \in BOOLEAN /\ resuming \in Nat
    /\ fails \in 0 .. MaxFails /\ want \in [Irq -> BOOLEAN] /\ held \in BOOLEAN
    /\ (trap # "guest" => current)

(* A line that stays asserted is counted: there are never more asserted    *)
(* lines than counts in execute_pending, counts its sources are about to   *)
(* add and the count the host CPU has just taken.  Otherwise process       *)
(* finds no count, and the wait for an interrupt sleeps over the line.     *)
AssertsCounted ==
    Cardinality({i \in Irq : assert[i] = "ASSERTED"}) <=
        execute_pending + Cardinality({i \in Irq : source[i] = "count"})
        + (IF trap \in {"scan", "exchange"} THEN 1 ELSE 0)

(* An interrupt is not lost between its source and the guest: from the     *)
(* assert until the source deasserts or the guest has cleared the line,    *)
(* the line is asserted, being injected, injected, or being cleared.       *)
InterruptKept ==
    \A i \in Irq :
        want[i] => assert[i] # "DEASSERTED" \/ i \in hvip \/ (trap = "cleared" /\ line = i)

(* Both, so that process finds every line it is to inject and no other.    *)
LinesKept == TypeOK /\ AssertsCounted /\ InterruptKept

(* No wakeup is lost: when the VCPU sleeps in a wait for an interrupt and  *)
(* one is pending, its source is about to call the host CPU of the VCPU,   *)
(* or has called it.  The timer of the wait is not what rescues it.        *)
NoLostWakeup ==
    state = "PAUSED" /\ trap \notin {"recheck", "cancel", "pause"} /\ wfi_state /\ Pending =>
        (\E i \in Irq : source[i] = "call") \/ calls["assert"] > 0

(* A VCPU that its wait paused is never forgotten: it is in the wait, so   *)
(* that an interrupt or the timer resumes it, or a resume is under way.    *)
SleeperKnown == state = "PAUSED" /\ ~held => wfi_state \/ resuming > 0

(* Both, so that an interrupt never leaves the VCPU asleep.                *)
SleeperWoken == NoLostWakeup /\ SleeperKnown

(* The wait is always bounded in time: while a VCPU that is not halted is  *)
(* in the wait, its timer runs or the timeout is being handled.            *)
WaitBounded == wfi_state /\ state # "HALTED" => timer \/ expired \/ calls["timeout"] > 0

(* An asserted line is injected or withdrawn, unless the manager pauses,   *)
(* halts or resets the VCPU.                                               *)
InterruptReaches ==
    \A i \in Irq : assert[i] = "ASSERTED" ~> (assert[i] # "ASSERTED" \/ held \/ state \in {"HALTED", "RESET"})
=============================================================================
