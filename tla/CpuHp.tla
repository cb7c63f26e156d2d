------------------------------- MODULE CpuHp --------------------------------
(***************************************************************************)
(* CPU hotplug notifiers (core/vmm_cpuhp.c) while host CPUs come up.  A    *)
(* CPU that goes to VMM_CPUHP_STATE_ONLINE starts the notifiers registered *)
(* by then; vmm_cpuhp_register starts a new one on the CPUs that are       *)
(* online, here the boot CPU, and by asynchronous calls (SmpCalls) on the  *)
(* others.  vmm_cpuhp_set_state holds notify_lock and the lock of its CPU  *)
(* to the end, so it is one step.  Nobody calls it to lower a state, or    *)
(* calls vmm_cpuhp_unregister.                                             *)
(***************************************************************************)
EXTENDS Integers, List

CONSTANTS CpuCount,             \* CONFIG_CPU_COUNT; CPU 0 boots first
          Notify, NoNotify,
          OnlineNotify,         \* scheduler_cpuhp, which marks its CPU online
          level                 \* chpn->state of each notifier

ConstantsOK ==
    /\ CpuCount \in Nat \ {0} /\ NoNotify \notin Notify /\ OnlineNotify \in Notify
    /\ level \in [Notify -> Nat]

CPU == 0 .. CpuCount - 1

VARIABLES up,           \* the CPUs at VMM_CPUHP_STATE_ONLINE, the others are OFFLINE
          online,       \* the mask of online CPUs
          notify_list,
          registering,  \* the notifier that vmm_cpuhp_register is called with
          next,         \* the CPU it looks at next
          ipi,          \* calls of cpuhp_register_sync under way to each CPU
          started,      \* history: the notifiers started on each CPU
          failed        \* history: the CPUs on which a startup failed
vars == <<up, online, notify_list, registering, next, ipi, started, failed>>

(* The boot CPU is up and has registered the notifier of the scheduler. *)
Init ==
    /\ up = {0} /\ online = {0}
    /\ notify_list = <<OnlineNotify>>
    /\ registering = NoNotify /\ next = 0
    /\ ipi = [c \in CPU |-> {}]
    /\ started = [c \in CPU |-> IF c = 0 THEN {OnlineNotify} ELSE {}]
    /\ failed = {}

Start(c, N) ==
    /\ started' = [started EXCEPT ![c] = @ \cup N]
    /\ online' = IF OnlineNotify \in N THEN online \cup {c} ELSE online

(* vmm_cpuhp_set_state(VMM_CPUHP_STATE_ONLINE): the notifiers in the order *)
(* of the list, up to one that fails; the state is set in any case         *)
SetState(c) ==
    /\ c \notin up
    /\ up' = up \cup {c}
    /\ \E n \in 0 .. Len(notify_list) :
         /\ Start(c, {notify_list[i] : i \in 1 .. n})
         /\ failed' = IF n < Len(notify_list) THEN failed \cup {c} ELSE failed
    /\ UNCHANGED <<notify_list, registering, next, ipi>>

(* vmm_cpuhp_register on CPU 0: the list, sorted by the states of the      *)
(* notifiers, the startup here, and then, CPU by CPU, a call to those that *)
(* are online                                                              *)
Register(n) ==
    /\ registering = NoNotify /\ n \notin Linked(notify_list)
    /\ notify_list' = AddSorted(notify_list, n, level)
    /\ registering' = n /\ next' = 0
    /\ UNCHANGED <<up, online, ipi, started, failed>>
StartHere ==
    /\ registering # NoNotify /\ next = 0
    /\ Start(0, {registering})
    /\ next' = 1
    /\ UNCHANGED <<up, notify_list, registering, ipi, failed>>
(* mutant: the last CPU is left out *)
LookAtMost(c) == c \in online /\ c < CpuCount - 1
Calls(c) == c \in online
LookAt ==
    /\ registering # NoNotify /\ next \in 1 .. CpuCount - 1
    /\ ipi' = IF Calls(next) THEN [ipi EXCEPT ![next] = @ \cup {registering}] ELSE ipi
    /\ next' = next + 1
    /\ UNCHANGED <<up, online, notify_list, registering, started, failed>>
Registered ==
    /\ registering # NoNotify /\ next = CpuCount
    /\ registering' = NoNotify /\ next' = 0
    /\ UNCHANGED <<up, online, notify_list, ipi, started, failed>>

(* cpuhp_register_sync, on the CPU called *)
RegisterSync(c, n) ==
    /\ n \in ipi[c]
    /\ ipi' = [ipi EXCEPT ![c] = @ \ {n}]
    /\ Start(c, {n})
    /\ UNCHANGED <<up, notify_list, registering, next, failed>>

Next ==
    \/ \E c \in CPU : SetState(c) \/ \E n \in Notify : RegisterSync(c, n)
    \/ \E n \in Notify : Register(n)
    \/ StartHere \/ LookAt \/ Registered

Spec == Init /\ [][Next]_vars

-----------------------------------------------------------------------------
TypeOK ==
    /\ up \subseteq CPU /\ online \subseteq up /\ failed \subseteq up
    /\ notify_list \in Seq(Notify) /\ Once(notify_list) /\ Sorted(notify_list, level)
    /\ registering \in Notify \cup {NoNotify} /\ next \in 0 .. CpuCount
    /\ ipi \in [CPU -> SUBSET Notify] /\ started \in [CPU -> SUBSET Notify]

(* No CPU misses a notifier, whether it comes up before, during or after   *)
(* the registration: once vmm_cpuhp_register has returned, the notifier    *)
(* has been started on every CPU that is up, or a call to do so is under   *)
(* way, unless the startup of the CPU failed.                              *)
NoneMissed ==
    \A n \in Linked(notify_list) \ {registering} : \A c \in up \ failed :
        n \in started[c] \cup ipi[c]

=============================================================================
