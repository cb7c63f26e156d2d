--------------------------- MODULE VcpuIrqProofs ----------------------------
(***************************************************************************)
(* Proofs about VcpuIrq, for any number of interrupt lines and any bounds. *)
(***************************************************************************)
EXTENDS VcpuIrq, FiniteSetTheorems, TLAPS

Traps == {"guest", "exit", "process", "one", "scan", "exchange", "execute", "executed", "failed", "undo",
          "cleared", "awake", "idle", "recheck", "cancel", "pause"}
Interrupted == {"scan", "exchange", "execute", "failed"}    \* a count is taken, its line not yet injected

Taken == IF trap \in Interrupted THEN 1 ELSE 0

Asserted == {i \in Irq : assert[i] = "ASSERTED"}
Counting == {i \in Irq : source[i] = "count"}
Working == {i \in Irq : source[i] \in {"exchange", "count"}}
Passed == {i \in Irq : i < line /\ assert[i] = "ASSERTED"}

(* The stages of the host CPU and the line it works on.                    *)
Stages ==
    /\ TypeOK /\ trap \in Traps
    /\ trap \notin {"scan", "exchange", "execute", "executed", "failed", "undo", "cleared"} => line = 0
    /\ trap = "executed" => line \in hvip

(* The bound on execute_pending: the count that a failed injection gives   *)
(* back may be one more than sources are allowed to add.                   *)
StageInv == Stages /\ execute_pending + Cardinality(Working) + Taken <= MaxPending + 1

(* The count that the host CPU has taken may be dropped when the scan      *)
(* finds no line or the exchange finds that the line was deasserted: the   *)
(* lines that the scan has passed, and the other lines, have counts of     *)
(* their own.  A failed injection has given its count back already.        *)
CountInv ==
    /\ AssertsCounted
    /\ trap = "scan" => Cardinality(Passed) <= execute_pending + Cardinality(Counting)
    /\ trap = "exchange" => Cardinality(Asserted \ {line}) <= execute_pending + Cardinality(Counting)
    /\ trap = "undo" => Cardinality(Asserted \ {line}) + 1 <= execute_pending + Cardinality(Counting)

(* A VCPU that is reset waits for nothing, and its host CPU leaves it.     *)
ResetInv == state = "RESET" => ~wfi_state /\ (current => trap = "exit")

(* A host CPU that executes the VCPU finds it in another state than        *)
(* RUNNING only if the manager has stopped it.                             *)
BusyInv ==
    current /\ trap # "exit" =>
        state = "RUNNING" \/ state = "HALTED" \/ (held /\ state # "RESET")

(* Before the wait pauses the VCPU it is in the wait, or a resume is under *)
(* way, or the resume was noted and prevents the pause.                    *)
PausingInv ==
    trap \in {"recheck", "pause"} =>
        wfi_state \/ resuming > 0 \/ (resumed /\ state = "RUNNING") \/ held \/ state = "HALTED"

(* After the second look an interrupt that turns up in the wait is one     *)
(* whose source calls the host CPU of the VCPU.                            *)
CallInv ==
    wfi_state /\ trap \notin {"recheck", "cancel"} /\ state # "HALTED" /\ (Pending \/ trap \in Interrupted) =>
        (\E i \in Irq : source[i] = "call") \/ calls["assert"] > 0

WaitInv == ResetInv /\ BusyInv /\ PausingInv /\ CallInv /\ SleeperKnown /\ WaitBounded

VcpuIrqInv == StageInv /\ CountInv /\ InterruptKept /\ WaitInv

-----------------------------------------------------------------------------
(* Subsets of the lines have a cardinality, which one element changes by   *)
(* at most one.                                                            *)
LEMMA Lines ==
  /\ Cardinality({}) = 0
  /\ \A S \in SUBSET Irq : Cardinality(S) \in Nat
  /\ \A S \in SUBSET Irq : \A T \in SUBSET S : Cardinality(T) <= Cardinality(S)
  /\ \A S \in SUBSET Irq, i \in Irq : i \notin S => Cardinality(S \cup {i}) = Cardinality(S) + 1
  /\ \A S \in SUBSET Irq, i \in Irq : i \in S => Cardinality(S \ {i}) = Cardinality(S) - 1
<1>1. IsFiniteSet(Irq) BY FS_Interval, VcpuIrqAssumption DEF Irq
<1>2. ASSUME NEW S \in SUBSET Irq PROVE IsFiniteSet(S) /\ Cardinality(S) \in Nat
  BY <1>1, FS_Subset, FS_CardinalityType, Zenon
<1>3. ASSUME NEW S \in SUBSET Irq, NEW T \in SUBSET S PROVE Cardinality(T) <= Cardinality(S)
  BY <1>2, FS_Subset, Zenon
<1>4. ASSUME NEW S \in SUBSET Irq, NEW i \in Irq, i \notin S PROVE Cardinality(S \cup {i}) = Cardinality(S) + 1
  BY <1>2, <1>4, FS_AddElement, Zenon
<1>5. ASSUME NEW S \in SUBSET Irq, NEW i \in Irq, i \in S PROVE Cardinality(S \ {i}) = Cardinality(S) - 1
  BY <1>2, <1>5, FS_RemoveElement, Zenon
<1> QED BY <1>2, <1>3, <1>4, <1>5, FS_EmptySet, Zenon

(* Nothing is asserted, counted or waited for before the VCPU starts. *)
LEMMA InitInv == Init => VcpuIrqInv
<1> SUFFICES ASSUME Init PROVE VcpuIrqInv
  BY Zenon
<1>1. Asserted = {} /\ Counting = {} /\ Working = {} BY Zenon DEF Init, Asserted, Counting, Working
<1>2. 0 \in Irq BY VcpuIrqAssumption DEF Irq
<1>3. StageInv
  <2>1. 0 \in 0 .. MaxPending + 1 /\ 0 \in 0 .. YieldThreshold /\ 0 \in 0 .. MaxCalls /\ 0 \in 0 .. MaxFails
    BY VcpuIrqAssumption
  <2>4. calls \in [Cause -> 0 .. MaxCalls] BY <2>1, Zenon DEF Init
  <2>5. TypeOK BY <1>2, <2>1, <2>4, Zenon DEF Init, TypeOK
  <2>2. Taken = 0 BY Zenon DEF Init, Taken, Interrupted
  <2>3. execute_pending + Cardinality(Working) + Taken <= MaxPending + 1
    BY <1>1, <2>2, Lines, VcpuIrqAssumption DEF Init
  <2> QED BY <2>5, <2>3, Zenon DEF Init, StageInv, Stages, Traps
<1>4. CountInv BY <1>1, Lines DEF Init, CountInv, AssertsCounted, Asserted, Counting
<1>5. InterruptKept BY Zenon DEF Init, InterruptKept
<1>6. WaitInv
  BY Zenon DEF Init, WaitInv, ResetInv, BusyInv, PausingInv, CallInv, SleeperKnown, WaitBounded, Pending, Interrupted, Cause
<1> QED BY <1>3, <1>4, <1>5, <1>6, Zenon DEF VcpuIrqInv

-----------------------------------------------------------------------------
(***************************************************************************)
(* The steps that change no line, count or source, and those that do.      *)
(***************************************************************************)
Quiet == UNCHANGED <<assert, execute_pending, source>>

QuietStep ==
    \/ Interrupt \/ SwitchOut \/ Stay \/ Dispatch \/ Process \/ Wfi \/ Wait \/ Recheck \/ Cancel \/ WfiPause
    \/ WaitResume \/ TimerExpires \/ WfiTimeout \/ (\E cause \in Cause : WfiResume(cause))
    \/ WfiResumed \/ Pause \/ Resume \/ Halt

(* Steps of the VCPU, of its timer, of calls and of the manager, and those *)
(* of the host CPU that only decide what it does next.                     *)
LEMMA QuietSteps ==
  ASSUME Stages, QuietStep
  PROVE  /\ Quiet /\ UNCHANGED <<line, hvip, want>>
         /\ \/ trap' = trap
            \/ /\ trap \in {"guest", "exit", "process", "awake", "idle", "recheck", "cancel", "pause"}
               /\ trap' \in {"guest", "exit", "process", "one", "awake", "idle", "recheck", "cancel", "pause"}
<1>1. CASE Interrupt \/ SwitchOut \/ Stay \/ Process \/ Wfi \/ Recheck \/ Cancel \/ WfiPause
  BY <1>1, Zenon DEF Interrupt, SwitchOut, Stay, Process, Wfi, Recheck, Cancel, WfiPause, Quiet, irqVars
<1>2. CASE Dispatch
  <2>1. trap = "guest" BY <1>2, Zenon DEF Dispatch, StageInv, Stages, TypeOK
  <2> QED BY <1>2, <2>1, Zenon DEF Dispatch, Quiet, irqVars
<1>3. CASE Wait BY <1>3, Zenon DEF Wait, Quiet, irqVars
<1>4. CASE WaitResume \/ TimerExpires \/ WfiTimeout \/ (\E cause \in Cause : WfiResume(cause))
  BY <1>4, Zenon DEF WaitResume, TimerExpires, WfiTimeout, WfiResume, Quiet, irqVars, cpuVars
<1>5. CASE WfiResumed \/ Pause \/ Resume \/ Halt
  BY <1>5, Zenon DEF WfiResumed, Pause, Resume, Halt, Quiet, irqVars, cpuVars
<1> QED BY <1>1, <1>2, <1>3, <1>4, <1>5, Zenon DEF QuietStep

(* A source that goes on with its assert, or deasserts its line, leaves    *)
(* the host CPU of the VCPU alone.                                         *)
LEMMA SourceSteps ==
  ASSUME NEW i \in Irq, AssertBegin(i) \/ SourceStep(i) \/ Deassert(i)
  PROVE  UNCHANGED <<trap, line, hvip>>
  BY Zenon DEF AssertBegin, SourceStep, AssertExchange, AssertCount, AssertCall, Deassert, cpuVars

(* Sums of smaller numbers are smaller. *)
LEMMA SmallerSum == \A a, b, x, y \in Nat : x <= a /\ y <= b => x + y <= a + b
  OBVIOUS

(* What a step adds to one part of a sum it takes from another. *)
LEMMA BoundedSum ==
  \A a, b, c, x, y, z, m \in Nat : a + b + c <= m /\ x + z <= a + c /\ y <= b => x + y + z <= m
  OBVIOUS

(* execute_pending stays within its bound: each count that is added was    *)
(* announced by a source, or was taken by the host CPU before.             *)
LEMMA Bounded ==
  ASSUME StageInv, [Next]_vars
  PROVE  /\ execute_pending' \in Nat
         /\ execute_pending' + Cardinality(Working)' + Taken' <= MaxPending + 1
<1> DEFINE p == execute_pending
           n == Cardinality(Working)
<1>t. p \in Nat /\ MaxPending \in Nat /\ source \in [Irq -> {"idle", "exchange", "count", "call"}]
  BY VcpuIrqAssumption DEF StageInv, Stages, TypeOK
<1>n. Working \in SUBSET Irq /\ n \in Nat BY Lines, Zenon DEF Working
<1>k. /\ Taken \in Nat /\ Taken <= 1
      /\ Taken' \in Nat /\ Taken' <= 1
  BY DEF Taken
<1>i. p + n + Taken <= MaxPending + 1 BY Zenon DEF StageInv
<1> SUFFICES p' \in Nat /\ p' + n' + Taken' <= MaxPending + 1
  BY Zenon
<1> HIDE DEF n
<1>1. ASSUME NEW i \in Irq, AssertBegin(i)
      PROVE  p' \in Nat /\ p' + n' + Taken' <= MaxPending + 1
  <2> DEFINE B == {j \in Irq : source[j] # "idle"}
  <2>1. p' = p /\ Taken' = Taken BY <1>1, SourceSteps, Zenon DEF AssertBegin, irqVars, Taken
  <2>2. i \notin Working /\ Working' = Working \cup {i} BY <1>1, <1>t, Zenon DEF AssertBegin, Working
  <2>3. n' = n + 1 BY <1>n, <2>2, Lines, Zenon DEF n
  <2>4. p + Cardinality(B) < MaxPending BY <1>1, Zenon DEF AssertBegin
  <2>5. B \in SUBSET Irq /\ Working \in SUBSET B BY Zenon DEF Working
  <2>6. n <= Cardinality(B) /\ Cardinality(B) \in Nat BY <2>5, Lines, Zenon DEF n
  <2> HIDE DEF B
  <2> QED BY <1>t, <1>n, <1>k, <2>1, <2>3, <2>4, <2>6
<1>2. ASSUME NEW i \in Irq, AssertCount(i)
      PROVE  p' \in Nat /\ p' + n' + Taken' <= MaxPending + 1
  <2>1. p' = p + 1 /\ Taken' = Taken BY <1>2, SourceSteps, Zenon DEF AssertCount, SourceStep, Taken
  <2>2. i \in Working /\ Working' = Working \ {i} BY <1>2, <1>t, Zenon DEF AssertCount, Working
  <2>3. n' = n - 1 BY <1>n, <2>2, Lines, Zenon DEF n
  <2> QED BY <1>t, <1>n, <1>k, <1>i, <2>1, <2>3
<1>3. ASSUME p' \in Nat, p' + Taken' <= p + Taken, Working' \in SUBSET Working
      PROVE  p' \in Nat /\ p' + n' + Taken' <= MaxPending + 1
  <2>1. n' <= n /\ n' \in Nat BY <1>n, <1>3, Lines, Zenon DEF n
  <2>2. MaxPending + 1 \in Nat BY <1>t
  <2> QED BY <1>t, <1>n, <1>k, <1>i, <1>3, <2>1, <2>2, BoundedSum, Zenon
<1>4. ASSUME NEW i \in Irq, AssertExchange(i) \/ AssertCall(i) \/ Deassert(i)
      PROVE  p' \in Nat /\ p' + n' + Taken' <= MaxPending + 1
  <2>1. p' = p /\ Taken' = Taken
    BY <1>4, SourceSteps, Zenon DEF AssertExchange, AssertCall, Deassert, SourceStep, irqVars, Taken
  <2>2. Working' \in SUBSET Working
    BY <1>4, <1>t, Zenon DEF AssertExchange, AssertCall, Deassert, Working
  <2> QED BY <1>t, <1>k, <1>3, <2>1, <2>2
<1>5. ASSUME UNCHANGED source, p' \in Nat, p' + Taken' <= p + Taken
      PROVE  p' \in Nat /\ p' + n' + Taken' <= MaxPending + 1
  <2>1. Working' = Working BY <1>5, Zenon DEF Working
  <2> QED BY <1>3, <1>5, <2>1, Zenon
<1>6. ASSUME QuietStep
      PROVE  p' \in Nat /\ p' + n' + Taken' <= MaxPending + 1
  <2>1. UNCHANGED <<p, source>> /\ Taken' = Taken BY <1>6, QuietSteps, Zenon DEF Quiet, Taken, Interrupted, StageInv
  <2> QED BY <1>t, <1>k, <1>5, <2>1
<1>7. CASE ProcessOne
  <2>1. p' \in Nat /\ UNCHANGED source BY <1>7, <1>t DEF ProcessOne
  <2>2. p' + Taken' <= p + Taken BY <1>7, <1>t DEF ProcessOne, Taken, Interrupted
  <2> QED BY <1>5, <2>1, <2>2, Zenon
<1>8. CASE Scan \/ Exchange \/ Execute \/ Executed \/ Undo \/ Cleared \/ \E i \in Irq : Clear(i)
  <2>1. UNCHANGED <<p, source>>
    BY <1>8, Zenon DEF Scan, Exchange, Execute, Executed, Undo, Cleared, Clear, irqVars
  <2>2. Taken' <= Taken
    BY <1>8 DEF Scan, Exchange, Execute, Executed, Undo, Cleared, Clear, Again, Taken, Interrupted, cpuVars
  <2>3. p' \in Nat /\ p' <= p BY <1>t, <2>1
  <2>4. p' + Taken' <= p + Taken BY <1>t, <1>k, <2>2, <2>3, SmallerSum, Zenon
  <2> QED BY <1>5, <2>1, <2>3, <2>4, Zenon
<1>9. CASE Failed
  <2>1. p' = p + 1 /\ UNCHANGED source /\ Taken = 1 /\ Taken' = 0 BY <1>9, Zenon DEF Failed, Taken, Interrupted
  <2> QED BY <1>t, <1>5, <2>1
<1>10. CASE Reset
  <2>1. p' = 0 /\ UNCHANGED source BY <1>10, Zenon DEF Reset
  <2>2. Taken' <= Taken BY <1>10 DEF Reset, Taken, Interrupted
  <2>3. p' \in Nat /\ p' <= p BY <1>t, <2>1
  <2>4. p' + Taken' <= p + Taken BY <1>t, <1>k, <2>2, <2>3, SmallerSum, Zenon
  <2> QED BY <1>5, <2>1, <2>3, <2>4, Zenon
<1>11. CASE UNCHANGED vars
  <2>1. UNCHANGED <<p, source>> /\ Taken' = Taken BY <1>11, Zenon DEF vars, irqVars, cpuVars, Taken
  <2> QED BY <1>t, <1>k, <1>5, <2>1
<1> QED BY <1>1, <1>2, <1>4, <1>6, <1>7, <1>8, <1>9, <1>10, <1>11, Zenon DEF Next, SourceStep, ProcessStep, QuietStep

(* The stages follow each other, and the variables keep their types. *)
LEMMA StageKeeps ==
  ASSUME StageInv, [Next]_vars
  PROVE  StageInv'
<1>b. /\ execute_pending' \in Nat /\ execute_pending' <= MaxPending + 1
      /\ execute_pending' + Cardinality(Working)' + Taken' <= MaxPending + 1
  <2>1. Cardinality(Working)' \in Nat BY Lines, Zenon DEF Working
  <2>2. Taken' \in Nat BY Zenon DEF Taken
  <2>3. /\ execute_pending' \in Nat
        /\ execute_pending' + Cardinality(Working)' + Taken' <= MaxPending + 1
    BY Bounded, Zenon
  <2> QED BY <2>1, <2>2, <2>3, VcpuIrqAssumption
<1>p. execute_pending' \in 0 .. MaxPending + 1 BY <1>b, VcpuIrqAssumption
<1>t. Stages BY Zenon DEF StageInv
<1>z. 0 \in Irq BY VcpuIrqAssumption DEF Irq
<1> SUFFICES Stages' BY <1>b, Zenon DEF StageInv
<1>1. ASSUME NEW i \in Irq, AssertBegin(i) \/ SourceStep(i) \/ Deassert(i) PROVE Stages'
  <2>1. UNCHANGED <<vcpuVars, wfiVars, hvip, cpuVars, expired, resuming, fails, held>>
    BY <1>1, Zenon DEF AssertBegin, SourceStep, AssertExchange, AssertCount, AssertCall, Deassert, wakeVars
  <2>2. assert' \in [Irq -> {"DEASSERTED", "ASSERTED", "PENDING"}]
    BY <1>1, <1>t, Zenon DEF AssertBegin, SourceStep, AssertExchange, AssertCount, AssertCall, Deassert, irqVars, Stages, TypeOK
  <2>3. source' \in [Irq -> {"idle", "exchange", "count", "call"}]
    BY <1>1, <1>t, Zenon DEF AssertBegin, SourceStep, AssertExchange, AssertCount, AssertCall, Deassert, Stages, TypeOK
  <2>4. calls' \in [Cause -> 0 .. MaxCalls]
    <3>1. calls \in [Cause -> 0 .. MaxCalls] BY <1>t, Zenon DEF Stages, TypeOK
    <3>2. calls' = calls \/ CallResume("assert")
      BY <1>1, Zenon DEF AssertBegin, SourceStep, AssertExchange, AssertCount, AssertCall, Deassert, wakeVars
    <3> QED BY <3>1, <3>2, VcpuIrqAssumption DEF CallResume, Cause
  <2>5. want' \in [Irq -> BOOLEAN]
    BY <1>1, <1>t, Zenon DEF AssertBegin, SourceStep, AssertExchange, AssertCount, AssertCall, Deassert, Stages, TypeOK
  <2> QED BY <1>p, <1>t, <2>1, <2>2, <2>3, <2>4, <2>5 DEF Stages, TypeOK, vcpuVars, wfiVars, cpuVars
<1>2. CASE Interrupt \/ SwitchOut \/ Stay \/ Process \/ Dispatch
  <2>1. CASE Interrupt \/ Stay \/ Process
    BY <1>p, <1>t, <2>1 DEF Interrupt, Stay, Process, Stages, TypeOK, Traps, vcpuVars, irqVars, wfiVars, wakeVars
  <2>2. CASE SwitchOut
    BY <1>p, <1>t, <2>2, Zenon DEF SwitchOut, Stages, TypeOK, Traps, irqVars, wfiVars, wakeVars
  <2>3. CASE Dispatch
    BY <1>p, <1>t, <2>3, Zenon DEF Dispatch, Stages, TypeOK, Traps, irqVars, wfiVars, wakeVars
  <2> QED BY <1>2, <2>1, <2>2, <2>3, Zenon
<1>3. CASE ProcessOne
  BY <1>p, <1>t, <1>3, Zenon DEF ProcessOne, Stages, TypeOK, Traps, vcpuVars, wfiVars, wakeVars
<1>4. CASE Scan
  <2>1. line' \in Irq
    <3>1. line \in Irq /\ (line' = line \/ (line' = line + 1 /\ line + 1 < Irqs) \/ line' = 0)
      BY <1>t, <1>4, Zenon DEF Scan, Stages, TypeOK
    <3> QED BY <3>1, <1>z, VcpuIrqAssumption DEF Irq
  <2> QED BY <1>p, <1>t, <1>4, <2>1 DEF Scan, Stages, TypeOK, Traps, vcpuVars, irqVars, wfiVars, wakeVars
<1>5. CASE Exchange
  BY <1>p, <1>t, <1>z, <1>5, Zenon DEF Exchange, Again, Stages, TypeOK, Traps, vcpuVars, wfiVars, wakeVars
<1>6. CASE Execute
  <2>1. fails' \in 0 .. MaxFails BY <1>t, <1>6, VcpuIrqAssumption DEF Execute, Stages, TypeOK
  <2> QED BY <1>p, <1>t, <1>6, <2>1 DEF Execute, Stages, TypeOK, Traps, vcpuVars, irqVars, wfiVars, wakeVars
<1>7. CASE Executed \/ Undo
  BY <1>p, <1>t, <1>z, <1>7 DEF Executed, Undo, Again, Stages, TypeOK, Traps, vcpuVars, wfiVars, wakeVars
<1>8. CASE Failed
  BY <1>p, <1>t, <1>8, Zenon DEF Failed, Stages, TypeOK, Traps, vcpuVars, wfiVars, wakeVars
<1>9. ASSUME NEW i \in Irq, Clear(i) PROVE Stages'
  BY <1>p, <1>t, <1>9, Zenon DEF Clear, Stages, TypeOK, Traps, vcpuVars, irqVars, wfiVars, wakeVars
<1>10. CASE Cleared
  BY <1>p, <1>t, <1>z, <1>10, Zenon DEF Cleared, Stages, TypeOK, Traps, vcpuVars, wfiVars, wakeVars
<1>11. CASE Wfi \/ Recheck \/ Cancel \/ WfiPause
  <2>1. yield_count' \in 0 .. YieldThreshold
    BY <1>t, <1>11, VcpuIrqAssumption DEF Wfi, Recheck, Cancel, WfiPause, wfiVars, Stages, TypeOK
  <2>2. CASE Wfi \/ Recheck \/ Cancel
    BY <1>p, <1>t, <2>1, <2>2, ZenonT(30) DEF Wfi, Recheck, Cancel, Stages, TypeOK, Traps, vcpuVars, irqVars, wfiVars, wakeVars
  <2>3. CASE WfiPause
    BY <1>p, <1>t, <2>1, <2>3, Zenon DEF WfiPause, ToPaused, Stages, TypeOK, Traps, irqVars, wfiVars, wakeVars
  <2> QED BY <1>11, <2>2, <2>3, Zenon
<1>12. CASE Wait
  <2>1. yield_count' \in 0 .. YieldThreshold
    BY <1>t, <1>12, VcpuIrqAssumption DEF Wait, wfiVars, Stages, TypeOK
  <2> QED BY <1>p, <1>t, <1>12, <2>1, Zenon DEF Wait, Stages, TypeOK, Traps, vcpuVars, irqVars, wfiVars, wakeVars
<1>13. CASE WaitResume \/ WfiTimeout
  <2>1. calls' \in [Cause -> 0 .. MaxCalls]
    <3>1. calls \in [Cause -> 0 .. MaxCalls] BY <1>t, Zenon DEF Stages, TypeOK
    <3>2. CallResume("assert") \/ CallResume("timeout") BY <1>13, Zenon DEF WaitResume, WfiTimeout
    <3> QED BY <3>1, <3>2, VcpuIrqAssumption DEF CallResume, Cause
  <2>2. /\ expired' \in BOOLEAN
        /\ UNCHANGED <<vcpuVars, irqVars, wfiVars, hvip, source, cpuVars, resuming, fails, want, held>>
    BY <1>t, <1>13, Zenon DEF WaitResume, WfiTimeout, Stages, TypeOK
  <2> QED BY <1>p, <1>t, <2>1, <2>2 DEF Stages, TypeOK, vcpuVars, irqVars, wfiVars, cpuVars
<1>14. CASE TimerExpires
  BY <1>p, <1>t, <1>14, Zenon DEF TimerExpires, Stages, TypeOK, vcpuVars, irqVars, cpuVars
<1>15. ASSUME NEW cause \in Cause, WfiResume(cause) PROVE Stages'
  <2>1. calls' \in [Cause -> 0 .. MaxCalls]
    BY <1>t, <1>15, VcpuIrqAssumption DEF WfiResume, Stages, TypeOK
  <2>2. yield_count' \in 0 .. YieldThreshold BY <1>t, <1>15, VcpuIrqAssumption DEF WfiResume, Stages, TypeOK
  <2>3. resuming' \in Nat BY <1>t, <1>15 DEF WfiResume, Stages, TypeOK
  <2> QED BY <1>p, <1>t, <1>15, <2>1, <2>2, <2>3, Zenon DEF WfiResume, Stages, TypeOK, vcpuVars, irqVars, cpuVars
<1>16. CASE WfiResumed
  <2>1. resuming' \in Nat BY <1>t, <1>16 DEF WfiResumed, Stages, TypeOK
  <2> QED BY <1>p, <1>t, <1>16, <2>1, Zenon DEF WfiResumed, ToReady, Stages, TypeOK, irqVars, wfiVars, cpuVars
<1>17. CASE Pause \/ Resume \/ Halt
  <2>1. state' \in {"RESET", "READY", "RUNNING", "PAUSED", "HALTED"}
    BY <1>t, <1>17, Zenon DEF Pause, Resume, Halt, ToPaused, ToReady, Stages, TypeOK
  <2>2. resumed' \in BOOLEAN
    BY <1>t, <1>17, Zenon DEF Pause, Resume, Halt, ToPaused, ToReady, Stages, TypeOK
  <2>3. UNCHANGED <<current, irqVars, wfiVars, hvip, source, cpuVars, wakeVars, fails, want>>
    BY <1>17, Zenon DEF Pause, Resume, Halt
  <2>4. held' \in BOOLEAN
    <3>1. held \in BOOLEAN /\ current \in BOOLEAN BY <1>t, Zenon DEF Stages, TypeOK
    <3>2. CASE Pause BY <3>2 DEF Pause
    <3>3. CASE Resume BY <3>1, <3>3, Zenon DEF Resume
    <3>4. CASE Halt BY <3>1, <3>4, Zenon DEF Halt
    <3> QED BY <1>17, <3>2, <3>3, <3>4, Zenon
  <2> QED BY <1>p, <1>t, <2>1, <2>2, <2>3, <2>4, Zenon DEF Stages, TypeOK, irqVars, wfiVars, cpuVars, wakeVars
<1>18. CASE Reset
  <2>1. 0 \in 0 .. YieldThreshold BY VcpuIrqAssumption
  <2> QED BY <1>p, <1>t, <1>18, <2>1, Zenon DEF Reset, Stages, TypeOK, Traps, wakeVars
<1>19. CASE UNCHANGED vars
  BY <1>p, <1>t, <1>19 DEF vars, vcpuVars, irqVars, wfiVars, cpuVars, wakeVars, Stages, TypeOK
<1> QED
  BY <1>1, <1>2, <1>3, <1>4, <1>5, <1>6, <1>7, <1>8, <1>9, <1>10, <1>11, <1>12, <1>13, <1>14, <1>15,
     <1>16, <1>17, <1>18, <1>19, Zenon DEF Next, ProcessStep

-----------------------------------------------------------------------------
(***************************************************************************)
(* The counts.  A is the number of asserted lines, B leaves out the line   *)
(* of the host CPU, P counts those that its scan has passed, and C the     *)
(* counts that sources are about to add.                                   *)
(***************************************************************************)
A == Cardinality(Asserted)
B == Cardinality(Asserted \ {line})
C == Cardinality(Counting)
P == Cardinality(Passed)
X == IF trap \in {"scan", "exchange"} THEN 1 ELSE 0

(* They are numbers, since the interrupt lines of a VCPU are finitely many. *)
LEMMA Counts ==
  ASSUME Stages
  PROVE  /\ A \in Nat /\ B \in Nat /\ C \in Nat /\ P \in Nat /\ X \in Nat /\ X <= 1
         /\ A' \in Nat /\ B' \in Nat /\ C' \in Nat /\ P' \in Nat /\ X' \in Nat
         /\ execute_pending \in Nat
         /\ B <= A /\ B' <= A'
         /\ A <= B + 1 /\ (line \in Asserted => A = B + 1) /\ (line \notin Asserted => A = B)
<1>1. /\ Asserted \in SUBSET Irq /\ Counting \in SUBSET Irq /\ Passed \in SUBSET Irq
      /\ Asserted \ {line} \in SUBSET Irq
  BY Zenon DEF Asserted, Counting, Passed
<1>2. /\ Asserted' \in SUBSET Irq /\ Counting' \in SUBSET Irq /\ Passed' \in SUBSET Irq
      /\ (Asserted \ {line})' \in SUBSET Irq
  BY Zenon DEF Asserted, Counting, Passed
<1>3. /\ A \in Nat /\ B \in Nat /\ C \in Nat /\ P \in Nat
      /\ A' \in Nat /\ B' \in Nat /\ C' \in Nat /\ P' \in Nat
  BY <1>1, <1>2, Lines, Zenon DEF A, B, C, P
<1>4. B <= A /\ B' <= A'
  <2>1. Asserted \ {line} \in SUBSET Asserted /\ (Asserted \ {line})' \in SUBSET Asserted' BY Zenon
  <2> QED BY <1>1, <1>2, <2>1, Lines, Zenon DEF A, B
<1>5. line \in Asserted => A = B + 1
  <2>1. ASSUME line \in Asserted PROVE B = A - 1 BY <1>1, <2>1, Lines, Zenon DEF A, B
  <2> QED BY <1>3, <2>1
<1>6. line \notin Asserted => A = B
  <2>1. ASSUME line \notin Asserted PROVE Asserted \ {line} = Asserted BY <2>1, Zenon
  <2> QED BY <2>1, Zenon DEF A, B
<1>7. X \in Nat /\ X <= 1 /\ X' \in Nat BY DEF X
<1>8. execute_pending \in Nat BY VcpuIrqAssumption DEF Stages, TypeOK
<1> QED BY <1>3, <1>4, <1>5, <1>6, <1>7, <1>8

(* The invariant of the counts in these terms. *)
LEMMA CountTerms ==
  /\ CountInv <=> /\ A <= execute_pending + C + X
                  /\ trap = "scan" => P <= execute_pending + C
                  /\ trap = "exchange" => B <= execute_pending + C
                  /\ trap = "undo" => B + 1 <= execute_pending + C
  /\ CountInv' <=> /\ A' <= execute_pending' + C' + X'
                   /\ trap' = "scan" => P' <= execute_pending' + C'
                   /\ trap' = "exchange" => B' <= execute_pending' + C'
                   /\ trap' = "undo" => B' + 1 <= execute_pending' + C'
  BY Zenon DEF CountInv, AssertsCounted, Asserted, Counting, A, B, C, P, X

(* The sources: a line that becomes asserted brings its count. *)
LEMMA SourceCounts ==
  ASSUME Stages, NEW i \in Irq, AssertBegin(i) \/ SourceStep(i) \/ Deassert(i)
  PROVE  /\ UNCHANGED <<trap, line>>
         /\ \E d \in {0, 1} : /\ execute_pending' + C' = execute_pending + C + d
                             /\ A' <= A + d /\ B' <= B + d /\ P' <= P + d
<1>s. /\ assert \in [Irq -> {"DEASSERTED", "ASSERTED", "PENDING"}]
      /\ source \in [Irq -> {"idle", "exchange", "count", "call"}]
  BY Zenon DEF Stages, TypeOK
<1>l. UNCHANGED <<trap, line>> BY SourceSteps, Zenon
<1>c. /\ A \in Nat /\ B \in Nat /\ C \in Nat /\ P \in Nat /\ execute_pending \in Nat
      /\ A' \in Nat /\ B' \in Nat /\ C' \in Nat /\ P' \in Nat
  BY Counts, Zenon
<1>u. /\ Asserted \in SUBSET Irq /\ Counting \in SUBSET Irq /\ Passed \in SUBSET Irq
      /\ Asserted \ {line} \in SUBSET Irq
  BY Zenon DEF Asserted, Counting, Passed
<1>1. ASSUME Asserted' \in SUBSET Asserted PROVE A' <= A /\ B' <= B /\ P' <= P
  <2>1. (Asserted \ {line})' \in SUBSET (Asserted \ {line}) BY <1>l, <1>1, Zenon
  <2>2. Passed' \in SUBSET Passed BY <1>l, <1>1, Zenon DEF Asserted, Passed
  <2> QED BY <1>1, <1>u, <2>1, <2>2, Lines, Zenon DEF A, B, P
<1>2. CASE AssertBegin(i) \/ AssertCall(i) \/ Deassert(i) \/ (AssertExchange(i) /\ assert[i] # "DEASSERTED")
  <2>1. Asserted' \in SUBSET Asserted
    BY <1>2, <1>s, Zenon DEF AssertBegin, AssertCall, Deassert, AssertExchange, Asserted, irqVars
  <2>2. Counting' = Counting /\ UNCHANGED execute_pending
    BY <1>2, <1>s, Zenon DEF AssertBegin, AssertCall, Deassert, AssertExchange, Counting, irqVars
  <2>3. execute_pending' + C' = execute_pending + C + 0 BY <1>c, <2>2 DEF C
  <2>4. A' <= A + 0 /\ B' <= B + 0 /\ P' <= P + 0 BY <1>1, <1>c, <2>1
  <2> QED BY <1>l, <2>3, <2>4, Zenon
<1>3. CASE AssertCount(i)
  <2>1. Asserted' = Asserted /\ execute_pending' = execute_pending + 1 BY <1>3, Zenon DEF AssertCount, Asserted
  <2>2. i \in Counting /\ Counting' = Counting \ {i} BY <1>3, <1>s, Zenon DEF AssertCount, Counting
  <2>3. C' = C - 1 BY <1>u, <2>2, Lines, Zenon DEF C
  <2>4. execute_pending' + C' = execute_pending + C + 0 BY <1>c, <2>1, <2>3
  <2>5. A' <= A + 0 /\ B' <= B + 0 /\ P' <= P + 0 BY <1>1, <1>c, <2>1
  <2> QED BY <1>l, <2>4, <2>5, Zenon
<1>4. CASE AssertExchange(i) /\ assert[i] = "DEASSERTED"
  <2>1. i \notin Asserted /\ Asserted' = Asserted \cup {i} BY <1>4, <1>s, Zenon DEF AssertExchange, Asserted
  <2>2. i \notin Counting /\ Counting' = Counting \cup {i} BY <1>4, <1>s, Zenon DEF AssertExchange, Counting
  <2>3. A' = A + 1 /\ C' = C + 1 BY <1>u, <2>1, <2>2, Lines, Zenon DEF A, C
  <2>4. execute_pending' + C' = execute_pending + C + 1 BY <1>4, <1>c, <2>3 DEF AssertExchange
  <2>5. B' <= B + 1
    <3>1. CASE i = line
      <4>1. (Asserted \ {line})' = Asserted \ {line} BY <1>l, <2>1, <3>1, Zenon
      <4> QED BY <1>c, <4>1 DEF B
    <3>2. CASE i # line
      <4>1. (Asserted \ {line})' = (Asserted \ {line}) \cup {i} BY <1>l, <2>1, <3>2, Zenon
      <4>2. i \notin Asserted \ {line} BY <2>1, Zenon
      <4>3. B' = B + 1 BY <1>u, <4>1, <4>2, Lines, Zenon DEF B
      <4> QED BY <1>c, <4>3
    <3> QED BY <3>1, <3>2, Zenon
  <2>6. P' <= P + 1
    <3>1. CASE i < line
      <4>1. Passed' = Passed \cup {i} /\ i \notin Passed BY <1>l, <2>1, <3>1, Zenon DEF Asserted, Passed
      <4>2. P' = P + 1 BY <1>u, <4>1, Lines, Zenon DEF P
      <4> QED BY <1>c, <4>2
    <3>2. CASE ~(i < line)
      <4>1. Passed' = Passed BY <1>l, <2>1, <3>2, Zenon DEF Asserted, Passed
      <4> QED BY <1>c, <4>1 DEF P
    <3> QED BY <3>1, <3>2, Zenon
  <2> QED BY <1>l, <1>c, <2>3, <2>4, <2>5, <2>6
<1> QED BY <1>2, <1>3, <1>4, Zenon DEF SourceStep

(* Every step keeps the counts. *)
LEMMA CountKeeps ==
  ASSUME StageInv, CountInv, [Next]_vars
  PROVE  CountInv'
<1> DEFINE p == execute_pending
<1>t. Stages BY Zenon DEF StageInv
<1>s. /\ assert \in [Irq -> {"DEASSERTED", "ASSERTED", "PENDING"}] /\ line \in Irq /\ p \in Nat
      /\ trap \in Traps /\ (trap = "one" => line = 0) /\ (trap # "guest" => current)
  BY <1>t, VcpuIrqAssumption DEF Stages, TypeOK
<1>c. /\ A \in Nat /\ B \in Nat /\ C \in Nat /\ P \in Nat /\ X \in Nat /\ X <= 1
      /\ A' \in Nat /\ B' \in Nat /\ C' \in Nat /\ P' \in Nat /\ X' \in Nat
      /\ B <= A /\ B' <= A' /\ A <= B + 1
      /\ (line \in Asserted => A = B + 1) /\ (line \notin Asserted => A = B)
  BY <1>t, Counts, Zenon
<1>i. /\ A <= p + C + X
      /\ trap = "scan" => P <= p + C
      /\ trap = "exchange" => B <= p + C
      /\ trap = "undo" => B + 1 <= p + C
  BY CountTerms, Zenon
<1> SUFFICES /\ A' <= p' + C' + X'
             /\ trap' = "scan" => P' <= p' + C'
             /\ trap' = "exchange" => B' <= p' + C'
             /\ trap' = "undo" => B' + 1 <= p' + C'
  BY CountTerms, Zenon
<1> DEFINE Goal == /\ A' <= p' + C' + X'
                   /\ trap' = "scan" => P' <= p' + C'
                   /\ trap' = "exchange" => B' <= p' + C'
                   /\ trap' = "undo" => B' + 1 <= p' + C'
<1>1. ASSUME NEW i \in Irq, AssertBegin(i) \/ SourceStep(i) \/ Deassert(i) PROVE Goal
  <2>1. PICK d \in {0, 1} : /\ p' + C' = p + C + d
                            /\ A' <= A + d /\ B' <= B + d /\ P' <= P + d
    BY <1>t, <1>1, SourceCounts, Zenon
  <2>2. UNCHANGED trap /\ X' = X BY <1>t, <1>1, SourceCounts, Zenon DEF X
  <2>3. PICK k \in Nat : k = p + C BY <1>s, <1>c
  <2>4. p' + C' = k + d BY <2>1, <2>3, Zenon
  <2>5. A' <= k + d + X BY <1>c, <1>i, <2>1, <2>3
  <2>6. A' <= p' + C' + X' BY <2>2, <2>4, <2>5, Zenon
  <2>7. /\ trap' = "scan" => P' <= k + d
        /\ trap' = "exchange" => B' <= k + d
        /\ trap' = "undo" => B' + 1 <= k + d
    BY <1>c, <1>i, <2>1, <2>2, <2>3
  <2> QED BY <2>4, <2>6, <2>7, Zenon
<1>2. ASSUME Asserted' \in SUBSET Asserted, UNCHANGED <<execute_pending, source>>,
             trap \notin {"scan", "exchange"}, trap' \notin {"scan", "exchange", "undo"}
      PROVE  Goal
  <2>1. Asserted \in SUBSET Irq BY Zenon DEF Asserted
  <2>2. A' <= A BY <1>2, <2>1, Lines, Zenon DEF A
  <2>3. C' = C /\ p' = p BY <1>2, Zenon DEF C, Counting
  <2>4. X = 0 /\ X' = 0 BY <1>2, Zenon DEF X
  <2>5. A' <= p' + C' + X' BY <1>c, <1>s, <1>i, <2>2, <2>3, <2>4
  <2> QED BY <1>2, <2>5, Zenon
<1>3. ASSUME UNCHANGED <<assert, execute_pending, source, trap, line>> PROVE Goal
  <2>1. A' = A /\ B' = B /\ C' = C /\ P' = P /\ X' = X /\ p' = p
    BY <1>3, Zenon DEF A, B, C, P, X, Asserted, Counting, Passed
  <2> QED BY <1>3, <1>i, <2>1, Zenon
<1>4. ASSUME QuietStep
      PROVE  Goal
  <2>1. UNCHANGED <<assert, execute_pending, source, line>> BY <1>t, <1>4, QuietSteps, Zenon DEF Quiet
  <2>2. CASE trap' = trap BY <1>3, <2>1, <2>2, Zenon
  <2>3. CASE trap' # trap
    <3>1. trap \notin {"scan", "exchange"} /\ trap' \notin {"scan", "exchange", "undo"}
      BY <1>t, <1>4, <2>3, QuietSteps, Zenon
    <3>2. Asserted' = Asserted BY <2>1, Zenon DEF Asserted
    <3> QED BY <1>2, <2>1, <3>1, <3>2, Zenon
  <2> QED BY <2>2, <2>3, Zenon
<1>5. CASE ProcessOne
  <2>1. UNCHANGED <<assert, source, line>> /\ trap = "one" /\ line = 0 BY <1>5, <1>s, Zenon DEF ProcessOne
  <2>2. A' = A /\ C' = C /\ X = 0 BY <2>1, Zenon DEF A, C, X, Asserted, Counting
  <2>3. CASE p > 0
    <3>1. p' = p - 1 /\ trap' = "scan" BY <1>5, <2>3, Zenon DEF ProcessOne
    <3>2. Passed' = {} BY <2>1 DEF Passed, Irq
    <3>3. P' = 0 /\ X' = 1 BY <3>1, <3>2, Lines, Zenon DEF P, X
    <3>4. p' \in Nat BY <1>s, <2>3, <3>1
    <3>5. A' <= p' + C' + X' BY <1>s, <1>c, <1>i, <2>2, <3>1, <3>3
    <3>6. \A k, m \in Nat : 0 <= k + m OBVIOUS
    <3>7. P' <= p' + C' BY <1>c, <3>3, <3>4, <3>6, Zenon
    <3> QED BY <3>1, <3>5, <3>7, Zenon
  <2>4. CASE ~(p > 0)
    <3>1. p' = p /\ trap' = "guest" BY <1>5, <2>4, Zenon DEF ProcessOne
    <3>2. Asserted' = Asserted BY <2>1, Zenon DEF Asserted
    <3> QED BY <1>2, <2>1, <3>1, <3>2, Zenon
  <2> QED BY <2>3, <2>4, Zenon
<1>6. CASE Scan
  <2>1. UNCHANGED <<assert, execute_pending, source>> /\ trap = "scan" BY <1>6, Zenon DEF Scan, irqVars
  <2>2. A' = A /\ C' = C /\ X = 1 /\ p' = p BY <2>1, Zenon DEF A, C, X, Asserted, Counting
  <2>3. CASE assert[line] = "ASSERTED"
    <3>1. trap' = "exchange" /\ line' = line BY <1>6, <2>3, Zenon DEF Scan
    <3>2. line \in Asserted BY <1>s, <2>3, Zenon DEF Asserted
    <3>3. B' = B /\ X' = 1 BY <2>1, <3>1, Zenon DEF B, X, Asserted
    <3>4. B <= p + C BY <1>s, <1>c, <1>i, <2>2, <3>2
    <3> QED BY <1>i, <2>2, <3>1, <3>3, <3>4, Zenon
  <2>4. CASE assert[line] # "ASSERTED" /\ line + 1 < Irqs
    <3>1. trap' = "scan" /\ line' = line + 1 BY <1>6, <2>1, <2>4, VcpuIrqAssumption DEF Scan
    <3>2. Passed' = Passed BY <1>s, <2>1, <2>4, <3>1 DEF Passed, Irq
    <3>3. P' = P /\ X' = 1 BY <3>1, <3>2, Zenon DEF P, X
    <3> QED BY <1>i, <2>1, <2>2, <3>1, <3>3, Zenon
  <2>5. CASE assert[line] # "ASSERTED" /\ line + 1 = Irqs
    <3>1. trap' = "guest" BY <1>6, <2>1, <2>5, VcpuIrqAssumption DEF Scan
    <3>2. Asserted \in SUBSET Passed /\ Passed \in SUBSET Irq
      BY <1>s, <2>5, VcpuIrqAssumption DEF Asserted, Passed, Irq
    <3>3. A <= P BY <3>2, Lines, Zenon DEF A, P
    <3>4. X' = 0 BY <3>1, Zenon DEF X
    <3>5. A' <= p' + C' + X' BY <1>s, <1>c, <1>i, <2>1, <2>2, <3>3, <3>4
    <3> QED BY <3>1, <3>5, Zenon
  <2> QED BY <1>6, <2>3, <2>4, <2>5, Zenon DEF Scan
<1>7. CASE Exchange
  <2>1. UNCHANGED <<execute_pending, source>> /\ trap = "exchange" BY <1>7, Zenon DEF Exchange
  <2>2. C' = C /\ p' = p BY <2>1, Zenon DEF C, Counting
  <2>3. trap' \in {"execute", "one", "guest"} BY <1>7, Zenon DEF Exchange, Again
  <2>4. X' = 0 BY <2>3, Zenon DEF X
  <2>5. Asserted' = Asserted \ {line} BY <1>7, <1>s, Zenon DEF Exchange, Asserted
  <2>6. A' = B BY <2>5, Zenon DEF A, B
  <2>7. A' <= p' + C' + X' BY <1>s, <1>c, <1>i, <2>1, <2>2, <2>4, <2>6
  <2> QED BY <2>3, <2>7, Zenon
<1>8. CASE Failed
  <2>1. p' = p + 1 /\ UNCHANGED <<assert, source, line>> /\ trap = "failed" /\ trap' = "undo" BY <1>8, Zenon DEF Failed
  <2>2. A' = A /\ B' = B /\ C' = C /\ X = 0 /\ X' = 0 BY <2>1, Zenon DEF A, B, C, X, Asserted, Counting
  <2>3. PICK k \in Nat : k = p + C BY <1>s, <1>c
  <2>4. p' + C' = k + 1 BY <1>s, <1>c, <2>1, <2>2, <2>3
  <2>5. A <= k BY <1>c, <1>i, <2>2, <2>3
  <2>6. A' <= k + 1 + X' /\ B' + 1 <= k + 1 BY <1>c, <2>2, <2>5
  <2> QED BY <2>1, <2>4, <2>6, Zenon
<1>9. CASE Undo
  <2>1. UNCHANGED <<execute_pending, source>> /\ trap = "undo" /\ trap' \in {"one", "guest"} BY <1>9, Zenon DEF Undo, Again
  <2>2. C' = C /\ p' = p /\ X' = 0 BY <2>1, Zenon DEF C, X, Counting
  <2>3. Asserted' = (Asserted \ {line}) \cup {line} BY <1>9, <1>s, Zenon DEF Undo, Asserted
  <2>4. A' = B + 1
    <3>1. Asserted \ {line} \in SUBSET Irq /\ line \notin Asserted \ {line} BY Zenon DEF Asserted
    <3> QED BY <1>s, <2>3, <3>1, Lines, Zenon DEF A, B
  <2>5. A' <= p' + C' + X' BY <1>s, <1>c, <1>i, <2>1, <2>2, <2>4
  <2> QED BY <2>1, <2>5, Zenon
<1>10. CASE Execute \/ Executed \/ Cleared \/ \E i \in Irq : Clear(i)
  <2>1. /\ UNCHANGED <<execute_pending, source>> /\ trap \notin {"scan", "exchange"}
        /\ trap' \notin {"scan", "exchange", "undo"}
    BY <1>10, Zenon DEF Execute, Executed, Cleared, Clear, Again, irqVars
  <2>2. Asserted' \in SUBSET Asserted
    BY <1>10, <1>s, Zenon DEF Execute, Executed, Cleared, Clear, Asserted, irqVars
  <2> QED BY <1>2, <2>1, <2>2, Zenon
<1>11. CASE Reset
  <2>1. /\ p' = 0 /\ UNCHANGED source /\ trap' \notin {"scan", "exchange", "undo"}
        /\ assert' = [i \in Irq |-> "DEASSERTED"]
    BY <1>11, <1>s, Zenon DEF Reset
  <2>2. Asserted' = {} BY <2>1, Zenon DEF Asserted
  <2>3. A' = 0 /\ X' = 0 BY <2>1, <2>2, Lines, Zenon DEF A, X
  <2>4. \A k \in Nat : 0 <= 0 + k + 0 OBVIOUS
  <2>5. A' <= p' + C' + X' BY <1>c, <2>1, <2>3, <2>4, Zenon
  <2> QED BY <2>1, <2>5, Zenon
<1>12. CASE UNCHANGED vars
  BY <1>3, <1>12, Zenon DEF vars, irqVars, cpuVars
<1> QED
  BY <1>1, <1>4, <1>5, <1>6, <1>7, <1>8, <1>9, <1>10, <1>11, <1>12, Zenon DEF Next, ProcessStep, QuietStep

-----------------------------------------------------------------------------
(* No step loses an interrupt: the bit of hvip takes over from the line,   *)
(* and the guest's clear from the bit.                                     *)
LEMMA KeptKeeps ==
  ASSUME Stages, InterruptKept, [Next]_vars
  PROVE  InterruptKept'
<1>s. /\ assert \in [Irq -> {"DEASSERTED", "ASSERTED", "PENDING"}] /\ line \in Irq
      /\ trap = "executed" => line \in hvip
  BY Zenon DEF Stages, TypeOK
<1>v. want \in [Irq -> BOOLEAN] BY Zenon DEF Stages, TypeOK
<1> SUFFICES ASSUME NEW i \in Irq, want'[i]
             PROVE  assert'[i] # "DEASSERTED" \/ i \in hvip' \/ (trap' = "cleared" /\ line' = i)
  BY Zenon DEF InterruptKept
<1>w. want[i] => assert[i] # "DEASSERTED" \/ i \in hvip \/ (trap = "cleared" /\ line = i) BY Zenon DEF InterruptKept
<1>1. CASE QuietStep
  <2>1. UNCHANGED <<assert, line, hvip, want>> /\ (trap = "cleared" => trap' = "cleared")
    BY <1>1, QuietSteps, Zenon DEF Quiet
  <2> QED BY <1>w, <2>1, Zenon
<1>2. ASSUME NEW j \in Irq, AssertBegin(j) \/ SourceStep(j) \/ Deassert(j)
      PROVE  assert'[i] # "DEASSERTED" \/ i \in hvip' \/ (trap' = "cleared" /\ line' = i)
  <2>1. UNCHANGED <<trap, line, hvip>> BY <1>2, SourceSteps, Zenon
  <2>2. CASE i # j
    <3>1. assert'[i] = assert[i] /\ want'[i] = want[i]
      BY <1>2, <1>s, <1>v, <2>2, Zenon DEF AssertBegin, SourceStep, AssertExchange, AssertCount, AssertCall, Deassert, irqVars
    <3> QED BY <1>w, <2>1, <3>1, Zenon
  <2>3. CASE i = j /\ AssertExchange(j)
    BY <1>s, <2>3, Zenon DEF AssertExchange
  <2>4. CASE i = j /\ Deassert(j)
    <3>1. want' = [want EXCEPT ![i] = FALSE] BY <2>4, Zenon DEF Deassert
    <3> QED BY <3>1, <1>v, Zenon
  <2>5. CASE AssertBegin(j) \/ AssertCount(j) \/ AssertCall(j)
    BY <1>w, <2>1, <2>5, Zenon DEF AssertBegin, AssertCount, AssertCall, irqVars
  <2> QED BY <1>2, <2>2, <2>3, <2>4, <2>5, Zenon DEF SourceStep
<1>3. CASE ProcessOne \/ Scan \/ Failed
  BY <1>3, <1>w, Zenon DEF ProcessOne, Scan, Failed, irqVars
<1>4. CASE Exchange \/ Undo
  BY <1>4, <1>s, <1>w, Zenon DEF Exchange, Undo
<1>5. CASE Execute
  BY <1>5, <1>w, Zenon DEF Execute, irqVars
<1>6. CASE Executed
  BY <1>6, <1>s, <1>w, Zenon DEF Executed
<1>7. ASSUME NEW j \in Irq, Clear(j)
      PROVE  assert'[i] # "DEASSERTED" \/ i \in hvip' \/ (trap' = "cleared" /\ line' = i)
  BY <1>7, <1>w, Zenon DEF Clear, irqVars
<1>8. CASE Cleared
  <2>1. want' = [want EXCEPT ![line] = FALSE] BY <1>8, Zenon DEF Cleared
  <2>2. i # line BY <2>1, <1>v, <1>s, Zenon
  <2> QED BY <1>8, <1>v, <1>s, <1>w, <2>1, <2>2, Zenon DEF Cleared
<1>9. CASE Reset
  BY <1>9, Zenon DEF Reset
<1>10. CASE UNCHANGED vars
  BY <1>10, <1>w, Zenon DEF vars, irqVars, cpuVars
<1> QED
  BY <1>1, <1>2, <1>3, <1>4, <1>5, <1>6, <1>7, <1>8, <1>9, <1>10, Zenon DEF Next, ProcessStep, QuietStep

(* No step forgets a VCPU that waits for an interrupt. *)
LEMMA WaitKeeps ==
  ASSUME Stages, WaitInv, [Next]_vars
  PROVE  WaitInv'
<1>s. /\ state \in {"RESET", "READY", "RUNNING", "PAUSED", "HALTED"} /\ trap \in Traps
      /\ execute_pending \in Nat /\ resuming \in Nat /\ calls \in [Cause -> Nat]
      /\ trap # "guest" => current
  BY VcpuIrqAssumption DEF Stages, TypeOK
<1>c. source \in [Irq -> {"idle", "exchange", "count", "call"}] BY Zenon DEF Stages, TypeOK
<1>1. ASSUME NEW i \in Irq, AssertBegin(i) \/ AssertExchange(i) \/ Deassert(i) PROVE WaitInv'
  <2>1. UNCHANGED <<vcpuVars, execute_pending, wfiVars, hvip, cpuVars, wakeVars, held>>
    BY <1>1, Zenon DEF AssertBegin, AssertExchange, Deassert, irqVars
  <2>2. \A j \in Irq : source[j] = "call" => source'[j] = "call"
    BY <1>1, <1>c, Zenon DEF AssertBegin, AssertExchange, Deassert
  <2> QED
    BY <2>1, <2>2, Zenon DEF vcpuVars, wfiVars, cpuVars, wakeVars,
       WaitInv, ResetInv, BusyInv, PausingInv, CallInv, SleeperKnown, WaitBounded, Pending, Interrupted
<1>26. ASSUME NEW i \in Irq, AssertCount(i) PROVE WaitInv'
  <2>1. UNCHANGED <<vcpuVars, wfiVars, hvip, cpuVars, wakeVars, held>> BY <1>26, Zenon DEF AssertCount
  <2>2. source'[i] = "call" BY <1>26, <1>c, Zenon DEF AssertCount
  <2> QED
    BY <2>1, <2>2, Zenon DEF vcpuVars, wfiVars, cpuVars, wakeVars,
       WaitInv, ResetInv, BusyInv, PausingInv, CallInv, SleeperKnown, WaitBounded, Pending, Interrupted
<1>27. ASSUME NEW i \in Irq, AssertCall(i) PROVE WaitInv'
  BY <1>s, <1>27 DEF AssertCall, CallResume, Interruptible, Cause, vcpuVars, irqVars, wfiVars, cpuVars,
     WaitInv, ResetInv, BusyInv, PausingInv, CallInv, SleeperKnown, WaitBounded, Pending, Interrupted
<1>19. ASSUME NEW cause \in Cause, WfiResume(cause) PROVE WaitInv'
  BY <1>s, <1>19 DEF WfiResume, Cause, vcpuVars, irqVars, cpuVars,
     WaitInv, ResetInv, BusyInv, PausingInv, CallInv, SleeperKnown, WaitBounded, Pending, Interrupted
<1>2. CASE Interrupt
  BY <1>s, <1>2, Zenon DEF Interrupt, vcpuVars, irqVars, wfiVars, wakeVars,
     WaitInv, ResetInv, BusyInv, PausingInv, CallInv, SleeperKnown, WaitBounded, Pending, Interrupted
<1>3. CASE SwitchOut
  BY <1>s, <1>3, Zenon DEF SwitchOut, irqVars, wfiVars, wakeVars,
     WaitInv, ResetInv, BusyInv, PausingInv, CallInv, SleeperKnown, WaitBounded, Pending, Interrupted
<1>4. CASE Stay
  BY <1>s, <1>4, Zenon DEF Stay, vcpuVars, irqVars, wfiVars, wakeVars,
     WaitInv, ResetInv, BusyInv, PausingInv, CallInv, SleeperKnown, WaitBounded, Pending, Interrupted
<1>5. CASE Dispatch
  BY <1>s, <1>5, Zenon DEF Dispatch, irqVars, wfiVars, wakeVars,
     WaitInv, ResetInv, BusyInv, PausingInv, CallInv, SleeperKnown, WaitBounded, Pending, Interrupted
<1>6. CASE Process \/ Wfi
  BY <1>s, <1>6 DEF Process, Wfi, vcpuVars, irqVars, wfiVars, wakeVars,
     WaitInv, ResetInv, BusyInv, PausingInv, CallInv, SleeperKnown, WaitBounded, Pending, Interrupted
<1>7. CASE ProcessOne
  BY <1>s, <1>7, Zenon DEF ProcessOne, vcpuVars, wfiVars, wakeVars,
     WaitInv, ResetInv, BusyInv, PausingInv, CallInv, SleeperKnown, WaitBounded, Pending, Interrupted
<1>8. CASE Scan \/ Exchange
  BY <1>s, <1>8 DEF Scan, Exchange, Again, vcpuVars, irqVars, wfiVars, wakeVars,
     WaitInv, ResetInv, BusyInv, PausingInv, CallInv, SleeperKnown, WaitBounded, Pending, Interrupted
<1>9. CASE Execute
  BY <1>s, <1>9, Zenon DEF Execute, vcpuVars, irqVars, wfiVars, wakeVars,
     WaitInv, ResetInv, BusyInv, PausingInv, CallInv, SleeperKnown, WaitBounded, Pending, Interrupted
<1>10. CASE Executed \/ Undo
  BY <1>s, <1>10 DEF Executed, Undo, Again, vcpuVars, wfiVars, wakeVars,
     WaitInv, ResetInv, BusyInv, PausingInv, CallInv, SleeperKnown, WaitBounded, Pending, Interrupted
<1>11. CASE Failed
  BY <1>s, <1>11, Zenon DEF Failed, vcpuVars, wfiVars, wakeVars,
     WaitInv, ResetInv, BusyInv, PausingInv, CallInv, SleeperKnown, WaitBounded, Pending, Interrupted
<1>12. CASE Cleared \/ \E i \in Irq : Clear(i)
  BY <1>s, <1>12 DEF Cleared, Clear, vcpuVars, irqVars, wfiVars, wakeVars,
     WaitInv, ResetInv, BusyInv, PausingInv, CallInv, SleeperKnown, WaitBounded, Pending, Interrupted
<1>13. CASE Wait
  BY <1>s, <1>13 DEF Wait, vcpuVars, irqVars, wfiVars, wakeVars,
     WaitInv, ResetInv, BusyInv, PausingInv, CallInv, SleeperKnown, WaitBounded, Pending, Interrupted
<1>14. CASE Recheck
  BY <1>s, <1>14, Zenon DEF Recheck, vcpuVars, irqVars, wfiVars, wakeVars,
     WaitInv, ResetInv, BusyInv, PausingInv, CallInv, SleeperKnown, WaitBounded, Pending, Interrupted
<1>15. CASE Cancel
  BY <1>s, <1>15, Zenon DEF Cancel, vcpuVars, irqVars, wakeVars,
     WaitInv, ResetInv, BusyInv, PausingInv, CallInv, SleeperKnown, WaitBounded, Pending, Interrupted
<1>16. CASE WfiPause
  BY <1>s, <1>16, Zenon DEF WfiPause, ToPaused, irqVars, wfiVars, wakeVars,
     WaitInv, ResetInv, BusyInv, PausingInv, CallInv, SleeperKnown, WaitBounded, Pending, Interrupted
<1>17. CASE WaitResume \/ WfiTimeout
  BY <1>s, <1>17 DEF WaitResume, WfiTimeout, CallResume, Interruptible, Cause, vcpuVars, irqVars, wfiVars, cpuVars,
     WaitInv, ResetInv, BusyInv, PausingInv, CallInv, SleeperKnown, WaitBounded, Pending, Interrupted
<1>18. CASE TimerExpires
  BY <1>s, <1>18, Zenon DEF TimerExpires, vcpuVars, irqVars, cpuVars,
     WaitInv, ResetInv, BusyInv, PausingInv, CallInv, SleeperKnown, WaitBounded, Pending, Interrupted
<1>20. CASE WfiResumed
  BY <1>s, <1>20, Zenon DEF WfiResumed, ToReady, irqVars, wfiVars, cpuVars,
     WaitInv, ResetInv, BusyInv, PausingInv, CallInv, SleeperKnown, WaitBounded, Pending, Interrupted
<1>21. CASE Pause
  BY <1>s, <1>21, Zenon DEF Pause, ToPaused, Interruptible, irqVars, wfiVars, cpuVars, wakeVars,
     WaitInv, ResetInv, BusyInv, PausingInv, CallInv, SleeperKnown, WaitBounded, Pending, Interrupted
<1>22. CASE Resume
  BY <1>s, <1>22, Zenon DEF Resume, ToReady, irqVars, wfiVars, cpuVars, wakeVars,
     WaitInv, ResetInv, BusyInv, PausingInv, CallInv, SleeperKnown, WaitBounded, Pending, Interrupted
<1>23. CASE Halt
  BY <1>s, <1>23, Zenon DEF Halt, irqVars, wfiVars, cpuVars, wakeVars,
     WaitInv, ResetInv, BusyInv, PausingInv, CallInv, SleeperKnown, WaitBounded, Pending, Interrupted
<1>24. CASE Reset
  BY <1>s, <1>24, Zenon DEF Reset, wakeVars,
     WaitInv, ResetInv, BusyInv, PausingInv, CallInv, SleeperKnown, WaitBounded, Pending, Interrupted
<1>25. CASE UNCHANGED vars
  BY <1>s, <1>25, Zenon DEF vars, vcpuVars, irqVars, wfiVars, cpuVars, wakeVars,
     WaitInv, ResetInv, BusyInv, PausingInv, CallInv, SleeperKnown, WaitBounded, Pending, Interrupted
<1> QED
  BY <1>1, <1>2, <1>3, <1>4, <1>5, <1>6, <1>7, <1>8, <1>9, <1>10, <1>11, <1>12, <1>13, <1>14, <1>15, <1>16, <1>17,
     <1>18, <1>19, <1>20, <1>21, <1>22, <1>23, <1>24, <1>25, <1>26, <1>27, ZenonT(30) DEF Next, SourceStep, ProcessStep

-----------------------------------------------------------------------------
(* The invariant of virtual interrupts always holds. *)
LEMMA Invariant == Spec => []VcpuIrqInv
<1>1. VcpuIrqInv /\ [Next]_vars => VcpuIrqInv'
  BY StageKeeps, CountKeeps, KeptKeeps, WaitKeeps, Zenon DEF VcpuIrqInv, StageInv
<1> QED BY <1>1, InitInv, PTL DEF Spec

(* vmm_vcpu_irq_assert(), vmm_vcpu_irq_process() and vmm_vcpu_irq_clear()   *)
(* take no lock, and still lose no interrupt and no count of one: for any   *)
(* number of lines and of injections that fail.                             *)
THEOREM InterruptsKept == Spec => []LinesKept
<1>1. VcpuIrqInv => LinesKept BY Zenon DEF VcpuIrqInv, StageInv, Stages, CountInv, LinesKept
<1> QED BY <1>1, Invariant, PTL

(* vmm_vcpu_irq_wait_timeout() loses no wakeup: a VCPU that sleeps while an *)
(* interrupt is pending is about to be resumed by the source, whenever the  *)
(* call on its host CPU and the resume come.                                *)
THEOREM WakeupsKept == Spec => []SleeperWoken
<1>1. VcpuIrqInv => SleeperWoken
  BY Zenon DEF VcpuIrqInv, WaitInv, CallInv, SleeperWoken, NoLostWakeup
<1> QED BY <1>1, Invariant, PTL

(* The wait for an interrupt is bounded: its timer is never stopped or lost *)
(* while the VCPU is in the wait.                                           *)
THEOREM WaitsBounded == Spec => []WaitBounded
<1>1. VcpuIrqInv => WaitBounded BY Zenon DEF VcpuIrqInv, WaitInv
<1> QED BY <1>1, Invariant, PTL
=============================================================================
