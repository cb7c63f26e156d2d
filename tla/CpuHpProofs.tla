---------------------------- MODULE CpuHpProofs -----------------------------
(***************************************************************************)
(* Proofs about CpuHp, for any number of host CPUs and notifiers.          *)
(***************************************************************************)
EXTENDS CpuHp, ListProofs, WellFoundedInduction

(* What keeps NoneMissed true: a CPU whose startup did not fail is online, *)
(* so that vmm_cpuhp_register() calls it; calls are made to online CPUs    *)
(* only; and the CPUs that vmm_cpuhp_register() has passed have got the    *)
(* notifier that is being registered, or a call.                           *)
HpInv ==
    /\ TypeOK /\ NoneMissed
    /\ 0 \in up /\ up \ failed \subseteq online
    /\ \A c \in CPU : ipi[c] # {} => c \in online
    /\ OnlineNotify \in Linked(notify_list) /\ registering # OnlineNotify
    /\ registering # NoNotify =>
         /\ registering \in Linked(notify_list)
         /\ \A c \in up \ failed : c < next => registering \in started[c] \cup ipi[c]

(* The boot CPU is a CPU. *)
LEMMA BootCpu ==
  ASSUME ConstantsOK
  PROVE  0 \in CPU /\ \A c \in CPU : c \in Nat /\ c < CpuCount
  BY DEF ConstantsOK, CPU

(* The entries of the list of notifiers. *)
LEMMA Entries ==
  ASSUME TypeOK
  PROVE  /\ Len(notify_list) \in Nat /\ DOMAIN notify_list = 1 .. Len(notify_list)
         /\ Linked(notify_list) \subseteq Notify
<1>1. notify_list \in Seq(Notify) BY Zenon DEF TypeOK
<1> QED BY <1>1 DEF Linked

(* The boot CPU starts with the notifier of the scheduler. *)
LEMMA HpInit == ASSUME ConstantsOK, Init PROVE HpInv
<1>1. 0 \in CPU BY BootCpu, Zenon
<1>2. notify_list = <<OnlineNotify>> /\ OnlineNotify \in Notify BY Zenon DEF Init, ConstantsOK
<1>3. /\ notify_list \in Seq(Notify) /\ DOMAIN notify_list = {1} /\ notify_list[1] = OnlineNotify
  BY <1>2
<1>4. Linked(notify_list) = {OnlineNotify} BY <1>3, Zenon DEF Linked
<1>5. Once(notify_list) BY <1>3, Zenon DEF Once
<1>6. Sorted(notify_list, level) BY <1>3 DEF Sorted
<1>7. ipi \in [CPU -> SUBSET Notify] /\ \A c \in CPU : ipi[c] = {} BY Zenon DEF Init
<1>8. started \in [CPU -> SUBSET Notify] /\ started[0] = {OnlineNotify} BY <1>1, <1>2, Zenon DEF Init
<1>9. next \in 0 .. CpuCount BY DEF Init, ConstantsOK
<1>10. registering = NoNotify /\ registering # OnlineNotify BY <1>2, Zenon DEF Init, ConstantsOK
<1>11. up = {0} /\ online = {0} /\ failed = {} BY Zenon DEF Init
<1>12. TypeOK BY <1>1, <1>3, <1>5, <1>6, <1>7, <1>8, <1>9, <1>10, <1>11, Zenon DEF TypeOK
<1>13. NoneMissed BY <1>4, <1>8, <1>11, Zenon DEF NoneMissed
<1> QED BY <1>4, <1>7, <1>10, <1>11, <1>12, <1>13, Zenon DEF HpInv

(* A CPU that comes up starts all notifiers and is online, or has failed.  *)
LEMMA HpSetState ==
  ASSUME ConstantsOK, HpInv, NEW c \in CPU, SetState(c)
  PROVE  HpInv'
<1>1. TypeOK /\ NoneMissed BY Zenon DEF HpInv
<1>2. /\ Len(notify_list) \in Nat /\ DOMAIN notify_list = 1 .. Len(notify_list)
      /\ Linked(notify_list) \subseteq Notify
  BY <1>1, Entries, Zenon
<1>3. PICK n \in 0 .. Len(notify_list) :
        /\ Start(c, {notify_list[i] : i \in 1 .. n})
        /\ failed' = IF n < Len(notify_list) THEN failed \cup {c} ELSE failed
  BY Zenon DEF SetState
<1> DEFINE N == {notify_list[i] : i \in 1 .. n}
<1>4. N \subseteq Linked(notify_list)
  <2>1. \A i \in 1 .. n : i \in DOMAIN notify_list BY <1>2
  <2> QED BY <2>1, Zenon DEF Linked
<1>5. n < Len(notify_list) \/ N = Linked(notify_list)
  <2>1. CASE n < Len(notify_list) BY <2>1, Zenon
  <2>2. CASE ~(n < Len(notify_list))
    <3>1. n \in Int /\ n <= Len(notify_list) BY <1>2
    <3>2. \A a, b \in Int : a <= b /\ ~(a < b) => a = b OBVIOUS
    <3>3. Len(notify_list) \in Int BY <1>2
    <3>4. n = Len(notify_list) BY <2>2, <3>1, <3>2, <3>3, Zenon
    <3> QED BY <1>2, <3>4, Zenon DEF Linked
  <2> QED BY <2>1, <2>2, Zenon
<1> HIDE DEF N
<1>6. /\ started' = [started EXCEPT ![c] = @ \cup N]
      /\ online' = IF OnlineNotify \in N THEN online \cup {c} ELSE online
  BY <1>3, Zenon DEF Start, N
<1>7. c \notin up /\ up' = up \cup {c} /\ UNCHANGED <<notify_list, registering, next, ipi>>
  BY Zenon DEF SetState
<1>8. /\ started \in [CPU -> SUBSET Notify] /\ started' \in [CPU -> SUBSET Notify]
      /\ started'[c] = started[c] \cup N /\ \A d \in CPU : d # c => started'[d] = started[d]
  BY <1>1, <1>2, <1>4, <1>6, Zenon DEF TypeOK
<1>9. failed' = failed \cup {c} \/ (failed' = failed /\ N = Linked(notify_list))
  BY <1>3, <1>5, Zenon
<1>10. \A d \in up' \ failed' : (d \in up \ failed /\ d # c) \/ (d = c /\ N = Linked(notify_list))
  BY <1>7, <1>9
<1>11. up \subseteq CPU /\ online \subseteq up /\ failed \subseteq up BY <1>1, Zenon DEF TypeOK
<1>12. up' \subseteq CPU /\ online' \subseteq up' /\ failed' \subseteq up' /\ online \subseteq online'
  BY <1>6, <1>7, <1>9, <1>11, Zenon
<1>13. TypeOK' BY <1>1, <1>7, <1>8, <1>12, Zenon DEF TypeOK
<1>14. NoneMissed'
  <2> SUFFICES ASSUME NEW m \in Linked(notify_list) \ {registering}, NEW d \in up' \ failed'
               PROVE  m \in started'[d] \cup ipi[d]
    BY <1>7, Zenon DEF NoneMissed
  <2>1. CASE d \in up \ failed /\ d # c BY <1>1, <1>8, <1>11, <2>1, Zenon DEF NoneMissed
  <2>2. CASE d = c /\ N = Linked(notify_list) BY <1>8, <2>2, Zenon
  <2> QED BY <1>10, <2>1, <2>2, Zenon
<1>15. up' \ failed' \subseteq online' BY <1>6, <1>10, <1>12, Zenon DEF HpInv
<1>16. ASSUME registering # NoNotify, NEW d \in up' \ failed', d < next
       PROVE  registering \in started'[d] \cup ipi[d]
  <2>1. CASE d \in up \ failed /\ d # c BY <1>8, <1>11, <1>16, <2>1, Zenon DEF HpInv
  <2>2. CASE d = c /\ N = Linked(notify_list) BY <1>8, <1>16, <2>2, Zenon DEF HpInv
  <2> QED BY <1>10, <2>1, <2>2, Zenon
<1> QED BY <1>7, <1>12, <1>13, <1>14, <1>15, <1>16, Zenon DEF HpInv

(* vmm_cpuhp_register() links a notifier that no CPU has got yet. *)
LEMMA HpRegister ==
  ASSUME ConstantsOK, HpInv, NEW n \in Notify, Register(n)
  PROVE  HpInv'
<1>1. TypeOK /\ NoneMissed BY Zenon DEF HpInv
<1>2. /\ registering = NoNotify /\ n \notin Linked(notify_list) /\ registering' = n /\ next' = 0
      /\ notify_list' = AddSorted(notify_list, n, level) /\ UNCHANGED <<up, online, ipi, started, failed>>
  BY Zenon DEF Register
<1>3. /\ notify_list \in Seq(Notify) /\ Once(notify_list) /\ Sorted(notify_list, level)
      /\ level \in [Notify -> Nat]
  BY <1>1, Zenon DEF TypeOK, ConstantsOK
<1>4. HasLeast({i \in DOMAIN notify_list : level[n] < level[notify_list[i]]})
  <2> DEFINE S == {i \in DOMAIN notify_list : level[n] < level[notify_list[i]]}
  <2> SUFFICES ASSUME S # {} PROVE \E x \in S : \A y \in S : x <= y BY Zenon DEF HasLeast
  <2>1. S \in SUBSET Nat BY <1>3
  <2>2. PICK x \in S : \A y \in S : ~(<<y, x>> \in OpToRel(<, Nat))
    BY <2>1, WFMin, NatLessThanWellFounded, Zenon
  <2>3. \A y \in S : ~(y < x) BY <2>1, <2>2, Zenon DEF OpToRel
  <2> HIDE DEF S
  <2>4. \A y \in S : x <= y BY <2>1, <2>3
  <2> QED BY <2>4, Zenon
<1>5. /\ notify_list' \in Seq(Notify) /\ Linked(notify_list') = Linked(notify_list) \cup {n}
      /\ Once(notify_list') /\ Sorted(notify_list', level)
  <2> DEFINE new == AddSorted(notify_list, n, level)
  <2>1. /\ new \in Seq(Notify) /\ Linked(new) = Linked(notify_list) \cup {n}
        /\ Once(new) /\ Sorted(new, level)
    BY <1>2, <1>3, <1>4, AddSortedLinked
  <2> QED BY <1>2, <2>1, Zenon
<1>6. n # NoNotify /\ n # OnlineNotify BY <1>2, Zenon DEF ConstantsOK, HpInv
<1>7. 0 \in 0 .. CpuCount BY DEF ConstantsOK
<1>8. TypeOK' BY <1>1, <1>2, <1>5, <1>7, Zenon DEF TypeOK
<1>9. NoneMissed'
  <2> SUFFICES ASSUME NEW m \in (Linked(notify_list) \cup {n}) \ {n}, NEW c \in up \ failed
               PROVE  m \in started[c] \cup ipi[c]
    BY <1>2, <1>5, Zenon DEF NoneMissed
  <2>1. NoNotify \notin Linked(notify_list) BY <1>1, Entries, Zenon DEF ConstantsOK
  <2> QED BY <1>1, <1>2, <2>1, Zenon DEF NoneMissed
<1>10. \A c \in up \ failed : ~(c < 0)
  <2>1. up \subseteq CPU BY <1>1, Zenon DEF TypeOK
  <2> QED BY <2>1, BootCpu
<1> QED BY <1>2, <1>5, <1>6, <1>8, <1>9, <1>10, Zenon DEF HpInv

(* The steps by which vmm_cpuhp_register() goes on. *)
LEMMA HpStartHere == ASSUME ConstantsOK, HpInv, StartHere PROVE HpInv'
<1>1. TypeOK /\ NoneMissed BY Zenon DEF HpInv
<1>2. /\ registering # NoNotify /\ next' = 1 /\ Start(0, {registering})
      /\ UNCHANGED <<up, notify_list, registering, ipi, failed>>
  BY Zenon DEF StartHere
<1>3. registering \in Notify /\ registering # OnlineNotify BY <1>1, <1>2, Zenon DEF TypeOK, HpInv
<1>4. started' = [started EXCEPT ![0] = @ \cup {registering}] /\ online' = online
  BY <1>2, <1>3, Zenon DEF Start
<1>5. 0 \in CPU BY BootCpu, Zenon
<1>6. /\ started' \in [CPU -> SUBSET Notify] /\ started'[0] = started[0] \cup {registering}
      /\ \A c \in CPU : started[c] \subseteq started'[c]
  BY <1>1, <1>3, <1>4, <1>5, Zenon DEF TypeOK
<1>7. 1 \in 0 .. CpuCount BY DEF ConstantsOK
<1>8. TypeOK' BY <1>1, <1>2, <1>4, <1>6, <1>7, Zenon DEF TypeOK
<1>9. up \subseteq CPU BY <1>1, Zenon DEF TypeOK
<1>10. NoneMissed' BY <1>1, <1>2, <1>6, <1>9, Zenon DEF NoneMissed
<1>11. \A c \in up : c < 1 => c = 0 BY <1>9, BootCpu
<1>12. \A c \in up \ failed : c < 1 => registering \in started'[c] \cup ipi[c] BY <1>6, <1>11, Zenon
<1> QED BY <1>2, <1>4, <1>8, <1>10, <1>12, Zenon DEF HpInv

(* A CPU that is up, and whose startup did not fail, is online and called. *)
LEMMA HpLookAt == ASSUME ConstantsOK, HpInv, LookAt PROVE HpInv'
<1>1. TypeOK /\ NoneMissed BY Zenon DEF HpInv
<1>2. /\ registering # NoNotify /\ next \in 1 .. CpuCount - 1 /\ next' = next + 1
      /\ ipi' = IF next \in online THEN [ipi EXCEPT ![next] = @ \cup {registering}] ELSE ipi
      /\ UNCHANGED <<up, online, notify_list, registering, started, failed>>
  BY Zenon DEF LookAt, Calls
<1>3. registering \in Notify BY <1>1, <1>2, Zenon DEF TypeOK
<1>4. next \in CPU /\ next + 1 \in 0 .. CpuCount /\ \A c \in CPU : c < next + 1 => c < next \/ c = next
  BY <1>2 DEF ConstantsOK, CPU
<1>5. /\ ipi' \in [CPU -> SUBSET Notify] /\ \A c \in CPU : ipi[c] \subseteq ipi'[c]
      /\ next \in online => registering \in ipi'[next]
      /\ \A c \in CPU : ipi'[c] = ipi[c] \/ (c = next /\ next \in online)
  BY <1>1, <1>2, <1>3, <1>4, Zenon DEF TypeOK
<1>6. TypeOK' BY <1>1, <1>2, <1>4, <1>5, Zenon DEF TypeOK
<1>7. up \subseteq CPU BY <1>1, Zenon DEF TypeOK
<1>8. NoneMissed' BY <1>1, <1>2, <1>5, <1>7, Zenon DEF NoneMissed
<1>9. ASSUME NEW c \in up \ failed, c < next + 1 PROVE registering \in started[c] \cup ipi'[c]
  <2>1. CASE c < next BY <1>2, <1>5, <1>7, <2>1, Zenon DEF HpInv
  <2>2. CASE c = next BY <1>5, <2>2, Zenon DEF HpInv
  <2> QED BY <1>4, <1>7, <1>9, <2>1, <2>2, Zenon
<1>10. \A c \in CPU : ipi'[c] # {} => c \in online BY <1>5, Zenon DEF HpInv
<1> QED BY <1>2, <1>6, <1>8, <1>9, <1>10, Zenon DEF HpInv

(* When it returns it has passed every CPU. *)
LEMMA HpRegistered == ASSUME ConstantsOK, HpInv, Registered PROVE HpInv'
<1>1. TypeOK /\ NoneMissed BY Zenon DEF HpInv
<1>2. /\ registering # NoNotify /\ next = CpuCount /\ registering' = NoNotify /\ next' = 0
      /\ UNCHANGED <<up, online, notify_list, ipi, started, failed>>
  BY Zenon DEF Registered
<1>3. 0 \in 0 .. CpuCount BY DEF ConstantsOK
<1>4. TypeOK' BY <1>1, <1>2, <1>3, Zenon DEF TypeOK
<1>5. \A c \in up \ failed : c < next BY <1>1, <1>2, BootCpu, Zenon DEF TypeOK
<1>6. \A c \in up \ failed : registering \in started[c] \cup ipi[c] BY <1>2, <1>5, Zenon DEF HpInv
<1>7. NoneMissed'
  <2> SUFFICES ASSUME NEW n \in Linked(notify_list), NEW c \in up \ failed
               PROVE  n \in started[c] \cup ipi[c]
    BY <1>2, Zenon DEF NoneMissed
  <2> QED BY <1>1, <1>6, Zenon DEF NoneMissed
<1>8. NoNotify # OnlineNotify BY Zenon DEF ConstantsOK
<1> QED BY <1>2, <1>4, <1>7, <1>8, Zenon DEF HpInv

(* A call that is carried out has started its notifier. *)
LEMMA HpRegisterSync ==
  ASSUME ConstantsOK, HpInv, NEW c \in CPU, NEW n \in Notify, RegisterSync(c, n)
  PROVE  HpInv'
<1>1. TypeOK /\ NoneMissed BY Zenon DEF HpInv
<1>2. /\ n \in ipi[c] /\ ipi' = [ipi EXCEPT ![c] = @ \ {n}] /\ Start(c, {n})
      /\ UNCHANGED <<up, notify_list, registering, next, failed>>
  BY Zenon DEF RegisterSync
<1>3. c \in online BY <1>2, Zenon DEF HpInv
<1>4. started' = [started EXCEPT ![c] = @ \cup {n}] /\ online' = online BY <1>2, <1>3, Zenon DEF Start
<1>5. /\ ipi' \in [CPU -> SUBSET Notify] /\ started' \in [CPU -> SUBSET Notify]
      /\ \A d \in CPU : ipi'[d] \subseteq ipi[d]
      /\ \A d \in CPU : started[d] \cup ipi[d] \subseteq started'[d] \cup ipi'[d]
  BY <1>1, <1>2, <1>4, Zenon DEF TypeOK
<1>6. TypeOK' BY <1>1, <1>2, <1>4, <1>5, Zenon DEF TypeOK
<1>7. up \subseteq CPU BY <1>1, Zenon DEF TypeOK
<1>8. NoneMissed' BY <1>1, <1>2, <1>5, <1>7, Zenon DEF NoneMissed
<1>9. \A d \in CPU : ipi'[d] # {} => d \in online BY <1>5, Zenon DEF HpInv
<1> QED BY <1>2, <1>4, <1>5, <1>6, <1>7, <1>8, <1>9, Zenon DEF HpInv

(* No host CPU misses a notifier: whether it comes up before, while or     *)
(* after vmm_cpuhp_register() walks the online CPUs, it starts the         *)
(* notifier itself or is called to; and the list stays sorted by the       *)
(* states at which the notifiers start.                                    *)
THEOREM HotplugSound == ConstantsOK => (Spec => [](TypeOK /\ NoneMissed))
<1> SUFFICES ASSUME ConstantsOK PROVE Spec => [](TypeOK /\ NoneMissed) OBVIOUS
<1>1. Init => HpInv BY HpInit, Zenon
<1>2. HpInv /\ [Next]_vars => HpInv'
  <2> SUFFICES ASSUME HpInv, [Next]_vars PROVE HpInv' OBVIOUS
  <2>1. ASSUME NEW c \in CPU, SetState(c) PROVE HpInv' BY <2>1, HpSetState, Zenon
  <2>2. ASSUME NEW c \in CPU, NEW n \in Notify, RegisterSync(c, n) PROVE HpInv'
    BY <2>2, HpRegisterSync, Zenon
  <2>3. ASSUME NEW n \in Notify, Register(n) PROVE HpInv' BY <2>3, HpRegister, Zenon
  <2>4. CASE StartHere BY <2>4, HpStartHere, Zenon
  <2>5. CASE LookAt BY <2>5, HpLookAt, Zenon
  <2>6. CASE Registered BY <2>6, HpRegistered, Zenon
  <2>7. CASE UNCHANGED vars BY <2>7, Zenon DEF vars, HpInv, TypeOK, NoneMissed
  <2> QED BY <2>1, <2>2, <2>3, <2>4, <2>5, <2>6, <2>7, Zenon DEF Next
<1>3. HpInv => TypeOK /\ NoneMissed BY Zenon DEF HpInv
<1> QED BY <1>1, <1>2, <1>3, PTL DEF Spec
=============================================================================
