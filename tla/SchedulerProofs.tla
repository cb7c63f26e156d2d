-------------------------- MODULE SchedulerProofs ---------------------------
(***************************************************************************)
(* Proofs about the scheduler, for every set of host CPUs and VCPUs and    *)
(* every number of priorities: the ready queues, what the invariant of     *)
(* SchedulerInv gives, how a step leaves it alone, and that context        *)
(* switches, interrupts, threads that sleep and state changes keep it: one *)
(* lemma for each action.  Each conjunct of the invariant that the action  *)
(* can disturb is proved from the values of the variables after it, VCPU   *)
(* by VCPU; Frame gives the others.                                        *)
(***************************************************************************)
EXTENDS SchedulerInv, SchedulerSwitch, SchedulerChange, ListProofs

(* What the operations of the ready queue do to the VCPUs linked in it. *)
Queues(V) == [Priorities -> Seq(V)]

(* rq_enqueue() keeps the shape of the queue. *)
LEMMA EnqueueType ==
  ASSUME NEW V, NEW q \in Queues(V), NEW v \in V, NEW p \in Priorities
  PROVE  rq_enqueue(q, v, p) \in Queues(V)
  BY AppendLinked, Zenon DEF rq_enqueue, Queues

(* It links the VCPU at the tail of the list of its priority. *)
LEMMA Enqueue ==
  ASSUME NEW V, NEW q \in Queues(V), NEW v \in V, NEW p \in Priorities
  PROVE  /\ \A o \in Priorities : o # p => rq_enqueue(q, v, p)[o] = q[o]
         /\ Linked(rq_enqueue(q, v, p)[p]) = Linked(q[p]) \cup {v}
         /\ Once(q[p]) /\ v \notin Linked(q[p]) => Once(rq_enqueue(q, v, p)[p])
<1>1. q[p] \in Seq(V) BY Zenon DEF Queues
<1>2. \A o \in Priorities : rq_enqueue(q, v, p)[o] = IF o = p THEN Append(q[p], v) ELSE q[o]
  BY Zenon DEF rq_enqueue, Queues
<1> QED BY <1>1, <1>2, AppendLinked

(* So the queue has one more entry. *)
LEMMA EnqueueQueued ==
  ASSUME NEW V, NEW q \in Queues(V), NEW v \in V, NEW p \in Priorities
  PROVE  Queued(rq_enqueue(q, v, p)) = Queued(q) \cup {v}
<1>1. Linked(rq_enqueue(q, v, p)[p]) = Linked(q[p]) \cup {v} BY Enqueue
<1>2. \A o \in Priorities : o # p => rq_enqueue(q, v, p)[o] = q[o] BY Enqueue
<1> QED BY <1>1, <1>2, Zenon DEF Queued

(* The scan of rq_dequeue() finds a list with an entry when there is one.  *)
(* This is a fact about the priorities, proved as ScanWorks in             *)
(* SchedulerInvProofs by well-founded induction; the lemmas that rest on   *)
(* it name it.                                                             *)
ScanFinds ==
    \A q \in Queues(VCPU) : Queued(q) # {} => TopPriority(q) \in Priorities /\ q[TopPriority(q)] # << >>

(* Both keep the shape of the queue. *)
LEMMA QueueTypes ==
  ASSUME NEW q \in Queues(VCPU), NEW v \in VCPU
  PROVE  /\ ScanFinds /\ Queued(q) # {} => rq_dequeue(q) \in Queues(VCPU) /\ rq_first(q) \in VCPU
         /\ rq_detach(q, v) \in Queues(VCPU)
<1>1. ASSUME ScanFinds, Queued(q) # {} PROVE rq_dequeue(q) \in Queues(VCPU) /\ rq_first(q) \in VCPU
  <2> DEFINE t == TopPriority(q)
  <2>1. t \in Priorities /\ q[t] # << >> /\ q[t] \in Seq(VCPU) BY <1>1, Zenon DEF Queues, ScanFinds
  <2> HIDE DEF t
  <2>2. Tail(q[t]) \in Seq(VCPU) /\ Head(q[t]) \in VCPU BY <2>1, TailLinked, Zenon
  <2> QED BY <2>1, <2>2, Zenon DEF rq_dequeue, rq_first, Queues, t
<1>2. ASSUME NEW list \in Seq(VCPU) PROVE Unlink(list, v) \in Seq(VCPU)
  <2>1. CASE v \notin Linked(list) BY <2>1, Zenon DEF Unlink
  <2>2. CASE v \in Linked(list)
    <3> DEFINE k == CHOOSE i \in DOMAIN list : list[i] = v
    <3>1. k \in DOMAIN list BY <2>2, Zenon DEF Linked
    <3>2. Unlink(list, v) = SubSeq(list, 1, k - 1) \o SubSeq(list, k + 1, Len(list))
      BY <2>2, ZenonT(60) DEF Unlink
    <3> HIDE DEF k
    <3>3. /\ k - 1 \in Int /\ k + 1 \in Int /\ Len(list) \in Int
          /\ \A i \in 1 .. k - 1 : list[i] \in VCPU
          /\ \A i \in k + 1 .. Len(list) : list[i] \in VCPU
      BY <3>1
    <3>4. SubSeq(list, 1, k - 1) \in Seq(VCPU) /\ SubSeq(list, k + 1, Len(list)) \in Seq(VCPU)
      BY <3>3, SubSeqProperties
    <3> QED BY <3>2, <3>4, ConcatProperties, Zenon
  <2> QED BY <2>1, <2>2, Zenon
<1>3. rq_detach(q, v) \in Queues(VCPU) BY <1>2, Zenon DEF rq_detach, Queues
<1> QED BY <1>1, <1>3, Zenon

(* rq_dequeue() unlinks the entry it returns, and only it. *)
LEMMA Dequeue ==
  ASSUME ScanFinds, NEW q \in Queues(VCPU), Queued(q) # {}, \A o \in Priorities : Once(q[o]),
         \A o, p \in Priorities : o # p => Linked(q[o]) \cap Linked(q[p]) = {}
  PROVE  /\ rq_dequeue(q) \in Queues(VCPU)
         /\ rq_first(q) \in VCPU /\ rq_first(q) \in Queued(q)
         /\ \A o \in Priorities : /\ Linked(rq_dequeue(q)[o]) = Linked(q[o]) \ {rq_first(q)}
                                 /\ Once(rq_dequeue(q)[o])
         /\ Queued(rq_dequeue(q)) = Queued(q) \ {rq_first(q)}
<1> DEFINE t == TopPriority(q)
<1>1. t \in Priorities /\ q[t] # << >> BY Zenon DEF ScanFinds
<1> HIDE DEF t
<1>2. q[t] \in Seq(VCPU) BY <1>1, Zenon DEF Queues
<1>3. rq_first(q) = Head(q[t]) BY Zenon DEF rq_first, t
<1>4. \A o \in Priorities : rq_dequeue(q)[o] = IF o = t THEN Tail(q[t]) ELSE q[o]
  BY Zenon DEF rq_dequeue, Queues, t
<1>5. rq_dequeue(q) \in Queues(VCPU) BY <1>1, <1>2, TailLinked, Zenon DEF rq_dequeue, Queues, t
<1>6. /\ Head(q[t]) \in VCPU /\ Head(q[t]) \in Linked(q[t])
      /\ Linked(Tail(q[t])) = Linked(q[t]) \ {Head(q[t])} /\ Once(Tail(q[t]))
  <2>1. /\ Head(q[t]) \in VCPU /\ Head(q[t]) \in Linked(q[t])
        /\ Linked(q[t]) = Linked(Tail(q[t])) \cup {Head(q[t])}
        /\ Once(Tail(q[t])) /\ Head(q[t]) \notin Linked(Tail(q[t]))
    BY <1>1, <1>2, TailLinked, Zenon
  <2> QED BY <2>1, Zenon
<1>7. \A o \in Priorities : /\ Linked(rq_dequeue(q)[o]) = Linked(q[o]) \ {rq_first(q)}
                           /\ Once(rq_dequeue(q)[o])
  <2> SUFFICES ASSUME NEW o \in Priorities
               PROVE  /\ Linked(rq_dequeue(q)[o]) = Linked(q[o]) \ {rq_first(q)}
                      /\ Once(rq_dequeue(q)[o])
    BY Zenon
  <2>1. CASE o = t BY <1>3, <1>4, <1>6, <2>1, Zenon
  <2>2. CASE o # t
    <3>1. Head(q[t]) \notin Linked(q[o]) BY <1>1, <1>6, <2>2, Zenon
    <3> QED BY <1>3, <1>4, <2>2, <3>1, Zenon
  <2> QED BY <2>1, <2>2, Zenon
<1>8. rq_first(q) \in Queued(q) BY <1>1, <1>3, <1>6, Zenon DEF Queued
<1>9. Queued(rq_dequeue(q)) = Queued(q) \ {rq_first(q)} BY <1>7 DEF Queued
<1> QED BY <1>3, <1>5, <1>6, <1>7, <1>8, <1>9, Zenon

(* rq_detach() unlinks the VCPU wherever it is linked, and no other. *)
LEMMA Detach ==
  ASSUME NEW V, NEW q \in Queues(V), NEW v \in V, \A o \in Priorities : Once(q[o])
  PROVE  /\ rq_detach(q, v) \in Queues(V)
         /\ \A o \in Priorities : /\ Linked(rq_detach(q, v)[o]) = Linked(q[o]) \ {v}
                                 /\ Once(rq_detach(q, v)[o])
         /\ Queued(rq_detach(q, v)) = Queued(q) \ {v}
<1>1. \A o \in Priorities : /\ Unlink(q[o], v) \in Seq(V) /\ Once(Unlink(q[o], v))
                           /\ Linked(Unlink(q[o], v)) = Linked(q[o]) \ {v}
  BY UnlinkLinked DEF Queues
<1>2. \A o \in Priorities : rq_detach(q, v)[o] = Unlink(q[o], v) BY Zenon DEF rq_detach
<1>3. rq_detach(q, v) \in Queues(V) BY <1>1, Zenon DEF rq_detach, Queues
<1>4. \A o \in Priorities : /\ Linked(rq_detach(q, v)[o]) = Linked(q[o]) \ {v}
                           /\ Once(rq_detach(q, v)[o])
  BY <1>1, <1>2, Zenon
<1>5. Queued(rq_detach(q, v)) = Queued(q) \ {v} BY <1>4 DEF Queued
<1> QED BY <1>3, <1>4, <1>5, Zenon

-----------------------------------------------------------------------------
(***************************************************************************)
(* The ready queues of the host CPUs.                                      *)
(***************************************************************************)

(* The ready queues are well formed: every entry is linked once, in the    *)
(* list of its priority.                                                   *)
Shape ==
    \A c \in CPU, p \in Priorities :
        Once(rq[c][p]) /\ \A v \in Linked(rq[c][p]) : priority[v] = p

(* What is linked in them is READY and on its host CPU. *)
QueuedReady == \A c \in CPU : \A v \in Queued(rq[c]) : state[v] = "READY" /\ hcpu[v] = c

(* LinkedOnce in terms of the set of VCPUs that a ready queue links. *)
LEMMA LinkedOnceQueued ==
  /\ LinkedOnce <=> Shape /\ QueuedReady
  /\ LinkedOnce' <=> Shape' /\ QueuedReady'
  BY DEF LinkedOnce, Shape, QueuedReady, Queued

(* rq_enqueue() of a VCPU that is not linked. *)
LEMMA EnqueueShape ==
  ASSUME TypeOK, Shape, NEW h \in CPU, NEW v \in VCPU, v \notin Queued(rq[h]),
         rq' = [rq EXCEPT ![h] = rq_enqueue(@, v, priority[v])]
  PROVE  /\ Shape'
         /\ \A c \in CPU : Queued(rq'[c]) = IF c = h THEN Queued(rq[c]) \cup {v} ELSE Queued(rq[c])
<1> DEFINE e == rq_enqueue(rq[h], v, priority[v])
<1>t. rq \in [CPU -> Queues(VCPU)] BY Zenon DEF TypeOK, Queues
<1>1. priority[v] \in Priorities BY SchedulerAssumption, Zenon
<1>2. /\ \A o \in Priorities : o # priority[v] => e[o] = rq[h][o]
      /\ Linked(e[priority[v]]) = Linked(rq[h][priority[v]]) \cup {v}
      /\ Once(rq[h][priority[v]]) /\ v \notin Linked(rq[h][priority[v]]) => Once(e[priority[v]])
      /\ Queued(e) = Queued(rq[h]) \cup {v}
  BY <1>t, <1>1, Enqueue, EnqueueQueued
<1>3. v \notin Linked(rq[h][priority[v]]) BY <1>1, Zenon DEF Queued
<1>4. \A c \in CPU : rq'[c] = IF c = h THEN e ELSE rq[c] BY <1>t, Zenon
<1> HIDE DEF e
<1>5. Shape' BY <1>1, <1>2, <1>3, <1>4 DEF Shape
<1> QED BY <1>2, <1>4, <1>5

(* rq_dequeue() of a queue that is not empty. *)
LEMMA DequeueShape ==
  ASSUME ScanFinds, TypeOK, LinkedOnce, NEW h \in CPU, Queued(rq[h]) # {},
         rq' = [rq EXCEPT ![h] = rq_dequeue(@)]
  PROVE  LET n == rq_first(rq[h]) IN
         /\ Shape' /\ n \in VCPU /\ n \in Queued(rq[h])
         /\ \A c \in CPU : Queued(rq'[c]) = Queued(rq[c]) \ {n}
<1> DEFINE d == rq_dequeue(rq[h])
           n == rq_first(rq[h])
<1>t. rq \in [CPU -> Queues(VCPU)] BY Zenon DEF TypeOK, Queues
<1>1. \A o \in Priorities : Once(rq[h][o]) BY Zenon DEF LinkedOnce
<1>2. \A o, p \in Priorities : o # p => Linked(rq[h][o]) \cap Linked(rq[h][p]) = {} BY DEF LinkedOnce
<1>3. /\ n \in VCPU /\ n \in Queued(rq[h])
      /\ \A o \in Priorities : Linked(d[o]) = Linked(rq[h][o]) \ {n} /\ Once(d[o])
      /\ Queued(d) = Queued(rq[h]) \ {n}
  BY <1>t, <1>1, <1>2, Dequeue, Zenon
<1>4. \A c \in CPU : rq'[c] = IF c = h THEN d ELSE rq[c] BY <1>t, Zenon
<1> HIDE DEF d, n
<1>5. Shape' BY <1>3, <1>4 DEF Shape, LinkedOnce
<1>6. \A c \in CPU : c # h => n \notin Queued(rq[c]) BY <1>3, LinkedOnceQueued DEF QueuedReady
<1> QED BY <1>3, <1>4, <1>5, <1>6, Zenon DEF n

(* The ranges of the variables, one VCPU or host CPU at a time. *)
LEMMA Ranges ==
  ASSUME TypeOK
  PROVE  /\ \A v \in VCPU : /\ state[v] \in States /\ hcpu[v] \in CPU /\ preempt_count[v] \in Nat
                            /\ sched_lock[v] \in CPU \cup {NoCpu}
                            /\ phase[v] \in {"none", "asleep", "woken"}
         /\ \A c \in CPU : /\ sw[c].cur \in VCPU \cup {NoVcpu} /\ sw[c].next \in VCPU \cup {NoVcpu}
                           /\ sw[c].step \in {"none", "start", "dequeue", "lock", "release"}
                           /\ current_vcpu[c] \in VCPU \cup {NoVcpu}
  BY Zenon DEF TypeOK, Switches

(* No switch is under way. *)
LEMMA NoSwitchFields == NoSwitch.step = "none" /\ NoSwitch.cur = NoVcpu /\ NoSwitch.next = NoVcpu
  BY Zenon DEF NoSwitch, SwitchAt

(* Only VCPUs are linked in the ready queues. *)
LEMMA QueuedVcpus ==
  ASSUME TypeOK
  PROVE  \A c \in CPU : Queued(rq[c]) \subseteq VCPU
  BY DEF Queued, TypeOK, Linked

-----------------------------------------------------------------------------
(***************************************************************************)
(* What a step that leaves some variables alone keeps of the invariant.    *)
(***************************************************************************)

(* A conjunct of the invariant holds on when the variables it is about stay *)
(* the same: each host CPU touches few of them between two critical        *)
(* sections.                                                               *)
LEMMA Frame ==
  ASSUME IndInv
  PROVE  /\ UNCHANGED current_vcpu => OneCpuPerVcpu'
         /\ UNCHANGED <<rq, state, hcpu>> => LinkedOnce'
         /\ UNCHANGED <<rq, state, hcpu, sw>> => ReadyNotLost'
         /\ UNCHANGED <<state, current_vcpu, hcpu>> => RunningIsCurrent'
         /\ UNCHANGED <<sw, current_vcpu, sched_lock>> => SwitchInv'
         /\ UNCHANGED <<sw, state, saved, preempt_count, wq_lock>> => LeavingInv'
         /\ UNCHANGED <<sw, rq, current_vcpu, state, hcpu>> => NextInv'
         /\ UNCHANGED <<current_vcpu, state, sched_lock, hcpu, saved>> => CurrentInv'
         /\ UNCHANGED <<current_vcpu, saved, wq_owner, preempt_count>> => OffInv'
         /\ UNCHANGED <<state, current_vcpu, wq_cleanup, phase>> => KindInv'
         /\ UNCHANGED <<hcpu, ipi_migrate>> => AffinityInv'
         /\ UNCHANGED <<wq_lock, phase, sleep_cpu, hcpu, wq_cleanup, state, wq_owner, current_vcpu,
                        preempt_count>> => SleepInv'
         /\ UNCHANGED <<wq_owner, phase, current_vcpu, sw, mode, state, preempt_count>> => OwnerInv'
         /\ UNCHANGED <<sw, wq_lock, wq_owner, phase, current_vcpu, hcpu, state>> => ReleaseInv'
<1>1. UNCHANGED current_vcpu => OneCpuPerVcpu' BY Zenon DEF IndInv, OneCpuPerVcpu
<1>2. UNCHANGED <<rq, state, hcpu>> => LinkedOnce' BY DEF IndInv, LinkedOnce
<1>3. UNCHANGED <<rq, state, hcpu, sw>> => ReadyNotLost' BY Zenon DEF IndInv, ReadyNotLost
<1>4. UNCHANGED <<state, current_vcpu, hcpu>> => RunningIsCurrent' BY Zenon DEF IndInv, RunningIsCurrent
<1>5. UNCHANGED <<sw, current_vcpu, sched_lock>> => SwitchInv' BY DEF IndInv, SwitchInv
<1>6. UNCHANGED <<sw, state, saved, preempt_count, wq_lock>> => LeavingInv' BY Zenon DEF IndInv, LeavingInv
<1>7. UNCHANGED <<sw, rq, current_vcpu, state, hcpu>> => NextInv' BY DEF IndInv, NextInv, Booted
<1>8. UNCHANGED <<current_vcpu, state, sched_lock, hcpu, saved>> => CurrentInv' BY DEF IndInv, CurrentInv
<1>9. UNCHANGED <<current_vcpu, saved, wq_owner, preempt_count>> => OffInv' BY Zenon DEF IndInv, OffInv
<1>10. UNCHANGED <<state, current_vcpu, wq_cleanup, phase>> => KindInv' BY Zenon DEF IndInv, KindInv, Booted
<1>11. UNCHANGED <<hcpu, ipi_migrate>> => AffinityInv' BY Zenon DEF IndInv, AffinityInv
<1>12. UNCHANGED <<wq_lock, phase, sleep_cpu, hcpu, wq_cleanup, state, wq_owner, current_vcpu,
                   preempt_count>> => SleepInv'
  BY DEF IndInv, SleepInv
<1>13. UNCHANGED <<wq_owner, phase, current_vcpu, sw, mode, state, preempt_count>> => OwnerInv'
  BY DEF IndInv, OwnerInv
<1>14. UNCHANGED <<sw, wq_lock, wq_owner, phase, current_vcpu, hcpu, state>> => ReleaseInv'
  BY DEF IndInv, ReleaseInv
<1> QED BY <1>1, <1>2, <1>3, <1>4, <1>5, <1>6, <1>7, <1>8, <1>9, <1>10, <1>11, <1>12, <1>13, <1>14, Zenon

(* A step that sets none of the variables of the invariant keeps it. *)
LEMMA SameKeeps ==
  ASSUME IndInv, TypeOK',
         UNCHANGED <<state, hcpu, sched_lock, saved, preempt_count, wq_lock, wq_cleanup, phase, sleep_cpu,
                     wq_owner, rq, current_vcpu, sw, mode, ipi_migrate>>
  PROVE  IndInv'
<1>1. /\ OneCpuPerVcpu' /\ LinkedOnce' /\ ReadyNotLost' /\ RunningIsCurrent' /\ SwitchInv' /\ LeavingInv'
      /\ NextInv' /\ CurrentInv' /\ OffInv' /\ KindInv' /\ AffinityInv' /\ SleepInv' /\ OwnerInv' /\ ReleaseInv'
  BY Frame, Zenon
<1> QED BY <1>1, Zenon DEF IndInv

(* As long as no dequeue or state change happens, READY VCPUs stay findable *)
(* and those that switches have dequeued stay theirs.                      *)
LEMMA SameNext ==
  ASSUME IndInv, TypeOK, UNCHANGED <<rq, current_vcpu, state, hcpu>>, \A d \in CPU : sw'[d].next = sw[d].next
  PROVE  ReadyNotLost' /\ NextInv'
<1>1. ReadyNotLost' BY Ranges, Zenon DEF IndInv, ReadyNotLost
<1>2. NextInv'
  <2> SUFFICES ASSUME NEW d \in CPU, sw[d].next # NoVcpu PROVE NextInv!(d)!2'
    BY Zenon DEF NextInv
  <2>1. Booted' = Booted BY Zenon DEF Booted
  <2>2. NextInv!(d)!2 BY Zenon DEF IndInv, NextInv
  <2> QED BY <2>1, <2>2, Zenon
<1> QED BY <1>1, <1>2, Zenon

(* vmm_scheduler_switch() is entered on c, or nothing changes there. *)
Begin(c) == sw' = sw \/ (sw[c].step = "none" /\ sw' = [sw EXCEPT ![c] = Switching(c)])

(* The same for a host CPU that enters vmm_scheduler_switch(), before it   *)
(* takes any lock.                                                         *)
LEMMA BeginFrame ==
  ASSUME IndInv, TypeOK, NEW c \in CPU, Begin(c)
  PROVE  /\ \A d \in CPU : \/ sw'[d] = sw[d]
                           \/ d = c /\ sw[d].step = "none" /\ sw'[d].step = "start"
         /\ \A d \in CPU : sw'[d].next = sw[d].next
         /\ UNCHANGED <<rq, state, hcpu>> => ReadyNotLost'
         /\ UNCHANGED <<current_vcpu, sched_lock>> => SwitchInv'
         /\ UNCHANGED <<state, saved, preempt_count, wq_lock>> => LeavingInv'
         /\ UNCHANGED <<rq, current_vcpu, state, hcpu>> => NextInv'
         /\ UNCHANGED <<wq_lock, wq_owner, phase, current_vcpu, hcpu, state>> => ReleaseInv'
         /\ /\ UNCHANGED <<wq_owner, phase, current_vcpu, state, preempt_count>>
            /\ \A d \in CPU : d # c => mode'[d] = mode[d]
            /\ current_vcpu[c] \in VCPU => phase[current_vcpu[c]] = "none" \/ mode[c] # "vcpu"
            => OwnerInv'
<1>1. \A d \in CPU : \/ sw'[d] = sw[d]
                     \/ /\ d = c /\ sw[d].step = "none" /\ sw'[d].step = "start"
                        /\ sw'[d].cur = current_vcpu[d] /\ sw[d].next = NoVcpu /\ sw'[d].next = NoVcpu
  BY DEF Begin, Switching, SwitchAt, IndInv, TypeOK, SwitchInv
<1>2. \A d \in CPU : sw'[d].next = sw[d].next BY <1>1, Zenon
<1>3. UNCHANGED <<rq, state, hcpu>> => ReadyNotLost' BY <1>2, Ranges, Zenon DEF IndInv, ReadyNotLost
<1>4. UNCHANGED <<current_vcpu, sched_lock>> => SwitchInv' BY <1>1, <1>2 DEF IndInv, SwitchInv
<1>5. UNCHANGED <<state, saved, preempt_count, wq_lock>> => LeavingInv' BY <1>1 DEF IndInv, LeavingInv
<1>6. UNCHANGED <<rq, current_vcpu, state, hcpu>> => NextInv' BY <1>2 DEF IndInv, NextInv, Booted
<1>7. UNCHANGED <<wq_lock, wq_owner, phase, current_vcpu, hcpu, state>> => ReleaseInv'
  BY <1>1 DEF IndInv, ReleaseInv
<1>8. ASSUME UNCHANGED <<wq_owner, phase, current_vcpu, state, preempt_count>>,
             \A d \in CPU : d # c => mode'[d] = mode[d],
             current_vcpu[c] \in VCPU => phase[current_vcpu[c]] = "none" \/ mode[c] # "vcpu"
      PROVE  OwnerInv'
  <2> SUFFICES ASSUME NEW v \in VCPU, wq_owner = v PROVE OwnerInv!(v)!2'
    BY <1>8, Zenon DEF OwnerInv
  <2>1. CASE phase[v] = "woken" BY <1>1, <1>8, <2>1 DEF IndInv, OwnerInv
  <2>2. CASE phase[v] # "woken" BY <1>1, <1>8, <2>2 DEF IndInv, OwnerInv
  <2> QED BY <2>1, <2>2, Zenon
<1> QED BY <1>1, <1>2, <1>3, <1>4, <1>5, <1>6, <1>7, <1>8, Zenon

(* The safety properties of the scheduler follow from the invariant. *)
LEMMA InvGives == IndInv => DequeueNeverFails /\ ContextIntact /\ NoSwitchDeadlock /\ LockHandedOver
<1> SUFFICES ASSUME IndInv, TypeOK PROVE DequeueNeverFails /\ ContextIntact /\ NoSwitchDeadlock /\ LockHandedOver
  BY Zenon DEF IndInv
<1>1. DequeueNeverFails
  <2> SUFFICES ASSUME NEW c \in CPU, sw[c].step = "dequeue" PROVE Queued(rq[c]) # {}
    BY Zenon DEF DequeueNeverFails
  <2> DEFINE i == idle_vcpu[c]
  <2>1. i \in VCPU /\ hcpu[i] = c BY SchedulerAssumption, Zenon DEF VCPU, IndInv, AffinityInv
  <2>2. state[i] \in {"READY", "RUNNING"} BY Zenon DEF IndInv, KindInv
  <2>3. sw[c].next = NoVcpu /\ sw[c].cur = current_vcpu[c] BY Zenon DEF IndInv, SwitchInv
  <2>4. state[i] # "RUNNING"
    <3>1. state[i] = "RUNNING" => current_vcpu[c] = i BY <2>1, Zenon DEF IndInv, RunningIsCurrent
    <3>2. current_vcpu[c] = i => state[i] # "RUNNING"
      BY <2>1, <2>3, SchedulerAssumption DEF IndInv, LeavingInv
    <3> QED BY <3>1, <3>2, Zenon
  <2>5. i \in Queued(rq[c]) BY <2>1, <2>2, <2>3, <2>4, SchedulerAssumption, Zenon DEF IndInv, ReadyNotLost
  <2> QED BY <2>5, Zenon
<1>2. ContextIntact BY Zenon DEF ContextIntact, OffCpu, IndInv, OffInv
<1>3. NoSwitchDeadlock
  <2> SUFFICES ASSUME NEW c \in CPU, NEW d \in CPU, sw[c].step = "lock", sw[d].step \in {"dequeue", "lock"}
               PROVE  sw[c].next # sw[d].cur
    BY Zenon DEF NoSwitchDeadlock
  <2>1. sw[c].next # NoVcpu /\ sw[d].cur = current_vcpu[d] BY Zenon DEF IndInv, SwitchInv
  <2> QED BY <2>1, Zenon DEF IndInv, NextInv
<1>4. LockHandedOver
  <2>1. ASSUME NEW v \in VCPU, \A c \in CPU : current_vcpu[c] # v /\ sw[c].cur # v
        PROVE  preempt_count[v] = 0 /\ wq_owner # v
    <3>1. wq_owner # v
      <4>1. wq_owner = v => phase[v] = "woken" BY <2>1, Zenon DEF IndInv, OwnerInv
      <4>2. phase[v] = "woken" => \E c \in CPU : current_vcpu[c] = v
        BY Ranges DEF IndInv, SleepInv, RunningIsCurrent
      <4> QED BY <2>1, <4>1, <4>2, Zenon
    <3> QED BY <2>1, <3>1, Zenon DEF IndInv, OffInv
  <2>2. \A v \in Thread : phase[v] = "woken" => wq_owner = v /\ preempt_count[v] = 1
    BY Zenon DEF IndInv, SleepInv, Thread, VCPU
  <2> QED BY <2>1, <2>2, Zenon DEF LockHandedOver
<1> QED BY <1>1, <1>2, <1>3, <1>4, Zenon

-----------------------------------------------------------------------------
(* Interrupts and exceptions start, may enter a switch, and end. *)
LEMMA InterruptKeeps ==
  ASSUME IndInv, TypeOK, TypeOK', NEW c \in CPU, Interrupt(c)
  PROVE  IndInv'
<1>1. /\ Begin(c)
      /\ current_vcpu[c] \in VCPU => phase[current_vcpu[c]] = "none" \/ mode[c] # "vcpu"
      /\ UNCHANGED <<vcpuVars, wqVars, rq, current_vcpu, ipi_migrate>>
  BY Zenon DEF Interrupt, IrqEnter, TimerEvent, IpiResched, IrqExit, InIrq, Begin, ipiVars
<1>2. \A d \in CPU : d # c => mode'[d] = mode[d]
  BY DEF Interrupt, IrqEnter, TimerEvent, IpiResched, IrqExit, IndInv, TypeOK
<1>3. UNCHANGED <<state, hcpu, sched_lock, saved, preempt_count, wq_lock, wq_cleanup, phase, sleep_cpu,
                  wq_owner, rq, current_vcpu, ipi_migrate>>
  BY <1>1, Zenon DEF vcpuVars, wqVars
<1>4. ReadyNotLost' /\ SwitchInv' /\ LeavingInv' /\ NextInv' /\ ReleaseInv' /\ OwnerInv'
  BY <1>1, <1>2, <1>3, BeginFrame, Zenon
<1>5. /\ OneCpuPerVcpu' /\ LinkedOnce' /\ RunningIsCurrent' /\ CurrentInv' /\ OffInv' /\ KindInv'
      /\ AffinityInv' /\ SleepInv'
  BY <1>3, Frame, Zenon
<1> QED BY <1>4, <1>5, Zenon DEF IndInv

(* The tail of __vmm_scheduler_next2(): n, dequeued and READY, becomes the *)
(* current VCPU.                                                           *)
LEMMA RunNextKeeps ==
  ASSUME IndInv, TypeOK, TypeOK', LinkedOnce', NEW c \in CPU, NEW n \in VCPU, RunNext(c, n),
         sw[c].step \in {"dequeue", "lock"}, state[n] = "READY", hcpu[n] = c,
         sw[c].next \in {n, NoVcpu},
         \A d \in CPU : (current_vcpu[d] = n => d = c) /\ (sw[d].next = n => d = c),
         \A d \in CPU : Queued(rq'[d]) = Queued(rq[d]) \ {n},
         \A v \in VCPU : v # n /\ (saved[v] \/ v = sw[c].cur) => saved'[v]
  PROVE  IndInv'
<1> DEFINE u == sw[c].cur
<1>t. /\ state \in [VCPU -> States] /\ current_vcpu \in [CPU -> VCPU \cup {NoVcpu}]
      /\ sched_lock \in [VCPU -> CPU \cup {NoCpu}] /\ sw \in [CPU -> Switches]
  BY Zenon DEF IndInv, TypeOK
<1>1. u = current_vcpu[c] /\ u \in VCPU \cup {NoVcpu} BY Ranges, Zenon DEF IndInv, SwitchInv
<1>2. \A v \in VCPU : state'[v] = IF v = n THEN "RUNNING" ELSE state[v] BY <1>t, Zenon DEF RunNext
<1>3. \A d \in CPU : current_vcpu'[d] = IF d = c THEN n ELSE current_vcpu[d] BY <1>t, Zenon DEF RunNext
<1>4. \A v \in VCPU : sched_lock'[v] = IF v = u THEN NoCpu ELSE sched_lock[v]
  BY <1>t, <1>1, SchedulerAssumption DEF RunNext
<1>5. /\ \A d \in CPU : d # c => sw'[d] = sw[d]
      /\ sw'[c].step = "release" /\ sw'[c].cur = u /\ sw'[c].next = NoVcpu /\ sw'[c].save = FALSE
  BY <1>t, Zenon DEF RunNext, SwitchAt
<1>6. UNCHANGED <<hcpu, preempt_count, wq_lock, wq_cleanup, phase, sleep_cpu, wq_owner, mode, ipi_migrate>>
  BY Zenon DEF RunNext, wqVars, ipiVars
<1> HIDE DEF u
<1>7. \A d \in CPU : d # c /\ current_vcpu[d] = u => u = NoVcpu BY <1>1, Zenon DEF IndInv, OneCpuPerVcpu
<1>8. u # NoVcpu => state[u] # "RUNNING" /\ (wq_lock[u] => wq_owner = u /\ phase[u] = "asleep" /\ state[u] = "PAUSED")
  BY <1>1, Ranges DEF IndInv, LeavingInv, SleepInv, OwnerInv, u
<1>11. OneCpuPerVcpu' BY <1>1, <1>3 DEF OneCpuPerVcpu, IndInv
<1>12. ReadyNotLost'
  <2> SUFFICES ASSUME NEW v \in VCPU, state'[v] = "READY"
               PROVE  v \in Queued(rq'[hcpu[v]]) \/ sw'[hcpu[v]].next = v
    BY <1>6, Zenon DEF ReadyNotLost
  <2>1. v # n /\ state[v] = "READY" /\ hcpu[v] \in CPU BY <1>2, Ranges, Zenon
  <2>2. v \in Queued(rq[hcpu[v]]) \/ sw[hcpu[v]].next = v BY <2>1, Zenon DEF IndInv, ReadyNotLost
  <2>3. sw[c].next # v BY <2>1, SchedulerAssumption, Zenon
  <2> QED BY <1>5, <2>1, <2>2, <2>3, Zenon
<1>13. RunningIsCurrent' BY <1>1, <1>2, <1>3, <1>6, <1>8, Ranges, SchedulerAssumption DEF RunningIsCurrent, IndInv
<1>14. SwitchInv' BY <1>1, <1>3, <1>4, <1>5, <1>7, Ranges, SchedulerAssumption DEF SwitchInv, IndInv
<1>15. LeavingInv'
  <2> SUFFICES ASSUME NEW d \in CPU, sw'[d].step \in {"dequeue", "lock"}, sw'[d].cur # NoVcpu
               PROVE  LET w == sw'[d].cur IN /\ state'[w] # "RUNNING" /\ (sw'[d].save \/ saved'[w])
                                             /\ preempt_count[w] = IF wq_lock[w] THEN 1 ELSE 0
    BY <1>6, Zenon DEF LeavingInv
  <2>1. d # c /\ sw'[d] = sw[d] BY <1>5, Zenon
  <2>2. sw[d].cur = current_vcpu[d] /\ sw[d].cur \in VCPU BY <2>1, Ranges DEF IndInv, SwitchInv
  <2>3. sw[d].cur # n BY <2>1, <2>2, Zenon
  <2> QED BY <1>2, <2>1, <2>2, <2>3 DEF IndInv, LeavingInv
<1>16. NextInv'
  <2> SUFFICES ASSUME NEW d \in CPU, sw'[d].next # NoVcpu
               PROVE  LET m == sw'[d].next IN
                        /\ \A e \in CPU : /\ m \notin Queued(rq'[e]) /\ current_vcpu'[e] # m
                                          /\ sw'[e].next = m => e = d
                        /\ state'[m] = "READY" => hcpu[m] = d
                        /\ m \in Orphan => state'[m] = "READY"
                        /\ m \in Orphan \/ Booted'
    BY <1>6, Zenon DEF NextInv
  <2>1. d # c /\ sw'[d] = sw[d] BY <1>5, Zenon
  <2>2. sw[d].next \in VCPU /\ sw[d].next # n BY <2>1, Ranges, Zenon
  <2>3. Booted => Booted' BY <1>3, SchedulerAssumption, Zenon DEF Booted
  <2>4. \A e \in CPU : sw'[e].next = sw[d].next => sw[e].next = sw[d].next BY <1>5, <2>1, Zenon
  <2> DEFINE m == sw[d].next
  <2>5. /\ \A e \in CPU : /\ m \notin Queued(rq[e]) /\ current_vcpu[e] # m /\ (sw[e].next = m => e = d)
        /\ state[m] = "READY" => hcpu[m] = d
        /\ m \in Orphan => state[m] = "READY"
        /\ m \in Orphan \/ Booted
    BY <2>1, SchedulerAssumption, Zenon DEF IndInv, NextInv
  <2>6. m \in VCPU /\ m # n /\ sw'[d].next = m BY <2>1, <2>2, Zenon
  <2>7. \A e \in CPU : /\ m \notin Queued(rq'[e]) /\ current_vcpu'[e] # m /\ (sw'[e].next = m => e = d)
    BY <1>3, <2>4, <2>5, <2>6, Zenon
  <2>8. state'[m] = state[m] BY <1>2, <2>6, Zenon
  <2> HIDE DEF m
  <2> QED BY <2>3, <2>5, <2>6, <2>7, <2>8, Zenon
<1>17. CurrentInv'
  <2> SUFFICES ASSUME NEW d \in CPU, NEW v \in VCPU, current_vcpu'[d] = v
               PROVE  /\ state'[v] = "READY" => sched_lock'[v] = d /\ hcpu[v] = d
                      /\ state'[v] = "RESET" => saved'[v] /\ v \in Normal
                      /\ v \in Thread => hcpu[v] = d
    BY <1>6, Zenon DEF CurrentInv
  <2>1. CASE d = c BY <1>2, <1>3, <2>1, Zenon
  <2>2. CASE d # c
    <3>1. current_vcpu[d] = v /\ v # n BY <1>3, <2>2, Zenon
    <3>2. v # u BY <1>7, <2>2, <3>1, SchedulerAssumption, Zenon
    <3> QED BY <1>2, <1>4, <3>1, <3>2 DEF IndInv, CurrentInv, u
  <2> QED BY <2>1, <2>2, Zenon
<1>18. OffInv'
  <2> SUFFICES ASSUME NEW v \in VCPU, \A d \in CPU : current_vcpu'[d] # v
               PROVE  saved'[v] /\ (wq_owner # v => preempt_count[v] = 0)
    BY <1>6, Zenon DEF OffInv
  <2>1. v # n BY <1>3, Zenon
  <2>2. CASE v = u BY <1>8, <2>1, <2>2, SchedulerAssumption, Zenon DEF IndInv, LeavingInv, u
  <2>3. CASE v # u
    <3>1. \A d \in CPU : current_vcpu[d] # v BY <1>1, <1>3, <2>3, Zenon
    <3> QED BY <2>1, <3>1, Zenon DEF IndInv, OffInv
  <2> QED BY <2>2, <2>3, Zenon
<1>19. KindInv' BY <1>2, <1>3, <1>6, SchedulerAssumption DEF KindInv, Booted, IndInv, VCPU
<1>20. AffinityInv' BY <1>6, Zenon DEF AffinityInv, IndInv
<1>21. SleepInv' BY <1>2, <1>3, <1>6 DEF SleepInv, IndInv
<1>22. OwnerInv'
  <2> SUFFICES ASSUME NEW v \in VCPU, wq_owner = v PROVE OwnerInv!(v)!2'
    BY <1>6, Zenon DEF OwnerInv
  <2>1. CASE phase[v] = "woken" BY <1>2, <1>3, <1>5, <1>6, <2>1 DEF OwnerInv, SleepInv, IndInv
  <2>2. CASE phase[v] # "woken" BY <1>2, <1>3, <1>5, <1>6, <2>2 DEF OwnerInv, SleepInv, IndInv, u
  <2> QED BY <2>1, <2>2, Zenon
<1>23. ReleaseInv'
  <2> SUFFICES ASSUME NEW d \in CPU, sw'[d].step = "release", sw'[d].cur # NoVcpu
               PROVE  LET w == sw'[d].cur IN
                      /\ wq_lock[w] => /\ wq_owner = w /\ phase[w] = "asleep"
                                       /\ \A e \in CPU : current_vcpu'[e] # w
                      /\ w \in Thread => hcpu[w] = d /\ state'[w] # "RESET"
    BY <1>6, Zenon DEF ReleaseInv
  <2>1. CASE d = c
    <3>1. u \in VCPU /\ sw'[d].cur = u BY <1>1, <1>5, <2>1, Zenon
    <3>2. wq_lock[u] => wq_owner = u /\ phase[u] = "asleep" /\ \A e \in CPU : current_vcpu'[e] # u
      BY <1>3, <1>7, <1>8, <3>1, SchedulerAssumption, ZenonT(30)
    <3>3. u \in Thread => hcpu[u] = c /\ state'[u] # "RESET"
      BY <1>1, <1>2, <3>1, SchedulerAssumption, Zenon DEF IndInv, CurrentInv, Thread
    <3> QED BY <2>1, <3>1, <3>2, <3>3, Zenon
  <2>2. CASE d # c
    <3>1. sw'[d] = sw[d] /\ sw[d].cur \in VCPU BY <1>5, <2>2, Ranges
    <3>2. wq_lock[sw[d].cur] => sw[d].cur # n BY <3>1 DEF IndInv, ReleaseInv, OwnerInv
    <3> QED BY <1>2, <1>3, <3>1, <3>2 DEF IndInv, ReleaseInv
  <2> QED BY <2>1, <2>2, Zenon
<1> QED BY <1>11, <1>12, <1>13, <1>14, <1>15, <1>16, <1>17, <1>18, <1>19, <1>20, <1>21, <1>22, <1>23, Zenon DEF IndInv

(* __vmm_scheduler_next2() once it has the sched_lock of the next VCPU. *)
LEMMA SwitchLockKeeps ==
  ASSUME IndInv, TypeOK, TypeOK', NEW c \in CPU, SwitchLock(c)
  PROVE  IndInv'
<1> DEFINE u == sw[c].cur
           n == sw[c].next
<1>1. n \in VCPU /\ sw[c].step = "lock" /\ u = current_vcpu[c]
  BY Ranges, Zenon DEF SwitchLock, IndInv, SwitchInv
<1>2. /\ state[n] = "READY" \/ u = NoVcpu => state[n] = "READY" /\ hcpu[n] = c
      /\ \A d \in CPU : n \notin Queued(rq[d]) /\ current_vcpu[d] # n /\ (sw[d].next = n => d = c)
  BY <1>1, SchedulerAssumption, Zenon DEF IndInv, NextInv, Booted
<1>3. CASE state[n] = "READY" \/ u = NoVcpu
  <2>1. RunNext(c, n) /\ UNCHANGED rq
    BY <1>3, ZenonT(60) DEF SwitchLock, StillReady
  <2>2. saved' = [v \in VCPU |-> IF v = n THEN FALSE ELSE saved[v] \/ (v = u /\ sw[c].save)]
    BY <1>3, ZenonT(60) DEF SwitchLock, StillReady
  <2>3. u # NoVcpu => sw[c].save \/ saved[u] BY <1>1, Zenon DEF IndInv, LeavingInv
  <2>4. \A v \in VCPU : v # n /\ (saved[v] \/ v = u) => saved'[v] BY <2>2, <2>3, SchedulerAssumption, ZenonT(60)
  <2>5. LinkedOnce'
    <3>1. \A v \in VCPU : v # n => state'[v] = state[v] BY <2>1, Zenon DEF RunNext, TypeOK
    <3>2. hcpu' = hcpu BY <2>1, Zenon DEF RunNext
    <3>3. \A d \in CPU, p \in Priorities : n \notin Linked(rq[d][p]) BY <1>2, Zenon DEF Queued
    <3>4. \A d \in CPU, p \in Priorities : Linked(rq[d][p]) \subseteq VCPU BY DEF TypeOK, Linked
    <3> QED BY <2>1, <3>1, <3>2, <3>3, <3>4 DEF IndInv, LinkedOnce
  <2>6. \A d \in CPU : Queued(rq'[d]) = Queued(rq[d]) \ {n} BY <1>2, <2>1, Zenon
  <2> HIDE DEF n
  <2> QED BY <1>1, <1>2, <1>3, <2>1, <2>4, <2>5, <2>6, RunNextKeeps, Zenon DEF n
<1>4. CASE ~(state[n] = "READY" \/ u = NoVcpu)
  <2>1. sw' = [sw EXCEPT ![c] = SwitchAt("dequeue", u, NoVcpu, sw[c].save)]
    BY <1>4, Zenon DEF SwitchLock, StillReady
  <2>2. UNCHANGED <<vcpuVars, wqVars, rq, current_vcpu, mode, yield_on_irq_exit, ipiVars>>
    BY <1>4, Zenon DEF SwitchLock, StillReady
  <2>3. UNCHANGED <<state, hcpu, sched_lock, saved, preempt_count, wq_lock, wq_cleanup, phase, sleep_cpu,
                    wq_owner, rq, current_vcpu, mode, ipi_migrate>>
    BY <2>2, Zenon DEF vcpuVars, wqVars, ipiVars
  <2>4. /\ \A d \in CPU : d # c => sw'[d] = sw[d]
        /\ sw'[c].step = "dequeue" /\ sw'[c].cur = u /\ sw'[c].next = NoVcpu /\ sw'[c].save = sw[c].save
    BY <2>1, Zenon DEF TypeOK, SwitchAt
  <2>5. ReadyNotLost' BY <1>4, <2>3, <2>4, Ranges DEF ReadyNotLost, IndInv
  <2>6. SwitchInv'
    <3> SUFFICES ASSUME NEW d \in CPU PROVE SwitchInv!(d)'
      BY Zenon DEF SwitchInv
    <3>1. SwitchInv!(d) BY Zenon DEF IndInv, SwitchInv
    <3>2. CASE d = c BY <1>1, <2>3, <2>4, <3>1, <3>2, SchedulerAssumption, Zenon
    <3>3. CASE d # c BY <2>3, <2>4, <3>1, <3>3, Zenon
    <3> QED BY <3>2, <3>3, Zenon
  <2>7. LeavingInv'
    <3> SUFFICES ASSUME NEW d \in CPU, sw'[d].step \in {"dequeue", "lock"}, sw'[d].cur # NoVcpu
                 PROVE  LeavingInv!(d)!2'
      BY Zenon DEF LeavingInv
    <3>1. sw[d].step \in {"dequeue", "lock"} /\ sw'[d].cur = sw[d].cur /\ sw'[d].save = sw[d].save
      BY <1>1, <2>4, Zenon
    <3>2. LeavingInv!(d)!2 BY <3>1, Zenon DEF IndInv, LeavingInv
    <3> QED BY <2>3, <3>1, <3>2, Zenon
  <2>8. NextInv'
    <3> SUFFICES ASSUME NEW d \in CPU, sw'[d].next # NoVcpu PROVE NextInv!(d)!2'
      BY Zenon DEF NextInv
    <3>1. sw'[d].next = sw[d].next BY <2>4, Zenon
    <3>2. \A e \in CPU : sw'[e].next = sw'[d].next => sw[e].next = sw[d].next BY <2>4, <3>1, Zenon
    <3>3. Booted' = Booted BY <2>3, Zenon DEF Booted
    <3>4. NextInv!(d)!2 BY <3>1, Zenon DEF IndInv, NextInv
    <3> QED BY <2>3, <3>1, <3>2, <3>3, <3>4, Zenon
  <2>9. OwnerInv'
    <3>1. \A d \in CPU : sw'[d].cur = sw[d].cur /\ (sw'[d].step = "none" <=> sw[d].step = "none")
      BY <1>1, <2>4, Zenon
    <3> SUFFICES ASSUME NEW v \in VCPU, wq_owner = v PROVE OwnerInv!(v)!2'
      BY <2>3, Zenon DEF OwnerInv
    <3>2. OwnerInv!(v)!2 BY Zenon DEF IndInv, OwnerInv
    <3> QED BY <2>3, <3>1, <3>2, Zenon
  <2>10. ReleaseInv'
    <3> SUFFICES ASSUME NEW d \in CPU, sw'[d].step = "release", sw'[d].cur # NoVcpu PROVE ReleaseInv!(d)!2'
      BY Zenon DEF ReleaseInv
    <3>1. sw'[d] = sw[d] BY <2>4, Zenon
    <3>2. ReleaseInv!(d)!2 BY <3>1, Zenon DEF IndInv, ReleaseInv
    <3> QED BY <2>3, <3>1, <3>2, Zenon
  <2>11. OneCpuPerVcpu' /\ LinkedOnce' /\ RunningIsCurrent' /\ CurrentInv' /\ OffInv' /\ KindInv' /\ AffinityInv' /\ SleepInv'
    BY <2>3, Frame, Zenon
  <2> QED BY <2>5, <2>6, <2>7, <2>8, <2>9, <2>10, <2>11, Zenon DEF IndInv
<1> QED BY <1>3, <1>4, Zenon

(* rq_dequeue() in __vmm_scheduler_next2(). *)
LEMMA SwitchDequeueKeeps ==
  ASSUME ScanFinds, IndInv, TypeOK, TypeOK', NEW c \in CPU, SwitchDequeue(c)
  PROVE  IndInv'
<1> DEFINE u == sw[c].cur
           n == rq_first(rq[c])
<1>r. TypeOK /\ rq \in [CPU -> Queues(VCPU)] /\ rq' \in [CPU -> Queues(VCPU)]
  BY Zenon DEF IndInv, TypeOK, Queues
<1>1. sw[c].step = "dequeue" /\ sw[c].next = NoVcpu /\ u = current_vcpu[c] /\ Queued(rq[c]) # {}
  BY Zenon DEF SwitchDequeue, IndInv, SwitchInv
<1>2. LinkedOnce /\ \A d \in CPU : \A v \in Queued(rq[d]) : state[v] = "READY" /\ hcpu[v] = d
  BY LinkedOnceQueued, Zenon DEF IndInv, QueuedReady
<1>3. rq' = [rq EXCEPT ![c] = rq_dequeue(@)] BY Zenon DEF SwitchDequeue
<1>4. Shape' /\ n \in VCPU /\ n \in Queued(rq[c])
  BY <1>r, <1>1, <1>2, <1>3, DequeueShape, ZenonT(60)
<1>6. \A d \in CPU : Queued(rq'[d]) = Queued(rq[d]) \ {n} BY <1>r, <1>1, <1>2, <1>3, DequeueShape, ZenonT(60)
<1> HIDE DEF n
<1>5. state[n] = "READY" /\ hcpu[n] = c BY <1>2, <1>4, Zenon
<1>7. \A d \in CPU : (current_vcpu[d] = n => d = c) /\ sw[d].next # n
  BY <1>4, <1>5, SchedulerAssumption DEF IndInv, CurrentInv, NextInv
<1>8. CASE n = u
  <2>1. RunNext(c, n) /\ UNCHANGED saved BY <1>8, Zenon DEF SwitchDequeue, n
  <2>2. \A v \in VCPU : v # n => state'[v] = state[v] BY <1>r, <2>1, Zenon DEF RunNext, TypeOK
  <2>3. hcpu' = hcpu BY <2>1, Zenon DEF RunNext
  <2>4. \A d \in CPU : Queued(rq[d]) \subseteq VCPU BY <1>r, QueuedVcpus, Zenon
  <2>5. \A d \in CPU : \A v \in Queued(rq'[d]) : state'[v] = "READY" /\ hcpu'[v] = d
    BY <1>2, <1>6, <2>2, <2>3, <2>4
  <2>6. LinkedOnce' BY <1>4, <2>5, LinkedOnceQueued, Zenon DEF QueuedReady
  <2>7. \A v \in VCPU : v # n /\ (saved[v] \/ v = u) => saved'[v] BY <1>8, <2>1, Zenon
  <2> QED BY <1>1, <1>4, <1>5, <1>6, <1>7, <2>1, <2>6, <2>7, RunNextKeeps
<1>9. CASE n # u
  <2>1. sw' = [sw EXCEPT ![c] = SwitchAt("lock", u, n, sw[c].save)] BY <1>9, Zenon DEF SwitchDequeue, n
  <2>2. UNCHANGED <<vcpuVars, wqVars, current_vcpu, mode, yield_on_irq_exit, ipiVars>>
    BY <1>9, Zenon DEF SwitchDequeue, n
  <2>3. UNCHANGED <<state, hcpu, sched_lock, saved, preempt_count, wq_lock, wq_cleanup, phase, sleep_cpu,
                    wq_owner, current_vcpu, mode, ipi_migrate>>
    BY <2>2, Zenon DEF vcpuVars, wqVars, ipiVars
  <2>4. /\ \A d \in CPU : d # c => sw'[d] = sw[d]
        /\ sw'[c].step = "lock" /\ sw'[c].cur = u /\ sw'[c].next = n /\ sw'[c].save = sw[c].save
    BY <1>r, <2>1, Zenon DEF TypeOK, SwitchAt
  <2>5. ReadyNotLost'
    <3> SUFFICES ASSUME NEW v \in VCPU, state[v] = "READY"
                 PROVE  v \in Queued(rq'[hcpu[v]]) \/ sw'[hcpu[v]].next = v
      BY <2>3, Zenon DEF ReadyNotLost
    <3>1. hcpu[v] \in CPU /\ (v \in Queued(rq[hcpu[v]]) \/ sw[hcpu[v]].next = v)
      BY <1>r, Ranges, Zenon DEF IndInv, ReadyNotLost
    <3>2. sw[c].next # v BY <1>1, SchedulerAssumption, Zenon
    <3> QED BY <1>5, <1>6, <2>4, <3>1, <3>2, Zenon
  <2>6. SwitchInv'
    <3> SUFFICES ASSUME NEW d \in CPU PROVE SwitchInv!(d)'
      BY Zenon DEF SwitchInv
    <3>1. SwitchInv!(d) BY Zenon DEF IndInv, SwitchInv
    <3>2. CASE d = c BY <1>1, <1>4, <2>3, <2>4, <3>1, <3>2, SchedulerAssumption, ZenonT(30)
    <3>3. CASE d # c BY <2>3, <2>4, <3>1, <3>3, Zenon
    <3> QED BY <3>2, <3>3, Zenon
  <2>7. LeavingInv'
    <3> SUFFICES ASSUME NEW d \in CPU, sw'[d].step \in {"dequeue", "lock"}, sw'[d].cur # NoVcpu
                 PROVE  LeavingInv!(d)!2'
      BY Zenon DEF LeavingInv
    <3>1. sw[d].step \in {"dequeue", "lock"} /\ sw'[d].cur = sw[d].cur /\ sw'[d].save = sw[d].save
      BY <1>1, <2>4, Zenon
    <3>2. LeavingInv!(d)!2 BY <3>1, Zenon DEF IndInv, LeavingInv
    <3> QED BY <2>3, <3>1, <3>2, Zenon
  <2>8. LinkedOnce'
    <3>1. \A d \in CPU : \A v \in Queued(rq'[d]) : state'[v] = "READY" /\ hcpu'[v] = d
      BY <1>2, <1>6, <2>3, Zenon
    <3> QED BY <1>4, <3>1, LinkedOnceQueued, Zenon DEF QueuedReady
  <2>9. NextInv'
    <3>1. n \in Orphan \/ Booted BY <1>4, <1>5, Zenon DEF IndInv, KindInv, VCPU
    <3>2. \A d \in CPU : n \notin Queued(rq'[d]) /\ current_vcpu[d] # n BY <1>1, <1>6, <1>7, <1>9, Zenon
    <3>3. \A d \in CPU : d # c => sw[d].next # n BY <1>7, Zenon
    <3> SUFFICES ASSUME NEW d \in CPU, sw'[d].next # NoVcpu
                 PROVE  LET m == sw'[d].next IN
                        /\ \A e \in CPU : /\ m \notin Queued(rq'[e]) /\ current_vcpu[e] # m
                                          /\ sw'[e].next = m => e = d
                        /\ state[m] = "READY" => hcpu[m] = d
                        /\ m \in Orphan => state[m] = "READY"
                        /\ m \in Orphan \/ Booted
      BY <2>3, Zenon DEF NextInv, Booted
    <3>4. CASE d = c BY <1>5, <2>4, <3>1, <3>2, <3>3, <3>4, Zenon
    <3>5. CASE d # c
      <4>1. sw'[d] = sw[d] BY <2>4, <3>5, Zenon
      <4>2. \A e \in CPU : sw[d].next \notin Queued(rq'[e]) BY <1>6, <4>1, Zenon DEF IndInv, NextInv
      <4>3. \A e \in CPU : sw'[e].next = sw[d].next => e = d
        <5>1. \A e \in CPU : sw[e].next = sw[d].next => e = d BY <4>1, Zenon DEF IndInv, NextInv
        <5> QED BY <2>4, <3>3, <3>5, <5>1, Zenon
      <4> QED BY <4>1, <4>2, <4>3 DEF IndInv, NextInv
    <3> QED BY <3>4, <3>5, Zenon
  <2>10. OwnerInv'
    <3>1. \A d \in CPU : sw'[d].cur = sw[d].cur /\ (sw'[d].step = "none" <=> sw[d].step = "none")
      BY <1>1, <2>4, Zenon
    <3> SUFFICES ASSUME NEW v \in VCPU, wq_owner = v PROVE OwnerInv!(v)!2'
      BY <2>3, Zenon DEF OwnerInv
    <3>2. OwnerInv!(v)!2 BY Zenon DEF IndInv, OwnerInv
    <3> QED BY <2>3, <3>1, <3>2, Zenon
  <2>11. ReleaseInv' BY <2>3, <2>4 DEF ReleaseInv, IndInv
  <2>12. OneCpuPerVcpu' /\ RunningIsCurrent' /\ CurrentInv' /\ OffInv' /\ KindInv' /\ AffinityInv' /\ SleepInv'
    BY <2>3, Frame, Zenon
  <2> QED BY <2>5, <2>6, <2>7, <2>8, <2>9, <2>10, <2>11, <2>12, Zenon DEF IndInv
<1> QED BY <1>8, <1>9, Zenon

(* vmm_scheduler_switch() refuses a current VCPU that has disabled         *)
(* preemption.                                                             *)
LEMMA SwitchRefuseKeeps ==
  ASSUME IndInv, TypeOK, TypeOK', NEW c \in CPU, SwitchRefuse(c)
  PROVE  IndInv'
<1> DEFINE u == current_vcpu[c]
<1>1. /\ u \in VCPU /\ sw[c].step = "start" /\ sw[c].cur = u
      /\ preempt_count[u] # (IF wq_lock[u] THEN 1 ELSE 0)
  BY Ranges, Zenon DEF SwitchRefuse, IndInv, SwitchInv
<1>2. UNCHANGED <<state, hcpu, sched_lock, saved, preempt_count, wq_lock, wq_cleanup, phase, sleep_cpu,
                  rq, current_vcpu, ipi_migrate>>
  BY Zenon DEF SwitchRefuse, vcpuVars, ipiVars
<1>3. /\ \A d \in CPU : d # c => sw'[d] = sw[d] /\ mode'[d] = mode[d]
      /\ sw'[c].step = "none" /\ sw'[c].cur = NoVcpu /\ sw'[c].next = NoVcpu
  <2>1. sw' = [sw EXCEPT ![c] = NoSwitch] /\ mode' = ModeAfter(c) BY Zenon DEF SwitchRefuse
  <2>2. sw \in [CPU -> Switches] /\ mode \in [CPU -> {"vcpu", "irq", "trap", "exit"}] BY Zenon DEF TypeOK
  <2>3. \A d \in CPU : d # c => sw'[d] = sw[d] BY <2>1, <2>2, Zenon
  <2>4. \A d \in CPU : d # c => mode'[d] = mode[d] BY <2>1, <2>2, Zenon DEF ModeAfter
  <2>5. sw'[c] = NoSwitch BY <2>1, <2>2, Zenon
  <2> QED BY <2>3, <2>4, <2>5, NoSwitchFields, Zenon
<1>4. \A v \in VCPU : wq_owner' = v <=> wq_owner = v
  BY SchedulerAssumption DEF SwitchRefuse, NoWaitqueueLock
<1>5. \A d \in CPU : sw'[d].next = sw[d].next BY <1>1, <1>3, ZenonT(30) DEF IndInv, SwitchInv
<1> HIDE DEF u
<1>6. ReadyNotLost' /\ NextInv' BY <1>2, <1>5, SameNext, Zenon
<1>7. SwitchInv'
  <2> SUFFICES ASSUME NEW d \in CPU PROVE SwitchInv!(d)'
    BY Zenon DEF SwitchInv
  <2>1. SwitchInv!(d) BY Zenon DEF IndInv, SwitchInv
  <2>2. CASE d = c BY <1>1, <1>2, <1>3, <2>1, <2>2, Zenon
  <2>3. CASE d # c BY <1>2, <1>3, <2>1, <2>3, ZenonT(30)
  <2> QED BY <2>2, <2>3, Zenon
<1>8. LeavingInv'
  <2> SUFFICES ASSUME NEW d \in CPU, sw'[d].step \in {"dequeue", "lock"}, sw'[d].cur # NoVcpu
               PROVE  LeavingInv!(d)!2'
    BY Zenon DEF LeavingInv
  <2>1. sw'[d] = sw[d] BY <1>3, Zenon
  <2>2. LeavingInv!(d)!2 BY <2>1, Zenon DEF IndInv, LeavingInv
  <2> QED BY <1>2, <2>1, <2>2, Zenon
<1>10. OffInv' BY <1>2, <1>4, Zenon DEF OffInv, IndInv
<1>11. SleepInv' BY <1>2, <1>4, Zenon DEF SleepInv, IndInv
<1>12. OwnerInv'
  <2> SUFFICES ASSUME NEW v \in VCPU, wq_owner = v PROVE OwnerInv!(v)!2'
    BY <1>4, Zenon DEF OwnerInv
  <2>1. CASE phase[v] = "woken"
    <3>1. \A d \in CPU : current_vcpu[d] = v => sw[d].step = "none" /\ mode[d] = "vcpu"
      BY <2>1, Zenon DEF IndInv, OwnerInv
    <3>2. \A d \in CPU : current_vcpu[d] = v => d # c BY <1>1, <3>1, Zenon
    <3>3. \A d \in CPU : current_vcpu[d] = v => sw'[d].step = "none" /\ mode'[d] = "vcpu" BY <1>3, <3>1, <3>2, Zenon
    <3> QED BY <1>2, <2>1, <3>1, <3>3, Zenon
  <2>2. CASE phase[v] # "woken"
    <3>1. v # u BY <1>1, <2>2, Zenon DEF IndInv, OwnerInv, SleepInv
    <3>2. OwnerInv!(v)!2 BY Zenon DEF IndInv, OwnerInv
    <3>3. PICK d \in CPU : sw[d].cur = v /\ sw[d].step # "none" BY <2>2, <3>2, Zenon
    <3>4. sw'[d] = sw[d] BY <1>1, <1>3, <3>1, <3>3, Zenon DEF u
    <3> QED BY <1>2, <2>2, <3>2, <3>3, <3>4, Zenon
  <2> QED BY <2>1, <2>2, Zenon
<1>13. ReleaseInv'
  <2> SUFFICES ASSUME NEW d \in CPU, sw'[d].step = "release", sw'[d].cur # NoVcpu PROVE ReleaseInv!(d)!2'
    BY Zenon DEF ReleaseInv
  <2>1. sw'[d] = sw[d] /\ sw[d].cur \in VCPU BY <1>3, Ranges, Zenon
  <2>2. ReleaseInv!(d)!2 BY <2>1, Zenon DEF IndInv, ReleaseInv
  <2> QED BY <1>2, <1>4, <2>1, <2>2, Zenon
<1>14. OneCpuPerVcpu' /\ LinkedOnce' /\ RunningIsCurrent' /\ CurrentInv' /\ KindInv' /\ AffinityInv'
  BY <1>2, Frame, Zenon
<1> QED BY <1>6, <1>7, <1>8, <1>10, <1>11, <1>12, <1>13, <1>14, Zenon DEF IndInv

(* The end of __vmm_scheduler_next2() releases the lock of the waitqueue on *)
(* behalf of the thread that has gone to sleep.                            *)
LEMMA SwitchReleaseKeeps ==
  ASSUME IndInv, TypeOK, TypeOK', NEW c \in CPU, SwitchRelease(c)
  PROVE  IndInv'
<1> DEFINE u == sw[c].cur
           sleeper == u # NoVcpu /\ wq_lock[u]
<1>1. sw[c].step = "release" /\ u \in VCPU \cup {NoVcpu} BY Ranges, Zenon DEF SwitchRelease
<1>2. UNCHANGED <<state, hcpu, sched_lock, saved, wq_lock, wq_cleanup, phase, sleep_cpu,
                  rq, current_vcpu, ipi_migrate>>
  BY Zenon DEF SwitchRelease, vcpuVars, ipiVars
<1>3. /\ \A d \in CPU : d # c => sw'[d] = sw[d] /\ mode'[d] = mode[d]
      /\ sw'[c].step = "none" /\ sw'[c].cur = NoVcpu /\ sw'[c].next = NoVcpu
  <2>1. sw' = [sw EXCEPT ![c] = NoSwitch] /\ mode' = ModeAfter(c) BY Zenon DEF SwitchRelease
  <2>2. sw \in [CPU -> Switches] /\ mode \in [CPU -> {"vcpu", "irq", "trap", "exit"}] BY Zenon DEF TypeOK
  <2>3. \A d \in CPU : d # c => sw'[d] = sw[d] BY <2>1, <2>2, Zenon
  <2>4. \A d \in CPU : d # c => mode'[d] = mode[d] BY <2>1, <2>2, Zenon DEF ModeAfter
  <2>5. sw'[c] = NoSwitch BY <2>1, <2>2, Zenon
  <2> QED BY <2>3, <2>4, <2>5, NoSwitchFields, Zenon
<1>4. /\ \A v \in VCPU : wq_owner' = v <=> wq_owner = v /\ ~sleeper
      /\ \A v \in VCPU : preempt_count'[v] = IF v = u /\ sleeper THEN 0 ELSE preempt_count[v]
      /\ sleeper => wq_owner = u /\ phase[u] = "asleep" /\ \A d \in CPU : current_vcpu[d] # u
  <2>1. CASE sleeper
    <3>1. /\ u \in VCPU /\ wq_owner = u /\ phase[u] = "asleep" /\ \A d \in CPU : current_vcpu[d] # u
      BY <1>1, <2>1, Zenon DEF IndInv, ReleaseInv
    <3>2. preempt_count[u] = 1 BY <3>1, Zenon DEF IndInv, OwnerInv
    <3>3. PreemptEnable(u) = 0 BY <3>2 DEF PreemptEnable
    <3>4. wq_owner' = NoVcpu /\ preempt_count' = [preempt_count EXCEPT ![u] = PreemptEnable(u)]
      BY <2>1, Zenon DEF SwitchRelease
    <3>5. preempt_count \in [VCPU -> Nat] BY Zenon DEF TypeOK
    <3>6. \A v \in VCPU : preempt_count'[v] = IF v = u THEN 0 ELSE preempt_count[v]
      BY <3>3, <3>4, <3>5, Zenon
    <3>7. NoVcpu \notin VCPU BY SchedulerAssumption, Zenon
    <3> QED BY <2>1, <3>1, <3>4, <3>6, <3>7, Zenon
  <2>2. CASE ~sleeper
    <3>1. preempt_count' = preempt_count /\ wq_owner' = IF wq_owner = c THEN NoVcpu ELSE wq_owner
      BY <2>2, Zenon DEF SwitchRelease, NoWaitqueueLock
    <3>2. NoVcpu \notin VCPU /\ c \notin VCPU BY SchedulerAssumption, Zenon
    <3> QED BY <2>2, <3>1, <3>2, Zenon
  <2> QED BY <2>1, <2>2, Zenon
<1>5. \A d \in CPU : sw'[d].next = sw[d].next BY <1>1, <1>3, Zenon DEF IndInv, SwitchInv
<1>6. ReadyNotLost' /\ NextInv' BY <1>2, <1>5, SameNext, Zenon
<1>7. SwitchInv'
  <2> SUFFICES ASSUME NEW d \in CPU PROVE SwitchInv!(d)'
    BY Zenon DEF SwitchInv
  <2>1. SwitchInv!(d) BY Zenon DEF IndInv, SwitchInv
  <2>2. CASE d = c BY <1>1, <1>2, <1>3, <2>1, <2>2, Zenon
  <2>3. CASE d # c BY <1>2, <1>3, <2>1, <2>3, Zenon
  <2> QED BY <2>2, <2>3, Zenon
<1>8. LeavingInv'
  <2>1. sleeper => \A d \in CPU : sw[d].step \in {"dequeue", "lock"} => sw[d].cur # u
    <3> SUFFICES ASSUME sleeper, NEW d \in CPU, sw[d].step \in {"dequeue", "lock"}, sw[d].cur = u PROVE FALSE
      BY Zenon
    <3>1. current_vcpu[d] # u BY <1>4, Zenon
    <3>2. sw[d].step \in {"start", "dequeue", "lock"} => sw[d].cur = current_vcpu[d] BY Zenon DEF IndInv, SwitchInv
    <3> QED BY <3>1, <3>2, Zenon
  <2> HIDE DEF sleeper
  <2> SUFFICES ASSUME NEW d \in CPU, sw'[d].step \in {"dequeue", "lock"}, sw'[d].cur # NoVcpu
               PROVE  LeavingInv!(d)!2'
    BY Zenon DEF LeavingInv
  <2>2. sw'[d] = sw[d] /\ sw[d].cur \in VCPU BY <1>3, Ranges, Zenon
  <2>3. preempt_count'[sw[d].cur] = preempt_count[sw[d].cur] BY <1>4, <2>1, <2>2, Zenon
  <2> QED BY <1>2, <2>2, <2>3, Zenon DEF LeavingInv, IndInv
<1> HIDE DEF sleeper
<1>10. OffInv' BY <1>2, <1>4, Zenon DEF OffInv, IndInv
<1>11. SleepInv'
  <2> SUFFICES ASSUME NEW v \in VCPU PROVE SleepInv!(v)'
    BY Zenon DEF SleepInv
  <2>1. SleepInv!(v) BY Zenon DEF IndInv, SleepInv
  <2>2. CASE v = u /\ sleeper BY <1>2, <1>4, <2>1, <2>2, Zenon
  <2>3. CASE ~(v = u /\ sleeper)
    <3>1. preempt_count'[v] = preempt_count[v] BY <1>4, <2>3, Zenon
    <3>2. sleeper => wq_owner = u BY <1>4, Zenon
    <3>3. wq_owner' = v <=> wq_owner = v BY <1>4, <2>3, <3>2, Zenon
    <3> QED BY <1>2, <2>1, <3>1, <3>3, Zenon
  <2> QED BY <2>2, <2>3, Zenon
<1>12. OwnerInv'
  <2> SUFFICES ASSUME NEW v \in VCPU, wq_owner = v, ~sleeper PROVE OwnerInv!(v)!2'
    BY <1>4, Zenon DEF OwnerInv
  <2>1. CASE phase[v] = "woken"
    <3>1. \A d \in CPU : current_vcpu[d] = v => sw[d].step = "none" /\ mode[d] = "vcpu"
      BY <2>1, Zenon DEF IndInv, OwnerInv
    <3>2. \A d \in CPU : current_vcpu[d] = v => d # c BY <1>1, <3>1, Zenon
    <3>3. \A d \in CPU : current_vcpu[d] = v => sw'[d].step = "none" /\ mode'[d] = "vcpu"
      BY <1>3, <3>1, <3>2, Zenon
    <3> QED BY <1>2, <2>1, <3>3, Zenon
  <2>2. CASE phase[v] # "woken"
    <3>1. /\ phase[v] = "asleep" /\ state[v] = "PAUSED" /\ preempt_count[v] = 1
          /\ \E d \in CPU : sw[d].cur = v /\ sw[d].step # "none"
      BY <2>2, Zenon DEF IndInv, OwnerInv
    <3>2. wq_lock[v] BY <3>1, Zenon DEF IndInv, SleepInv
    <3>3. v # u BY <3>2, SchedulerAssumption, Zenon DEF sleeper
    <3>4. \E d \in CPU : sw'[d].cur = v /\ sw'[d].step # "none" BY <1>3, <3>1, <3>3, Zenon
    <3>5. preempt_count'[v] = preempt_count[v] BY <1>4, <3>3, Zenon
    <3> QED BY <1>2, <3>1, <3>4, <3>5, Zenon
  <2> QED BY <2>1, <2>2, Zenon
<1>13. ReleaseInv'
  <2> SUFFICES ASSUME NEW d \in CPU, sw'[d].step = "release", sw'[d].cur # NoVcpu
               PROVE  ReleaseInv!(d)!2'
    BY Zenon DEF ReleaseInv
  <2>1. d # c /\ sw'[d] = sw[d] /\ sw[d].cur \in VCPU BY <1>3, Ranges, Zenon
  <2>2. ASSUME sleeper, wq_lock[sw[d].cur] PROVE FALSE
    <3>1. u = sw[d].cur /\ u \in Thread
      <4>1. wq_owner = u /\ phase[u] = "asleep" BY <1>4, <2>2, Zenon
      <4>2. wq_owner = sw[d].cur BY <2>1, <2>2, Zenon DEF IndInv, ReleaseInv
      <4>3. u = sw[d].cur /\ u \in VCPU BY <2>1, <4>1, <4>2, Zenon
      <4>4. u \in Thread BY <4>1, <4>3, Zenon DEF IndInv, SleepInv
      <4> QED BY <4>3, <4>4, Zenon
    <3>2. u # NoVcpu BY <2>1, <3>1, SchedulerAssumption, Zenon
    <3>3. hcpu[u] = c BY <1>1, <3>1, <3>2, Zenon DEF IndInv, ReleaseInv
    <3>4. hcpu[u] = d BY <2>1, <3>1, <3>2, Zenon DEF IndInv, ReleaseInv
    <3> QED BY <2>1, <3>3, <3>4, Zenon
  <2>3. ReleaseInv!(d)!2 BY <2>1, Zenon DEF IndInv, ReleaseInv
  <2>4. wq_lock[sw[d].cur] => wq_owner' = sw[d].cur BY <1>4, <2>1, <2>2, <2>3, Zenon
  <2> QED BY <1>2, <2>1, <2>3, <2>4, Zenon
<1>14. OneCpuPerVcpu' /\ LinkedOnce' /\ RunningIsCurrent' /\ CurrentInv' /\ KindInv' /\ AffinityInv'
  BY <1>2, Frame, Zenon
<1> QED BY <1>6, <1>7, <1>8, <1>10, <1>11, <1>12, <1>13, <1>14, Zenon DEF IndInv

(* The switch takes the sched_lock of the current VCPU and queues it again *)
(* if it is RUNNING.                                                       *)
LEMMA SwitchStartKeeps ==
  ASSUME IndInv, TypeOK, TypeOK', NEW c \in CPU, SwitchStart(c)
  PROVE  IndInv'
<1> DEFINE u == current_vcpu[c]
           run == u # NoVcpu /\ state[u] = "RUNNING"
<1>1. /\ u \in VCPU \cup {NoVcpu} /\ sw[c].step = "start" /\ sw[c].cur = u /\ sw[c].next = NoVcpu
      /\ u # NoVcpu => sched_lock[u] = NoCpu /\ preempt_count[u] = IF wq_lock[u] THEN 1 ELSE 0
  BY Ranges, Zenon DEF SwitchStart, IndInv, SwitchInv
<1>2. UNCHANGED <<hcpu, saved, preempt_count, wq_lock, wq_cleanup, phase, sleep_cpu, wq_owner,
                  current_vcpu, mode, ipi_migrate>>
  BY Zenon DEF SwitchStart, wqVars, ipiVars
<1>3. /\ \A d \in CPU : d # c => sw'[d] = sw[d]
      /\ sw'[c].step = "dequeue" /\ sw'[c].cur = u /\ sw'[c].next = NoVcpu
  <2>1. PICK save : sw' = [sw EXCEPT ![c] = SwitchAt("dequeue", u, NoVcpu, save)] BY Zenon DEF SwitchStart
  <2>2. sw \in [CPU -> Switches] BY Zenon DEF TypeOK
  <2>3. \A d \in CPU : d # c => sw'[d] = sw[d] BY <2>1, <2>2, Zenon
  <2>4. sw'[c] = SwitchAt("dequeue", u, NoVcpu, save) BY <2>1, <2>2, Zenon
  <2> HIDE DEF u
  <2>5. sw'[c].step = "dequeue" /\ sw'[c].cur = u /\ sw'[c].next = NoVcpu BY <2>4 DEF SwitchAt
  <2> QED BY <2>3, <2>5, Zenon
<1>4. sw'[c].save = (u # NoVcpu /\ state[u] \in Saveable)
  <2>1. sw' = [sw EXCEPT ![c] = SwitchAt("dequeue", u, NoVcpu, u # NoVcpu /\ state[u] \in Saveable)]
    BY Zenon DEF SwitchStart
  <2>2. sw \in [CPU -> Switches] BY Zenon DEF TypeOK
  <2>3. sw'[c] = SwitchAt("dequeue", u, NoVcpu, u # NoVcpu /\ state[u] \in Saveable) BY <2>1, <2>2, Zenon
  <2> QED BY <2>3 DEF SwitchAt
<1>5. \A v \in VCPU : sched_lock'[v] = IF v = u THEN c ELSE sched_lock[v]
  <2>1. sched_lock \in [VCPU -> CPU \cup {NoCpu}] BY Zenon DEF TypeOK
  <2>2. CASE u = NoVcpu BY <2>1, <2>2, SchedulerAssumption, Zenon DEF SwitchStart
  <2>3. CASE u # NoVcpu BY <1>1, <2>1, <2>3, Zenon DEF SwitchStart
  <2> QED BY <2>2, <2>3, Zenon
<1>6. \A v \in VCPU : state'[v] = IF v = u /\ run THEN "READY" ELSE state[v]
  <2>1. CASE run
    <3>1. state \in [VCPU -> States] /\ state' = [state EXCEPT ![u] = "READY"] BY <2>1, Zenon DEF SwitchStart, TypeOK
    <3> QED BY <2>1, <3>1, Zenon
  <2>2. CASE ~run BY <2>2, Zenon DEF SwitchStart
  <2> QED BY <2>1, <2>2, Zenon
<1>7. u # NoVcpu => state[u] # "READY" /\ (state[u] = "RUNNING" => hcpu[u] = c)
  <2> SUFFICES ASSUME u # NoVcpu PROVE state[u] # "READY" /\ (state[u] = "RUNNING" => hcpu[u] = c)
    BY Zenon
  <2>a. u \in VCPU /\ hcpu[u] \in CPU /\ sched_lock[u] # c BY <1>1, Ranges, SchedulerAssumption, ZenonT(30)
  <2>1. state[u] # "READY" BY <2>a, Zenon DEF IndInv, CurrentInv
  <2>2. state[u] = "RUNNING" => hcpu[u] = c
    BY <2>a, Zenon DEF IndInv, RunningIsCurrent, OneCpuPerVcpu
  <2> QED BY <2>1, <2>2, Zenon
<1>8. \A d \in CPU : u # NoVcpu => u \notin Queued(rq[d]) /\ sw[d].next # u
  <2> SUFFICES ASSUME NEW d \in CPU, u # NoVcpu PROVE u \notin Queued(rq[d]) /\ sw[d].next # u
    BY Zenon
  <2>1. u \notin Queued(rq[d]) BY <1>7, LinkedOnceQueued, Zenon DEF IndInv, QueuedReady
  <2>2. sw[d].next # u BY Zenon DEF IndInv, NextInv
  <2> QED BY <2>1, <2>2, Zenon
<1>9. /\ Shape'
      /\ \A d \in CPU : Queued(rq'[d]) = IF d = c /\ run THEN Queued(rq[d]) \cup {u} ELSE Queued(rq[d])
  <2>1. Shape BY LinkedOnceQueued, Zenon DEF IndInv
  <2>2. CASE run
    <3>1. rq' = [rq EXCEPT ![c] = rq_enqueue(@, u, priority[u])] BY <2>2, Zenon DEF SwitchStart, Requeue
    <3>2. u \in VCPU /\ u \notin Queued(rq[c]) BY <1>1, <1>8, <2>2, Zenon
    <3> HIDE DEF u, run
    <3>3. Shape' BY <2>1, <3>1, <3>2, EnqueueShape, ZenonT(60)
    <3>4. \A d \in CPU : Queued(rq'[d]) = IF d = c THEN Queued(rq[d]) \cup {u} ELSE Queued(rq[d])
      BY <2>1, <3>1, <3>2, EnqueueShape, ZenonT(60)
    <3> QED BY <2>2, <3>3, <3>4, Zenon
  <2>3. CASE ~run
    <3>1. rq' = rq BY <2>3, Zenon DEF SwitchStart
    <3> HIDE DEF u, run
    <3> QED BY <2>1, <2>3, <3>1, Zenon DEF Shape
  <2> QED BY <2>2, <2>3, Zenon
<1>10. \A d \in CPU : sw'[d].next = sw[d].next BY <1>1, <1>3, Zenon
<1>11. \A d \in CPU : d # c /\ current_vcpu[d] = u => u = NoVcpu BY Zenon DEF IndInv, OneCpuPerVcpu
<1> HIDE DEF u, run
<1>12. LinkedOnce'
  <2>1. \A d \in CPU : Queued(rq[d]) \subseteq VCPU BY QueuedVcpus, Zenon
  <2>2. \A d \in CPU : \A v \in Queued(rq'[d]) : state'[v] = "READY" /\ hcpu'[v] = d
    <3>1. \A d \in CPU : \A v \in Queued(rq[d]) : v \in VCPU /\ v # u /\ state[v] = "READY" /\ hcpu[v] = d
      <4> SUFFICES ASSUME NEW d \in CPU, NEW v \in Queued(rq[d])
                   PROVE  v \in VCPU /\ v # u /\ state[v] = "READY" /\ hcpu[v] = d
        BY Zenon
      <4>1. v \in VCPU /\ v # NoVcpu BY <2>1, SchedulerAssumption, Zenon
      <4>2. v # u BY <1>8, <4>1, Zenon
      <4>3. state[v] = "READY" /\ hcpu[v] = d BY LinkedOnceQueued, Zenon DEF IndInv, QueuedReady
      <4> QED BY <4>1, <4>2, <4>3, Zenon
    <3>2. \A d \in CPU : \A v \in Queued(rq[d]) : state'[v] = "READY" /\ hcpu'[v] = d
      BY <1>2, <1>6, <3>1, Zenon
    <3>3. run => state'[u] = "READY" /\ hcpu'[u] = c BY <1>1, <1>2, <1>6, <1>7, Zenon DEF run
    <3> TAKE d \in CPU
    <3> TAKE v \in Queued(rq'[d])
    <3>4. v \in Queued(rq[d]) \/ (d = c /\ run /\ v = u) BY <1>9, ZenonT(60)
    <3> QED BY <3>2, <3>3, <3>4, ZenonT(30)
  <2> QED BY <1>9, <2>2, LinkedOnceQueued, Zenon DEF QueuedReady
<1>13. ReadyNotLost'
  <2> SUFFICES ASSUME NEW v \in VCPU, state'[v] = "READY"
               PROVE  v \in Queued(rq'[hcpu[v]]) \/ sw'[hcpu[v]].next = v
    BY <1>2, Zenon DEF ReadyNotLost
  <2>1. hcpu[v] \in CPU BY Ranges, Zenon
  <2>2. CASE v = u /\ run BY <1>7, <1>9, <2>2, ZenonT(60) DEF run
  <2>3. CASE ~(v = u /\ run)
    <3>1. v \in Queued(rq[hcpu[v]]) \/ sw[hcpu[v]].next = v BY <1>6, <2>3, Zenon DEF IndInv, ReadyNotLost
    <3> QED BY <1>9, <1>10, <2>1, <3>1, ZenonT(60)
  <2> QED BY <2>2, <2>3, Zenon
<1>14. RunningIsCurrent' BY <1>2, <1>6, Zenon DEF RunningIsCurrent, IndInv
<1>15. SwitchInv'
  <2> SUFFICES ASSUME NEW d \in CPU PROVE SwitchInv!(d)'
    BY Zenon DEF SwitchInv
  <2>1. SwitchInv!(d) BY Zenon DEF IndInv, SwitchInv
  <2>2. CASE d = c
    <3>1. sw'[d].cur = current_vcpu'[d] BY <1>2, <1>3, <2>2, Zenon DEF u
    <3>2. ASSUME NEW v \in VCPU PROVE sched_lock'[v] = c <=> u = v
      <4>1. sched_lock[v] # c BY <1>1, <2>1, <2>2, Zenon
      <4> QED BY <1>5, <4>1, Zenon
    <3> QED BY <1>3, <2>2, <3>1, <3>2, Zenon
  <2>3. CASE d # c
    <3>1. sw'[d] = sw[d] BY <1>3, <2>3, Zenon
    <3>2. ASSUME NEW v \in VCPU PROVE sched_lock'[v] = d <=> sched_lock[v] = d
      <4>1. CASE v = u
        <5>1. sched_lock'[v] = c /\ sched_lock[v] # d BY <1>1, <1>5, <4>1, SchedulerAssumption, Zenon
        <5> QED BY <2>3, <5>1, Zenon
      <4>2. CASE v # u BY <1>5, <4>2, Zenon
      <4> QED BY <4>1, <4>2, Zenon
    <3> QED BY <1>2, <2>1, <3>1, <3>2, Zenon
  <2> QED BY <2>2, <2>3, Zenon
<1>16. LeavingInv'
  <2> SUFFICES ASSUME NEW d \in CPU, sw'[d].step \in {"dequeue", "lock"}, sw'[d].cur # NoVcpu
               PROVE  LeavingInv!(d)!2'
    BY Zenon DEF LeavingInv
  <2>1. CASE d = c
    <3>1. u \in VCPU /\ sw'[d].cur = u BY <1>1, <1>3, <2>1, Zenon
    <3>2. state'[u] # "RUNNING" BY <1>6, <3>1, Zenon DEF run
    <3>3. sw'[c].save \/ saved[u]
      <4>1. CASE state[u] \in Saveable BY <1>4, <3>1, <4>1, SchedulerAssumption, ZenonT(60)
      <4>2. CASE state[u] \notin Saveable
        <5>1. state[u] = "RESET" BY <1>7, <3>1, <4>2, Ranges, SchedulerAssumption, Zenon DEF Saveable, States
        <5> QED BY <3>1, <5>1, Zenon DEF IndInv, CurrentInv, u
      <4> QED BY <4>1, <4>2, Zenon
    <3> QED BY <1>1, <1>2, <2>1, <3>1, <3>2, <3>3, SchedulerAssumption, Zenon
  <2>2. CASE d # c
    <3>1. sw'[d] = sw[d] /\ sw[d].cur \in VCPU BY <1>3, <2>2, Ranges, Zenon
    <3>2. state'[sw[d].cur] # "RUNNING" BY <1>6, <3>1, Zenon DEF IndInv, LeavingInv
    <3> QED BY <1>2, <3>1, <3>2, Zenon DEF IndInv, LeavingInv
  <2> QED BY <2>1, <2>2, Zenon
<1>17. NextInv'
  <2> SUFFICES ASSUME NEW d \in CPU, sw[d].next # NoVcpu PROVE NextInv!(d)!2'
    BY <1>10, Zenon DEF NextInv
  <2>1. Booted' = Booted BY <1>2, Zenon DEF Booted
  <2> DEFINE m == sw[d].next
  <2>2. /\ \A e \in CPU : m \notin Queued(rq[e]) /\ current_vcpu[e] # m /\ (sw[e].next = m => e = d)
        /\ (state[m] = "READY" => hcpu[m] = d) /\ (m \in Orphan => state[m] = "READY") /\ (m \in Orphan \/ Booted)
    BY Zenon DEF IndInv, NextInv
  <2>3. m \in VCPU /\ m # u /\ sw'[d].next = m BY <1>8, <1>10, Ranges, Zenon
  <2>4. \A e \in CPU : m \notin Queued(rq'[e]) BY <1>9, <2>2, <2>3, ZenonT(60)
  <2>5. \A e \in CPU : sw'[e].next = m => e = d BY <1>10, <2>2, Zenon
  <2>6. state'[m] = state[m] BY <1>6, <2>3, ZenonT(30)
  <2> HIDE DEF m
  <2> QED BY <1>2, <2>1, <2>2, <2>3, <2>4, <2>5, <2>6, Zenon
<1>18. CurrentInv'
  <2> SUFFICES ASSUME NEW d \in CPU, NEW v \in VCPU, current_vcpu[d] = v
               PROVE  CurrentInv!(d)!(v)!2'
    BY <1>2, Zenon DEF CurrentInv
  <2>1. v = u => d = c BY <1>11, SchedulerAssumption, ZenonT(30)
  <2>2. CurrentInv!(d)!(v)!2 BY Zenon DEF IndInv, CurrentInv
  <2>3. CASE v = u BY <1>2, <1>5, <1>6, <1>7, <2>1, <2>2, <2>3, SchedulerAssumption, Zenon DEF run
  <2>4. CASE v # u BY <1>2, <1>5, <1>6, <2>2, <2>4, Zenon
  <2> QED BY <2>3, <2>4, Zenon
<1>19. KindInv'
  <2>1. Booted' = Booted BY <1>2, Zenon DEF Booted
  <2>2. \A v \in Orphan \cup Normal :
          state'[v] = state[v] \/ (state[v] = "RUNNING" /\ state'[v] = "READY")
    BY <1>6, Zenon DEF run, VCPU
  <2>3. KindInv BY Zenon DEF IndInv
  <2>4. \A d \in CPU : state'[idle_vcpu[d]] \in {"READY", "RUNNING"}
    BY <2>2, <2>3, SchedulerAssumption, Zenon DEF KindInv
  <2>5. ~Booted' => \A v \in Normal : state'[v] = "RESET" BY <2>1, <2>2, <2>3, Zenon DEF KindInv
  <2>6. \A v \in Orphan : /\ state'[v] # "HALTED"
                          /\ state'[v] = "PAUSED" => phase[v] = "asleep"
                          /\ state'[v] = "RESET" => phase[v] = "none"
    BY <2>2, <2>3, ZenonT(30) DEF KindInv
  <2> QED BY <1>2, <2>3, <2>4, <2>5, <2>6, Zenon DEF KindInv
<1>20. SleepInv'
  <2>1. u # NoVcpu /\ phase[u] # "none" => state[u] = "PAUSED"
    <3> SUFFICES ASSUME u # NoVcpu, phase[u] # "none" PROVE state[u] = "PAUSED"
      BY Zenon
    <3>1. u \in VCPU /\ phase[u] \in {"asleep", "woken"} BY <1>1, Ranges, Zenon
    <3>2. SleepInv!(u) BY <3>1, Zenon DEF IndInv, SleepInv
    <3>3. 1 # 0 OBVIOUS
    <3>4. wq_owner = u BY <1>1, <3>1, <3>2, <3>3, Zenon
    <3>5. OwnerInv!(u)!2 BY <3>1, <3>4, Zenon DEF IndInv, OwnerInv
    <3>6. sw[c].step # "none" /\ current_vcpu[c] = u BY <1>1, Zenon DEF u
    <3> QED BY <3>5, <3>6, Zenon
  <2>2. \A v \in VCPU : state'[v] = state[v] \/ (phase[v] = "none" /\ state'[v] # "PAUSED")
    BY <1>6, <2>1, Zenon DEF run
  <2>3. \A v \in VCPU : state[v] # "PAUSED" => state'[v] # "PAUSED" BY <1>6, Zenon
  <2> SUFFICES ASSUME NEW v \in VCPU PROVE SleepInv!(v)'
    BY Zenon DEF SleepInv
  <2>4. SleepInv!(v) BY Zenon DEF IndInv, SleepInv
  <2>5. CASE state'[v] = state[v] BY <1>2, <2>4, <2>5, Zenon
  <2>6. CASE state'[v] # state[v]
    <3>1. v = u /\ state[v] = "RUNNING" /\ phase[v] = "none" /\ u # NoVcpu BY <1>6, <2>1, <2>6, Zenon DEF run
    <3> QED BY <1>2, <2>4, <3>1, Zenon
  <2> QED BY <2>5, <2>6, Zenon
<1>21. OwnerInv'
  <2> SUFFICES ASSUME NEW v \in VCPU, wq_owner = v PROVE OwnerInv!(v)!2'
    BY <1>2, Zenon DEF OwnerInv
  <2>1. CASE phase[v] = "woken"
    <3>1. \A d \in CPU : current_vcpu[d] = v => sw[d].step = "none" /\ mode[d] = "vcpu"
      BY <2>1, Zenon DEF IndInv, OwnerInv
    <3>2. \A d \in CPU : current_vcpu[d] = v => d # c BY <1>1, <3>1, Zenon
    <3>3. \A d \in CPU : current_vcpu[d] = v => sw'[d].step = "none" BY <1>3, <3>1, <3>2, Zenon
    <3> QED BY <1>2, <2>1, <3>1, <3>3, Zenon
  <2>2. CASE phase[v] # "woken"
    <3>1. /\ phase[v] = "asleep" /\ state[v] = "PAUSED" /\ preempt_count[v] = 1
          /\ \E d \in CPU : sw[d].cur = v /\ sw[d].step # "none"
      BY <2>2, Zenon DEF IndInv, OwnerInv
    <3>2. state'[v] = "PAUSED" BY <1>6, <3>1, Zenon DEF run
    <3>3. \E d \in CPU : sw'[d].cur = v /\ sw'[d].step # "none" BY <1>1, <1>3, <3>1, Zenon
    <3> QED BY <1>2, <3>1, <3>2, <3>3, ZenonT(60)
  <2> QED BY <2>1, <2>2, Zenon
<1>22. ReleaseInv'
  <2> SUFFICES ASSUME NEW d \in CPU, sw'[d].step = "release", sw'[d].cur # NoVcpu
               PROVE  ReleaseInv!(d)!2'
    BY Zenon DEF ReleaseInv
  <2>1. sw'[d] = sw[d] /\ sw[d].cur \in VCPU BY <1>3, Ranges, Zenon
  <2>2. state[sw[d].cur] # "RESET" => state'[sw[d].cur] # "RESET" BY <1>6, <2>1, Zenon
  <2>3. ReleaseInv!(d)!2 BY <2>1, Zenon DEF IndInv, ReleaseInv
  <2> QED BY <1>2, <2>1, <2>2, <2>3, Zenon
<1>23. OneCpuPerVcpu' /\ OffInv' /\ AffinityInv' BY <1>2, Frame, Zenon
<1> QED BY <1>12, <1>13, <1>14, <1>15, <1>16, <1>17, <1>18, <1>19, <1>20, <1>21, <1>22, <1>23, Zenon DEF IndInv

-----------------------------------------------------------------------------
(* rq_detach() of a VCPU, wherever it is linked. *)
LEMMA DetachShape ==
  ASSUME TypeOK, Shape, NEW v \in VCPU
  PROVE  LET q == DetachAll(v) IN
         /\ q \in [CPU -> Queues(VCPU)]
         /\ \A c \in CPU, p \in Priorities : Once(q[c][p]) /\ Linked(q[c][p]) \subseteq Linked(rq[c][p])
         /\ \A c \in CPU : Queued(q[c]) = Queued(rq[c]) \ {v}
<1> DEFINE q == DetachAll(v)
<1>t. rq \in [CPU -> Queues(VCPU)] BY Zenon DEF TypeOK, Queues
<1>1. \A c \in CPU : q[c] = rq_detach(rq[c], v) BY Zenon DEF DetachAll
<1>2. \A c \in CPU, p \in Priorities :
        /\ rq[c][p] \in Seq(VCPU) /\ Once(rq[c][p]) /\ q[c][p] = Unlink(rq[c][p], v)
  BY <1>t, <1>1, ZenonT(60) DEF Shape, Queues, rq_detach
<1>3. \A c \in CPU, p \in Priorities : Once(q[c][p]) /\ Linked(q[c][p]) = Linked(rq[c][p]) \ {v}
  BY <1>2, UnlinkLinked
<1>4. ASSUME NEW c \in CPU PROVE Queued(q[c]) = Queued(rq[c]) \ {v}
  <2> DEFINE x == q[c]
             y == rq[c]
  <2>1. \A p \in Priorities : Linked(x[p]) = Linked(y[p]) \ {v} BY <1>3, Zenon
  <2> HIDE DEF x, y
  <2>2. Queued(x) = Queued(y) \ {v} BY <2>1 DEF Queued
  <2> QED BY <2>2, Zenon DEF x, y
<1>5. q \in [CPU -> Queues(VCPU)]
  <2>1. \A c \in CPU : rq_detach(rq[c], v) \in Queues(VCPU) BY <1>t, QueueTypes, ZenonT(60)
  <2> QED BY <2>1, Zenon DEF DetachAll
<1> HIDE DEF q
<1> QED BY <1>3, <1>4, <1>5, Zenon DEF q

-----------------------------------------------------------------------------
(***************************************************************************)
(* The waitqueue: a thread sleeps and returns from its sleep.              *)
(***************************************************************************)

(* The end of the state change that put a thread to sleep: the thread runs *)
(* again and takes the lock of the waitqueue.                              *)
LEMMA RelockKeeps ==
  ASSUME IndInv, TypeOK, TypeOK', NEW c \in CPU, Relock(c)
  PROVE  IndInv'
<1> DEFINE u == current_vcpu[c]
<1>1. /\ u \in Thread /\ u \in VCPU /\ phase[u] = "asleep" /\ sw[c].step = "none" /\ mode[c] = "vcpu"
      /\ MustRelock(u) => wq_owner = NoVcpu
  BY Zenon DEF Relock, Thread, VCPU
<1>2. hcpu[u] = c /\ wq_lock[u] /\ sleep_cpu[u] = c /\ u # NoVcpu
  <2>1. hcpu[u] = c BY <1>1, Zenon DEF IndInv, CurrentInv
  <2>2. wq_lock[u] /\ sleep_cpu[u] = hcpu[u] BY <1>1, Zenon DEF IndInv, SleepInv
  <2> QED BY <1>1, <2>1, <2>2, SchedulerAssumption, Zenon
<1>3. MustRelock(u) BY <1>2, Zenon DEF MustRelock
<1>4. wq_owner = NoVcpu /\ wq_owner # u BY <1>1, <1>2, <1>3, Zenon
<1>5. /\ wq_owner' = u /\ preempt_count' = [preempt_count EXCEPT ![u] = @ + 1]
      /\ phase' = [phase EXCEPT ![u] = "woken"]
  BY <1>3, Zenon DEF Relock
<1>6. UNCHANGED <<state, hcpu, sched_lock, saved, wq_lock, wq_cleanup, sleep_cpu, rq, current_vcpu,
                  sw, mode, ipi_migrate>>
  BY Zenon DEF Relock, vcpuVars, cpuVars, ipiVars
<1>7. state[u] = "RUNNING" /\ preempt_count[u] = 0
  <2>1. preempt_count[u] = 0 /\ state[u] # "PAUSED" BY <1>1, <1>4, Zenon DEF IndInv, SleepInv
  <2>2. state[u] # "READY"
    <3> SUFFICES ASSUME state[u] = "READY" PROVE FALSE
      BY Zenon
    <3>1. sched_lock[u] = c BY <1>1, Zenon DEF IndInv, CurrentInv
    <3>2. SwitchInv!(c) BY Zenon DEF IndInv, SwitchInv
    <3> QED BY <1>1, <3>1, <3>2, Zenon
  <2>3. state[u] # "RESET" /\ state[u] # "HALTED"
    BY <1>1, SchedulerAssumption, Zenon DEF IndInv, CurrentInv, KindInv, Thread
  <2> QED BY <1>1, <2>1, <2>2, <2>3, Ranges, Zenon DEF States
<1>8. \A v \in VCPU : /\ preempt_count'[v] = IF v = u THEN 1 ELSE preempt_count[v]
                      /\ phase'[v] = IF v = u THEN "woken" ELSE phase[v]
  <2>1. preempt_count \in [VCPU -> Nat] /\ phase \in [VCPU -> {"none", "asleep", "woken"}] BY Zenon DEF TypeOK
  <2> HIDE DEF u
  <2>2. 0 + 1 = 1 OBVIOUS
  <2>3. preempt_count' = [preempt_count EXCEPT ![u] = 1] BY <1>5, <1>7, <2>2, Zenon
  <2>4. \A v \in VCPU : preempt_count'[v] = IF v = u THEN 1 ELSE preempt_count[v] BY <2>1, <2>3, Zenon
  <2>5. \A v \in VCPU : phase'[v] = IF v = u THEN "woken" ELSE phase[v] BY <1>5, <2>1, Zenon
  <2> QED BY <2>4, <2>5, Zenon
<1>9. \A d \in CPU : current_vcpu[d] = u => d = c BY <1>2, Zenon DEF IndInv, OneCpuPerVcpu
<1>10. \A d \in CPU : sw[d].step # "none" => sw[d].cur # u
  <2> SUFFICES ASSUME NEW d \in CPU, sw[d].step # "none", sw[d].cur = u PROVE FALSE
    BY Zenon
  <2>1. d # c BY <1>1, Zenon
  <2>2. sw[d].step \in {"start", "dequeue", "lock", "release"} BY Ranges, Zenon
  <2>3. sw[d].step \in {"start", "dequeue", "lock"} => sw[d].cur = current_vcpu[d] BY Zenon DEF IndInv, SwitchInv
  <2>4. sw[d].step = "release" BY <1>9, <2>1, <2>2, <2>3, Zenon
  <2> QED BY <1>1, <1>2, <2>4, Zenon DEF IndInv, ReleaseInv
<1> HIDE DEF u
<1>11. LeavingInv'
  <2> SUFFICES ASSUME NEW d \in CPU, sw[d].step \in {"dequeue", "lock"}, sw[d].cur # NoVcpu
               PROVE  LeavingInv!(d)!2'
    BY <1>6, Zenon DEF LeavingInv
  <2>1. sw[d].cur \in VCPU /\ sw[d].cur # u BY <1>10, Ranges, Zenon
  <2>2. LeavingInv!(d)!2 BY Zenon DEF IndInv, LeavingInv
  <2> QED BY <1>6, <1>8, <2>1, <2>2, Zenon
<1>12. OffInv'
  <2> SUFFICES ASSUME NEW v \in VCPU, \A d \in CPU : current_vcpu[d] # v
               PROVE  saved[v] /\ (wq_owner' # v => preempt_count'[v] = 0)
    BY <1>6, Zenon DEF OffInv
  <2>1. v # u /\ wq_owner # v BY <1>4, SchedulerAssumption, Zenon DEF u
  <2> QED BY <1>8, <2>1, Zenon DEF IndInv, OffInv
<1>13. KindInv' BY <1>6, <1>7, <1>8, Zenon DEF KindInv, IndInv, Booted, VCPU
<1>14. SleepInv'
  <2> SUFFICES ASSUME NEW v \in VCPU PROVE SleepInv!(v)'
    BY Zenon DEF SleepInv
  <2>1. SleepInv!(v) BY Zenon DEF IndInv, SleepInv
  <2>2. v # u => wq_owner # v BY <1>4, SchedulerAssumption, Zenon
  <2>3. CASE v = u
    <3>1. phase'[v] = "woken" /\ preempt_count'[v] = 1 /\ wq_owner' = v BY <1>5, <1>8, <2>3, Zenon
    <3>2. wq_lock[v] /\ v \in Thread /\ sleep_cpu[v] = hcpu[v] /\ state[v] = "RUNNING"
      BY <1>1, <1>2, <1>7, <2>3, Zenon
    <3> QED BY <1>6, <2>1, <3>1, <3>2, Zenon
  <2>4. CASE v # u BY <1>5, <1>6, <1>8, <2>1, <2>2, <2>4, Zenon
  <2> QED BY <2>3, <2>4, Zenon
<1>15. OwnerInv' BY <1>1, <1>5, <1>6, <1>8, <1>9, Zenon DEF OwnerInv, u
<1>16. ReleaseInv'
  <2> SUFFICES ASSUME NEW d \in CPU, sw[d].step = "release", sw[d].cur # NoVcpu PROVE ReleaseInv!(d)!2'
    BY <1>6, Zenon DEF ReleaseInv
  <2>1. sw[d].cur \in VCPU /\ sw[d].cur # u BY <1>10, Ranges, Zenon
  <2>2. ~wq_lock[sw[d].cur] BY <1>4, <2>1, SchedulerAssumption, Zenon DEF IndInv, ReleaseInv
  <2> QED BY <1>6, <1>8, <2>1, <2>2, Zenon DEF IndInv, ReleaseInv
<1>17. /\ OneCpuPerVcpu' /\ LinkedOnce' /\ ReadyNotLost' /\ RunningIsCurrent' /\ SwitchInv' /\ NextInv'
       /\ CurrentInv' /\ AffinityInv'
  BY <1>6, Frame, Zenon
<1> QED BY <1>11, <1>12, <1>13, <1>14, <1>15, <1>16, <1>17, Zenon DEF IndInv

(* __vmm_waitqueue_sleep() returns and its caller releases that lock. *)
LEMMA SleepReturnKeeps ==
  ASSUME IndInv, TypeOK, TypeOK', NEW c \in CPU, SleepReturn(c)
  PROVE  IndInv'
<1> DEFINE u == current_vcpu[c]
<1>1. u \in Thread /\ u \in VCPU /\ phase[u] = "woken" BY Zenon DEF SleepReturn, Thread, VCPU
<1>2. wq_owner = u /\ preempt_count[u] = 1 /\ state[u] = "RUNNING" /\ ~wq_cleanup[u]
  BY <1>1, Zenon DEF IndInv, SleepInv
<1>3. UNCHANGED <<state, hcpu, sched_lock, saved, wq_cleanup, rq, current_vcpu, sw, mode, ipi_migrate>>
  BY Zenon DEF SleepReturn, vcpuVars, cpuVars, ipiVars
<1>4. wq_owner' = NoVcpu /\ preempt_count' = [preempt_count EXCEPT ![u] = 0]
  <2>1. preempt_count' = [preempt_count EXCEPT ![u] = PreemptEnable(u)] /\ wq_owner' = NoVcpu
    BY <1>2, Zenon DEF SleepReturn
  <2>2. PreemptEnable(u) = 0
    <3> HIDE DEF u
    <3> QED BY <1>2 DEF PreemptEnable
  <2> QED BY <2>1, <2>2, Zenon
<1>5. \A v \in VCPU : /\ preempt_count'[v] = IF v = u THEN 0 ELSE preempt_count[v]
                      /\ phase'[v] = IF v = u THEN "none" ELSE phase[v]
                      /\ sleep_cpu'[v] = IF v = u THEN NoCpu ELSE sleep_cpu[v]
  <2>1. phase' = [phase EXCEPT ![u] = "none"] /\ sleep_cpu' = [sleep_cpu EXCEPT ![u] = NoCpu]
    BY Zenon DEF SleepReturn
  <2> HIDE DEF u
  <2>2. /\ preempt_count \in [VCPU -> Nat] /\ phase \in [VCPU -> {"none", "asleep", "woken"}]
        /\ sleep_cpu \in [VCPU -> CPU \cup {NoCpu}]
    BY Zenon DEF TypeOK
  <2>3. \A v \in VCPU : preempt_count'[v] = IF v = u THEN 0 ELSE preempt_count[v] BY <1>4, <2>2, Zenon
  <2>4. \A v \in VCPU : phase'[v] = IF v = u THEN "none" ELSE phase[v] BY <2>1, <2>2, Zenon
  <2>5. \A v \in VCPU : sleep_cpu'[v] = IF v = u THEN NoCpu ELSE sleep_cpu[v] BY <2>1, <2>2, Zenon
  <2> QED BY <2>3, <2>4, <2>5, Zenon
<1>6. \A v \in VCPU : wq_lock'[v] <=> v # u /\ wq_lock[v]
  <2>1. wq_lock' = [wq_lock EXCEPT ![u] = FALSE] BY Zenon DEF SleepReturn
  <2> HIDE DEF u
  <2> QED BY <2>1, Zenon DEF TypeOK
<1>7. \A d \in CPU : sw[d].step # "none" => sw[d].cur # u
  <2> SUFFICES ASSUME NEW d \in CPU, sw[d].step # "none", sw[d].cur = u PROVE FALSE
    BY Zenon
  <2>2. sw[d].step \in {"start", "dequeue", "lock", "release"} BY Ranges, Zenon
  <2>3. OwnerInv!(u)!2 BY <1>1, <1>2, Zenon DEF IndInv, OwnerInv
  <2>4. \A e \in CPU : current_vcpu[e] = u => sw[e].step = "none" BY <1>1, <2>3, Zenon
  <2>5. sw[d].step \notin {"start", "dequeue", "lock"} BY <2>4, Zenon DEF IndInv, SwitchInv
  <2>6. sw[d].step = "release" BY <2>2, <2>5, Zenon
  <2>7. wq_lock[u] /\ u # NoVcpu BY <1>1, SchedulerAssumption, Zenon DEF IndInv, SleepInv
  <2> QED BY <1>1, <2>6, <2>7, Zenon DEF IndInv, ReleaseInv
<1> HIDE DEF u
<1>8. LeavingInv'
  <2> SUFFICES ASSUME NEW d \in CPU, sw[d].step \in {"dequeue", "lock"}, sw[d].cur # NoVcpu
               PROVE  LeavingInv!(d)!2'
    BY <1>3, Zenon DEF LeavingInv
  <2>1. sw[d].cur \in VCPU /\ sw[d].cur # u BY <1>7, Ranges, Zenon
  <2>2. LeavingInv!(d)!2 BY Zenon DEF IndInv, LeavingInv
  <2> QED BY <1>3, <1>5, <1>6, <2>1, <2>2, Zenon
<1>9. OffInv' BY <1>2, <1>3, <1>4, <1>5, SchedulerAssumption, ZenonT(30) DEF OffInv, IndInv, u
<1>10. KindInv' BY <1>2, <1>3, <1>5, ZenonT(30) DEF KindInv, IndInv, Booted, VCPU
<1>11. SleepInv'
  <2> SUFFICES ASSUME NEW v \in VCPU PROVE SleepInv!(v)'
    BY Zenon DEF SleepInv
  <2>1. SleepInv!(v) BY Zenon DEF IndInv, SleepInv
  <2>2. CASE v = u BY <1>2, <1>3, <1>5, <1>6, <2>2, Zenon
  <2>3. CASE v # u BY <1>2, <1>3, <1>5, <1>6, <2>1, <2>3, Zenon
  <2> QED BY <2>2, <2>3, Zenon
<1>12. OwnerInv' BY <1>4, SchedulerAssumption, Zenon DEF OwnerInv
<1>13. ReleaseInv'
  <2> SUFFICES ASSUME NEW d \in CPU, sw[d].step = "release", sw[d].cur # NoVcpu PROVE ReleaseInv!(d)!2'
    BY <1>3, Zenon DEF ReleaseInv
  <2>1. sw[d].cur \in VCPU /\ sw[d].cur # u BY <1>7, Ranges, Zenon
  <2>2. ~wq_lock[sw[d].cur] BY <1>2, <2>1, SchedulerAssumption, Zenon DEF IndInv, ReleaseInv
  <2> QED BY <1>3, <1>6, <2>1, <2>2, Zenon DEF IndInv, ReleaseInv
<1>14. /\ OneCpuPerVcpu' /\ LinkedOnce' /\ ReadyNotLost' /\ RunningIsCurrent' /\ SwitchInv' /\ NextInv'
       /\ CurrentInv' /\ AffinityInv'
  BY <1>3, Frame, Zenon
<1> QED BY <1>8, <1>9, <1>10, <1>11, <1>12, <1>13, <1>14, Zenon DEF IndInv

(* A thread takes or releases a spinlock, which counts in preempt_count. *)
LEMMA SpinLockKeeps ==
  ASSUME IndInv, TypeOK, TypeOK', NEW c \in CPU, SpinLock(c)
  PROVE  IndInv'
<1> DEFINE u == current_vcpu[c]
<1>1. u \in Thread /\ u \in VCPU /\ phase[u] = "none" /\ sw[c].step = "none" /\ mode[c] = "vcpu"
  BY Zenon DEF SpinLock, InOrphan, Thread, VCPU
<1>2. UNCHANGED <<state, hcpu, sched_lock, saved, wq_lock, wq_cleanup, phase, sleep_cpu, wq_owner,
                  rq, current_vcpu, sw, mode, ipi_migrate>>
  BY Zenon DEF SpinLock, vcpuVars, cpuVars, ipiVars
<1>3. \A v \in VCPU : v # u => preempt_count'[v] = preempt_count[v]
  <2>1. preempt_count \in [VCPU -> Nat] BY Zenon DEF TypeOK
  <2>2. \E n : preempt_count' = [preempt_count EXCEPT ![u] = n] BY Zenon DEF SpinLock
  <2> QED BY <2>1, <2>2, Zenon
<1>4. wq_owner # u BY <1>1, Zenon DEF IndInv, OwnerInv
<1>5. \A d \in CPU : sw[d].step \in {"dequeue", "lock"} => sw[d].cur # u
  <2> SUFFICES ASSUME NEW d \in CPU, sw[d].step \in {"dequeue", "lock"}, sw[d].cur = u PROVE FALSE
    BY Zenon
  <2>1. current_vcpu[d] = u BY Zenon DEF IndInv, SwitchInv
  <2>2. u # NoVcpu BY <1>1, SchedulerAssumption, Zenon
  <2>3. d = c BY <2>1, <2>2, Zenon DEF IndInv, OneCpuPerVcpu
  <2> QED BY <1>1, <2>3, Zenon
<1>6. LeavingInv'
  <2> SUFFICES ASSUME NEW d \in CPU, sw[d].step \in {"dequeue", "lock"}, sw[d].cur # NoVcpu
               PROVE  LeavingInv!(d)!2'
    BY <1>2, Zenon DEF LeavingInv
  <2>1. sw[d].cur \in VCPU /\ sw[d].cur # u BY <1>5, Ranges, Zenon
  <2>2. LeavingInv!(d)!2 BY Zenon DEF IndInv, LeavingInv
  <2> QED BY <1>2, <1>3, <2>1, <2>2, Zenon
<1>7. OffInv' BY <1>2, <1>3, Zenon DEF OffInv, IndInv
<1>8. SleepInv' BY <1>1, <1>2, <1>3 DEF SleepInv, IndInv
<1>9. OwnerInv'
  <2> SUFFICES ASSUME NEW v \in VCPU, wq_owner = v PROVE OwnerInv!(v)!2'
    BY <1>2, Zenon DEF OwnerInv
  <2>1. preempt_count'[v] = preempt_count[v] BY <1>3, <1>4, Zenon
  <2>2. OwnerInv!(v)!2 BY Zenon DEF IndInv, OwnerInv
  <2> QED BY <1>2, <2>1, <2>2, Zenon
<1>10. /\ OneCpuPerVcpu' /\ LinkedOnce' /\ ReadyNotLost' /\ RunningIsCurrent' /\ SwitchInv' /\ NextInv'
       /\ CurrentInv' /\ KindInv' /\ AffinityInv' /\ ReleaseInv'
  BY <1>2, Frame, Zenon
<1> QED BY <1>6, <1>7, <1>8, <1>9, <1>10, Zenon DEF IndInv

(* __vmm_waitqueue_sleep() pauses the thread and enters a switch with the  *)
(* lock of the waitqueue held.                                             *)
LEMMA SleepKeeps ==
  ASSUME IndInv, TypeOK, TypeOK', NEW c \in CPU, Sleep(c)
  PROVE  IndInv'
<1> DEFINE u == current_vcpu[c]
<1>1. /\ u \in Thread /\ u \in VCPU /\ u # NoVcpu /\ u \in Orphan /\ phase[u] = "none"
      /\ sw[c].step = "none" /\ mode[c] = "vcpu"
      /\ wq_owner = NoVcpu /\ sched_lock[u] = NoCpu /\ state[u] = "RUNNING" /\ preempt_count[u] = 0
  BY SchedulerAssumption, Zenon DEF Sleep, InOrphan, Thread, VCPU
<1>2. hcpu[u] = c BY <1>1, Zenon DEF IndInv, CurrentInv
<1>3. UNCHANGED <<hcpu, sched_lock, saved, rq, current_vcpu, mode, ipi_migrate>> BY Zenon DEF Sleep
<1>4. CASE resumed[u]
  <2>1. UNCHANGED <<state, preempt_count, wq_lock, wq_cleanup, phase, sleep_cpu, wq_owner, sw>>
    BY <1>4, Zenon DEF Sleep, wqVars
  <2>2. /\ OneCpuPerVcpu' /\ LinkedOnce' /\ ReadyNotLost' /\ RunningIsCurrent' /\ SwitchInv' /\ LeavingInv'
        /\ NextInv' /\ CurrentInv' /\ OffInv' /\ KindInv' /\ AffinityInv' /\ SleepInv' /\ OwnerInv' /\ ReleaseInv'
    BY <1>3, <2>1, Frame, Zenon
  <2> QED BY <2>2, Zenon DEF IndInv
<1>5. CASE ~resumed[u]
  <2>1. /\ state' = [state EXCEPT ![u] = "PAUSED"] /\ wq_cleanup' = [wq_cleanup EXCEPT ![u] = TRUE]
        /\ wq_lock' = [wq_lock EXCEPT ![u] = TRUE] /\ wq_owner' = u
        /\ preempt_count' = [preempt_count EXCEPT ![u] = 1]
        /\ phase' = [phase EXCEPT ![u] = "asleep"] /\ sleep_cpu' = [sleep_cpu EXCEPT ![u] = c]
    BY <1>2, <1>5, Zenon DEF Sleep
  <2>2. sw' = [sw EXCEPT ![c] = Switching(c)]
    <3>1. Preempt(c, c, TRUE, FALSE) BY <1>2, <1>5, ZenonT(60) DEF Sleep
    <3> QED BY <1>1, <3>1, Zenon DEF Preempt
  <2>3. Begin(c) BY <1>1, <2>2, Zenon DEF Begin
  <2>4. sw'[c].step = "start" /\ sw'[c].cur = u /\ sw'[c].next = NoVcpu /\ \A d \in CPU : d # c => sw'[d] = sw[d]
    BY <2>2, Zenon DEF Switching, SwitchAt, TypeOK
  <2>5. \A v \in VCPU : v # u => /\ state'[v] = state[v] /\ preempt_count'[v] = preempt_count[v]
                                 /\ phase'[v] = phase[v] /\ sleep_cpu'[v] = sleep_cpu[v]
    <3>1. /\ state \in [VCPU -> States] /\ preempt_count \in [VCPU -> Nat]
          /\ phase \in [VCPU -> {"none", "asleep", "woken"}] /\ sleep_cpu \in [VCPU -> CPU \cup {NoCpu}]
      BY Zenon DEF TypeOK
    <3> HIDE DEF u
    <3>2. \A v \in VCPU : v # u => state'[v] = state[v] BY <2>1, <3>1, Zenon
    <3>3. \A v \in VCPU : v # u => preempt_count'[v] = preempt_count[v] BY <2>1, <3>1, Zenon
    <3>4. \A v \in VCPU : v # u => phase'[v] = phase[v] BY <2>1, <3>1, Zenon
    <3>5. \A v \in VCPU : v # u => sleep_cpu'[v] = sleep_cpu[v] BY <2>1, <3>1, Zenon
    <3> QED BY <3>2, <3>3, <3>4, <3>5, Zenon
  <2>6. \A v \in VCPU : v # u => (wq_lock'[v] <=> wq_lock[v]) /\ (wq_cleanup'[v] <=> wq_cleanup[v])
    <3>1. wq_lock \in [VCPU -> BOOLEAN] /\ wq_cleanup \in [VCPU -> BOOLEAN] BY Zenon DEF TypeOK
    <3> HIDE DEF u
    <3>2. \A v \in VCPU : v # u => wq_lock'[v] = wq_lock[v] BY <2>1, <3>1, Zenon
    <3>3. \A v \in VCPU : v # u => wq_cleanup'[v] = wq_cleanup[v] BY <2>1, <3>1, Zenon
    <3> QED BY <3>2, <3>3, Zenon
  <2>7. /\ state'[u] = "PAUSED" /\ preempt_count'[u] = 1 /\ phase'[u] = "asleep" /\ sleep_cpu'[u] = c
        /\ wq_lock'[u] /\ wq_cleanup'[u]
    <3>1. /\ state \in [VCPU -> States] /\ preempt_count \in [VCPU -> Nat]
          /\ phase \in [VCPU -> {"none", "asleep", "woken"}] /\ sleep_cpu \in [VCPU -> CPU \cup {NoCpu}]
          /\ wq_lock \in [VCPU -> BOOLEAN] /\ wq_cleanup \in [VCPU -> BOOLEAN]
      BY Zenon DEF TypeOK
    <3> HIDE DEF u
    <3>2. state'[u] = "PAUSED" /\ preempt_count'[u] = 1 BY <1>1, <2>1, <3>1, Zenon
    <3>3. phase'[u] = "asleep" /\ sleep_cpu'[u] = c BY <1>1, <2>1, <3>1, Zenon
    <3>4. wq_lock'[u] /\ wq_cleanup'[u] BY <1>1, <2>1, <3>1, Zenon
    <3> QED BY <3>2, <3>3, <3>4, Zenon
  <2>8. \A d \in CPU : sw'[d].next = sw[d].next BY <2>3, BeginFrame, Zenon
  <2>9. \A d \in CPU : u \notin Queued(rq[d]) /\ sw[d].next # u
    <3>1. \A d \in CPU : u \notin Queued(rq[d]) BY <1>1, LinkedOnceQueued, Zenon DEF IndInv, QueuedReady
    <3>2. \A d \in CPU : sw[d].next # u BY <1>1, Zenon DEF IndInv, NextInv
    <3> QED BY <3>1, <3>2, Zenon
  <2>10. \A d \in CPU : d # c => current_vcpu[d] # u BY <1>1, Zenon DEF IndInv, OneCpuPerVcpu
  <2>11. \A d \in CPU : sw[d].step \in {"dequeue", "lock", "release"} => sw[d].cur # u
    <3> SUFFICES ASSUME NEW d \in CPU, sw[d].step \in {"dequeue", "lock", "release"}, sw[d].cur = u PROVE FALSE
      BY Zenon
    <3>1. d # c BY <1>1, Zenon
    <3>2. sw[d].step = "release"
      <4>1. sw[d].step \in {"start", "dequeue", "lock"} => sw[d].cur = current_vcpu[d] BY Zenon DEF IndInv, SwitchInv
      <4> QED BY <2>10, <3>1, <4>1, Zenon
    <3> QED BY <1>1, <1>2, <3>1, <3>2, Zenon DEF IndInv, ReleaseInv
  <2> HIDE DEF u
  <2>12. SwitchInv' BY <1>3, <2>3, BeginFrame, Zenon
  <2>13. LinkedOnce'
    <3>1. \A d \in CPU : Queued(rq[d]) \subseteq VCPU BY QueuedVcpus, Zenon
    <3>2. QueuedReady' BY <1>3, <2>5, <2>9, <3>1, LinkedOnceQueued, Zenon DEF QueuedReady, IndInv
    <3>3. Shape' BY <1>3, LinkedOnceQueued, Zenon DEF Shape, IndInv
    <3> QED BY <3>2, <3>3, LinkedOnceQueued, Zenon
  <2>14. ReadyNotLost'
    <3> SUFFICES ASSUME NEW v \in VCPU, state'[v] = "READY"
                 PROVE  v \in Queued(rq[hcpu[v]]) \/ sw'[hcpu[v]].next = v
      BY <1>3, Zenon DEF ReadyNotLost
    <3>1. state[v] = "READY" /\ hcpu[v] \in CPU
      <4>1. v # u BY <2>7, Zenon
      <4> QED BY <2>5, <4>1, Ranges, Zenon
    <3> QED BY <2>8, <3>1, Zenon DEF IndInv, ReadyNotLost
  <2>15. RunningIsCurrent' BY <1>3, <2>5, <2>7, Zenon DEF RunningIsCurrent, IndInv
  <2>16. LeavingInv'
    <3> SUFFICES ASSUME NEW d \in CPU, sw'[d].step \in {"dequeue", "lock"}, sw'[d].cur # NoVcpu
                 PROVE  LeavingInv!(d)!2'
      BY Zenon DEF LeavingInv
    <3>1. sw'[d] = sw[d] /\ sw[d].cur \in VCPU /\ sw[d].cur # u BY <2>4, <2>11, Ranges, Zenon
    <3>2. LeavingInv!(d)!2 BY <3>1, Zenon DEF IndInv, LeavingInv
    <3>3. /\ state'[sw[d].cur] = state[sw[d].cur] /\ preempt_count'[sw[d].cur] = preempt_count[sw[d].cur]
          /\ wq_lock'[sw[d].cur] <=> wq_lock[sw[d].cur]
      BY <2>5, <2>6, <3>1, Zenon
    <3> QED BY <1>3, <3>1, <3>2, <3>3, Zenon
  <2>17. NextInv'
    <3> SUFFICES ASSUME NEW d \in CPU, sw[d].next # NoVcpu PROVE NextInv!(d)!2'
      BY <2>8, Zenon DEF NextInv
    <3>1. Booted' = Booted BY <1>3, Zenon DEF Booted
    <3>2. NextInv!(d)!2 BY Zenon DEF IndInv, NextInv
    <3>3. state'[sw[d].next] = state[sw[d].next] BY <2>5, <2>9, Ranges, Zenon
    <3> QED BY <1>3, <2>8, <3>1, <3>2, <3>3, Zenon
  <2>18. CurrentInv'
    <3> SUFFICES ASSUME NEW d \in CPU, NEW v \in VCPU, current_vcpu[d] = v PROVE CurrentInv!(d)!(v)!2'
      BY <1>3, Zenon DEF CurrentInv
    <3>1. CASE v = u BY <1>3, <2>7, <3>1, Zenon DEF IndInv, CurrentInv
    <3>2. CASE v # u
      <4>1. CurrentInv!(d)!(v)!2 BY Zenon DEF IndInv, CurrentInv
      <4>2. state'[v] = state[v] BY <2>5, <3>2, Zenon
      <4> QED BY <1>3, <4>1, <4>2, Zenon
    <3> QED BY <3>1, <3>2, Zenon
  <2>19. OffInv'
    <3> SUFFICES ASSUME NEW v \in VCPU, \A d \in CPU : current_vcpu[d] # v
                 PROVE  saved[v] /\ (wq_owner' # v => preempt_count'[v] = 0)
      BY <1>3, Zenon DEF OffInv
    <3>1. v # u BY Zenon DEF u
    <3>2. wq_owner # v BY <1>1, SchedulerAssumption, Zenon
    <3>3. OffInv!(v)!2 BY Zenon DEF IndInv, OffInv
    <3> QED BY <2>5, <3>1, <3>2, <3>3, Zenon
  <2>20. KindInv'
    <3>1. Booted' = Booted BY <1>3, Zenon DEF Booted
    <3>2. u \notin Normal /\ \A d \in CPU : idle_vcpu[d] # u /\ idle_vcpu[d] \in VCPU
      BY <1>1, SchedulerAssumption, Zenon DEF Thread, Idle, VCPU
    <3>3. KindInv /\ Normal \subseteq VCPU /\ Orphan \subseteq VCPU BY Zenon DEF IndInv, VCPU
    <3>4. \A d \in CPU : state'[idle_vcpu[d]] \in {"READY", "RUNNING"} BY <2>5, <3>2, <3>3, Zenon DEF KindInv
    <3>5. \A v \in Normal : state'[v] = state[v] /\ (wq_cleanup'[v] <=> wq_cleanup[v])
      BY <2>5, <2>6, <3>2, <3>3, Zenon
    <3>6. \A v \in Orphan : /\ state'[v] # "HALTED"
                            /\ state'[v] = "PAUSED" => phase'[v] = "asleep"
                            /\ state'[v] = "RESET" => phase'[v] = "none"
      <4> TAKE v \in Orphan
      <4>1. CASE v = u BY <2>7, <4>1, Zenon
      <4>2. CASE v # u BY <2>5, <3>3, <4>2, Zenon DEF KindInv
      <4> QED BY <4>1, <4>2, Zenon
    <3> QED BY <3>1, <3>3, <3>4, <3>5, <3>6, Zenon DEF KindInv
  <2>21. AffinityInv' BY <1>3, Frame, Zenon
  <2>22. SleepInv'
    <3> SUFFICES ASSUME NEW v \in VCPU PROVE SleepInv!(v)'
      BY Zenon DEF SleepInv
    <3>1. CASE v = u BY <1>1, <1>2, <1>3, <2>1, <2>7, <3>1, Zenon
    <3>2. CASE v # u
      <4>1. SleepInv!(v) BY Zenon DEF IndInv, SleepInv
      <4>2. wq_owner # v /\ wq_owner' # v BY <1>1, <2>1, <3>2, SchedulerAssumption, Zenon
      <4> QED BY <1>3, <2>5, <2>6, <3>2, <4>1, <4>2, Zenon
    <3> QED BY <3>1, <3>2, Zenon
  <2>23. OwnerInv' BY <2>1, <2>4, <2>7, Zenon DEF OwnerInv
  <2>24. ReleaseInv'
    <3> SUFFICES ASSUME NEW d \in CPU, sw'[d].step = "release", sw'[d].cur # NoVcpu PROVE ReleaseInv!(d)!2'
      BY Zenon DEF ReleaseInv
    <3>1. sw'[d] = sw[d] /\ sw[d].step = "release" /\ sw[d].cur \in VCPU /\ sw[d].cur # u
      BY <2>4, <2>11, Ranges, Zenon
    <3>2. ~wq_lock[sw[d].cur] BY <1>1, <3>1, SchedulerAssumption, Zenon DEF IndInv, ReleaseInv
    <3>3. ReleaseInv!(d)!2 BY <3>1, Zenon DEF IndInv, ReleaseInv
    <3>4. state'[sw[d].cur] = state[sw[d].cur] /\ ~wq_lock'[sw[d].cur] BY <2>5, <2>6, <3>1, <3>2, Zenon
    <3> QED BY <1>3, <3>1, <3>3, <3>4, Zenon
  <2>25. OneCpuPerVcpu' BY <1>3, Frame, Zenon
  <2> QED BY <2>12, <2>13, <2>14, <2>15, <2>16, <2>17, <2>18, <2>19, <2>20, <2>21, <2>22, <2>23, <2>24, <2>25, Zenon DEF IndInv
<1> QED BY <1>4, <1>5, Zenon

-----------------------------------------------------------------------------
(***************************************************************************)
(* VCPUs become READY.                                                     *)
(***************************************************************************)

(* The end of a state change may enter a switch on its own host CPU. *)
LEMMA PreemptBegins ==
  ASSUME NEW c \in CPU, NEW h \in CPU, NEW needed, NEW locked, sw[c].step = "none",
         Preempt(c, h, needed, locked)
  PROVE  Begin(c)
  BY Zenon DEF Preempt, Begin

(* A state change to READY of a VCPU that no host CPU runs.  A handler     *)
(* that wakes it may keep the lock of the waitqueue.                       *)
LEMMA ReadyKeeps ==
  ASSUME IndInv, TypeOK, TypeOK', NEW c \in CPU, NEW v \in VCPU, NEW locked, ChangeToReady(c, v, locked),
         Caller(c), state[v] \in {"RESET", "PAUSED"}, wq_owner # v, OffCpu(v), v \in Normal => Booted,
         wq_owner' = wq_owner \/ (wq_owner = NoVcpu /\ wq_owner' = c)
  PROVE  IndInv'
<1> DEFINE h == hcpu[v]
<1>1. /\ h \in CPU /\ sched_lock[v] = NoCpu /\ sw[c].step = "none"
      /\ current_vcpu[c] \in VCPU => phase[current_vcpu[c]] = "none" \/ mode[c] # "vcpu"
  BY Ranges, Zenon DEF ChangeToReady, Caller, InIrq, InOrphan
<1>2. /\ rq' = [rq EXCEPT ![h] = rq_enqueue(@, v, priority[v])]
      /\ state' = [state EXCEPT ![v] = "READY"] /\ wq_cleanup' = [wq_cleanup EXCEPT ![v] = FALSE]
  BY ZenonT(60) DEF ChangeToReady
<1>3. UNCHANGED <<hcpu, sched_lock, saved, current_vcpu, mode, ipi_migrate, preempt_count, wq_lock,
                  phase, sleep_cpu>>
  BY Zenon DEF ChangeToReady
<1>4. Begin(c) BY <1>1, PreemptBegins, ZenonT(60) DEF ChangeToReady
<1>5. \A d \in CPU : sw'[d].next = sw[d].next BY <1>4, BeginFrame, Zenon
<1>6. \A x \in VCPU : wq_owner' = x <=> wq_owner = x BY SchedulerAssumption
<1>7. \A x \in VCPU : state'[x] = IF x = v THEN "READY" ELSE state[x] BY <1>2, Zenon DEF TypeOK
<1>8. \A x \in VCPU : wq_cleanup'[x] <=> x # v /\ wq_cleanup[x] BY <1>2, Zenon DEF TypeOK
<1>9. \A d \in CPU : current_vcpu[d] # v /\ sw[d].next # v /\ v \notin Queued(rq[d])
  BY LinkedOnceQueued, Zenon DEF OffCpu, IndInv, QueuedReady
<1>10. Shape' /\ \A d \in CPU : Queued(rq'[d]) = IF d = h THEN Queued(rq[d]) \cup {v} ELSE Queued(rq[d])
  <2>1. Shape BY LinkedOnceQueued, Zenon DEF IndInv
  <2> HIDE DEF h
  <2>2. Shape' BY <1>1, <1>2, <1>9, <2>1, EnqueueShape, ZenonT(60)
  <2>3. \A d \in CPU : Queued(rq'[d]) = IF d = h THEN Queued(rq[d]) \cup {v} ELSE Queued(rq[d])
    BY <1>1, <1>2, <1>9, <2>1, EnqueueShape, ZenonT(60)
  <2> QED BY <2>2, <2>3, Zenon
<1>11. /\ v \in Orphan /\ state[v] = "PAUSED" => phase[v] = "asleep"
       /\ \A d \in CPU : idle_vcpu[d] # v
  BY Zenon DEF IndInv, KindInv
<1>12. OneCpuPerVcpu' BY <1>3, Frame, Zenon
<1>13. LinkedOnce'
  <2>1. \A d \in CPU : \A x \in Queued(rq[d]) : x \in VCPU /\ x # v /\ state[x] = "READY" /\ hcpu[x] = d
    BY <1>9, LinkedOnceQueued, QueuedVcpus, Zenon DEF IndInv, QueuedReady
  <2>2. \A d \in CPU : \A x \in Queued(rq[d]) : state'[x] = "READY" /\ hcpu'[x] = d BY <1>3, <1>7, <2>1, Zenon
  <2>3. state'[v] = "READY" /\ hcpu'[v] = h BY <1>3, <1>7, Zenon
  <2> HIDE DEF h
  <2>4. QueuedReady'
    <3> SUFFICES ASSUME NEW d \in CPU, NEW x \in Queued(rq'[d]) PROVE state'[x] = "READY" /\ hcpu'[x] = d
      BY Zenon DEF QueuedReady
    <3>1. x \in Queued(rq[d]) \/ (d = h /\ x = v) BY <1>10, ZenonT(60)
    <3> QED BY <2>2, <2>3, <3>1, Zenon
  <2> QED BY <1>10, <2>4, LinkedOnceQueued, Zenon
<1>14. ReadyNotLost'
  <2> SUFFICES ASSUME NEW x \in VCPU, state'[x] = "READY"
               PROVE  x \in Queued(rq'[hcpu[x]]) \/ sw'[hcpu[x]].next = x
    BY <1>3, Zenon DEF ReadyNotLost
  <2>1. CASE x = v BY <1>1, <1>10, <2>1, ZenonT(60)
  <2>2. CASE x # v
    <3>1. hcpu[x] \in CPU /\ (x \in Queued(rq[hcpu[x]]) \/ sw[hcpu[x]].next = x)
      BY <1>7, <2>2, Ranges, Zenon DEF IndInv, ReadyNotLost
    <3> QED BY <1>5, <1>10, <3>1, ZenonT(60)
  <2> QED BY <2>1, <2>2, Zenon
<1>15. RunningIsCurrent' BY <1>3, <1>7, Zenon DEF RunningIsCurrent, IndInv
<1>16. SwitchInv' BY <1>3, <1>4, BeginFrame, Zenon
<1>17. LeavingInv'
  <2> SUFFICES ASSUME NEW d \in CPU, sw'[d].step \in {"dequeue", "lock"}, sw'[d].cur # NoVcpu
               PROVE  LeavingInv!(d)!2'
    BY Zenon DEF LeavingInv
  <2>1. sw'[d] = sw[d]
    BY <1>4, BeginFrame, Zenon
  <2>2. sw[d].cur \in VCPU BY <2>1, Ranges, Zenon
  <2>3. state'[sw[d].cur] # "RUNNING" BY <1>7, <2>1, <2>2, Zenon DEF IndInv, LeavingInv
  <2> QED BY <1>3, <2>1, <2>3, Zenon DEF IndInv, LeavingInv
<1>18. NextInv'
  <2> SUFFICES ASSUME NEW d \in CPU, sw[d].next # NoVcpu PROVE NextInv!(d)!2'
    BY <1>5, Zenon DEF NextInv
  <2>1. Booted' = Booted BY <1>3, Zenon DEF Booted
  <2>2. NextInv!(d)!2 BY Zenon DEF IndInv, NextInv
  <2>3. sw[d].next \in VCPU /\ sw[d].next # v BY <1>9, Ranges, Zenon
  <2>4. state'[sw[d].next] = state[sw[d].next] BY <1>7, <2>3, Zenon
  <2>5. \A e \in CPU : sw[d].next \notin Queued(rq'[e]) BY <1>10, <2>2, <2>3, ZenonT(60)
  <2> QED BY <1>3, <1>5, <2>1, <2>2, <2>4, <2>5, Zenon
<1>19. CurrentInv'
  <2> SUFFICES ASSUME NEW d \in CPU, NEW x \in VCPU, current_vcpu[d] = x PROVE CurrentInv!(d)!(x)!2'
    BY <1>3, Zenon DEF CurrentInv
  <2>1. x # v BY <1>9, Zenon
  <2>2. CurrentInv!(d)!(x)!2 BY Zenon DEF IndInv, CurrentInv
  <2>3. state'[x] = state[x] BY <1>7, <2>1, Zenon
  <2> QED BY <1>3, <2>2, <2>3, Zenon
<1>20. OffInv' BY <1>3, <1>6, Zenon DEF OffInv, IndInv
<1>21. KindInv'
  <2>1. Booted' = Booted BY <1>3, Zenon DEF Booted
  <2>2. \A d \in CPU : idle_vcpu[d] \in VCPU BY SchedulerAssumption, Zenon DEF VCPU
  <2>3. KindInv /\ Normal \subseteq VCPU /\ Orphan \subseteq VCPU BY Zenon DEF IndInv, VCPU
  <2>4. \A d \in CPU : state'[idle_vcpu[d]] \in {"READY", "RUNNING"} BY <1>7, <2>2, <2>3, Zenon DEF KindInv
  <2>5. \A x \in Normal : ~wq_cleanup'[x] /\ (state'[x] = state[x] \/ Booted)
    <3> TAKE x \in Normal
    <3>1. ~wq_cleanup'[x] BY <1>8, <2>3, Zenon DEF KindInv
    <3>2. state'[x] = state[x] \/ Booted BY <1>7, <2>3, Zenon
    <3> QED BY <3>1, <3>2, Zenon
  <2>6. \A x \in Orphan : /\ state'[x] # "HALTED"
                          /\ state'[x] = "PAUSED" => phase'[x] = "asleep"
                          /\ state'[x] = "RESET" => phase'[x] = "none"
    <3> TAKE x \in Orphan
    <3>1. CASE x = v BY <1>7, <3>1, Zenon
    <3>2. CASE x # v
      <4>1. state'[x] = state[x] /\ phase' = phase BY <1>3, <1>7, <2>3, <3>2, Zenon
      <4> QED BY <2>3, <4>1, Zenon DEF KindInv
    <3> QED BY <3>1, <3>2, Zenon
  <2> QED BY <2>1, <2>3, <2>4, <2>5, <2>6, Zenon DEF KindInv
<1>22. AffinityInv' BY <1>3, Frame, Zenon
<1>23. SleepInv'
  <2> SUFFICES ASSUME NEW x \in VCPU PROVE SleepInv!(x)'
    BY Zenon DEF SleepInv
  <2>1. SleepInv!(x) BY Zenon DEF IndInv, SleepInv
  <2>2. CASE x = v BY <1>3, <1>6, <1>7, <1>8, <2>1, <2>2, Zenon
  <2>3. CASE x # v BY <1>3, <1>6, <1>7, <1>8, <2>1, <2>3, Zenon
  <2> QED BY <2>2, <2>3, Zenon
<1>24. OwnerInv'
  <2> SUFFICES ASSUME NEW x \in VCPU, wq_owner = x PROVE OwnerInv!(x)!2'
    BY <1>6, Zenon DEF OwnerInv
  <2>1. x # v /\ state'[x] = state[x] BY <1>7, Zenon
  <2>2. \A d \in CPU : \/ sw'[d] = sw[d]
                       \/ d = c /\ sw[d].step = "none" /\ sw'[d].step = "start"
    BY <1>4, BeginFrame, Zenon
  <2>3. OwnerInv!(x)!2 BY Zenon DEF IndInv, OwnerInv
  <2>4. CASE phase[x] = "woken"
    <3> SUFFICES ASSUME NEW d \in CPU, current_vcpu[d] = x PROVE sw'[d].step = "none" /\ mode[d] = "vcpu"
      BY <1>3, <2>4, Zenon
    <3>1. sw[d].step = "none" /\ mode[d] = "vcpu" BY <2>3, <2>4, Zenon
    <3>2. d # c BY <1>1, <2>4, <3>1, Zenon
    <3> QED BY <2>2, <3>1, <3>2, Zenon
  <2>5. CASE phase[x] # "woken"
    <3>1. PICK d \in CPU : sw[d].cur = x /\ sw[d].step # "none" BY <2>3, <2>5, Zenon
    <3>2. sw'[d] = sw[d] BY <2>2, <3>1, Zenon
    <3> QED BY <1>3, <2>1, <2>3, <2>5, <3>1, <3>2, Zenon
  <2> QED BY <2>4, <2>5, Zenon
<1>25. ReleaseInv'
  <2> SUFFICES ASSUME NEW d \in CPU, sw'[d].step = "release", sw'[d].cur # NoVcpu PROVE ReleaseInv!(d)!2'
    BY Zenon DEF ReleaseInv
  <2>1. sw'[d] = sw[d]
    BY <1>4, BeginFrame, ZenonT(60)
  <2>2. sw[d].cur \in VCPU BY <2>1, Ranges, Zenon
  <2>3. ReleaseInv!(d)!2 BY <2>1, Zenon DEF IndInv, ReleaseInv
  <2>4. state[sw[d].cur] # "RESET" => state'[sw[d].cur] # "RESET" BY <1>7, <2>2, Zenon
  <2>5. wq_owner = sw[d].cur => wq_owner' = sw[d].cur BY <1>6, <2>2, Zenon
  <2> QED BY <1>3, <2>1, <2>3, <2>4, <2>5, Zenon
<1> QED BY <1>12, <1>13, <1>14, <1>15, <1>16, <1>17, <1>18, <1>19, <1>20, <1>21, <1>22, <1>23, <1>24, <1>25, Zenon DEF IndInv

(* vmm_waitqueue_wake() makes such a state change: a thread that is linked *)
(* in the waitqueue has left its CPU, or holds the lock that wakes need.   *)
LEMMA WakeKeeps ==
  ASSUME IndInv, TypeOK, TypeOK', NEW c \in CPU, NEW v \in Thread, Wake(c, v)
  PROVE  IndInv'
<1>1. v \in VCPU /\ v \notin Normal /\ v \in Orphan BY SchedulerAssumption, Zenon DEF Thread, VCPU
<1>2. /\ Caller(c) /\ ChangeToReady(c, v, mode[c] = "vcpu") /\ wq_owner = NoVcpu /\ wq_cleanup[v]
      /\ wq_owner' = wq_owner \/ wq_owner' = c
  BY Zenon DEF Wake
<1>3. wq_owner # v BY <1>1, <1>2, SchedulerAssumption, Zenon
<1>4. state[v] = "PAUSED" /\ \A d \in CPU : current_vcpu[d] # v BY <1>1, <1>2, <1>3, Zenon DEF IndInv, SleepInv
<1>5. OffCpu(v)
  <2>1. v # NoVcpu BY <1>1, SchedulerAssumption, Zenon
  <2>2. \A d \in CPU : sw[d].next # v BY <1>1, <1>4, <2>1, Zenon DEF IndInv, NextInv
  <2> QED BY <1>4, <2>2, Zenon DEF OffCpu
<1> QED BY <1>1, <1>2, <1>3, <1>4, <1>5, ReadyKeeps, Zenon

(* vmm_manager_vcpu_kick() of a VCPU off its CPU. *)
LEMMA KickKeeps ==
  ASSUME Quiesced, IndInv, TypeOK, TypeOK', NEW c \in CPU, NEW v \in VCPU, Kick(c, v)
  PROVE  IndInv'
<1>1. /\ Caller(c) /\ ChangeToReady(c, v, FALSE) /\ wq_owner' = wq_owner /\ state[v] = "RESET"
      /\ OffCpu(v) /\ (v \in Normal => Booted)
  BY ZenonT(60) DEF Kick
<1>2. wq_owner # v BY <1>1, Zenon DEF IndInv, OwnerInv, SleepInv
<1> QED BY <1>1, <1>2, ReadyKeeps, ZenonT(60)

(* vmm_manager_vcpu_resume() of a VCPU off its CPU. *)
LEMMA ResumeKeeps ==
  ASSUME Quiesced, IndInv, TypeOK, TypeOK', NEW c \in CPU, NEW v \in Normal, ResumeGuest(c, v)
  PROVE  IndInv'
<1>r. TypeOK /\ v \in VCPU /\ v \notin Orphan BY SchedulerAssumption, Zenon DEF IndInv, VCPU
<1>1. Caller(c) /\ ChangeToReady(c, v, FALSE) /\ wq_owner' = wq_owner /\ state[v] # "RESET" /\ OffCpu(v)
  BY ZenonT(60) DEF ResumeGuest
<1>2. Booted BY <1>1, Zenon DEF IndInv, KindInv
<1>3. wq_owner # v BY <1>r, Zenon DEF IndInv, OwnerInv, SleepInv, Thread
<1>4. state[v] # "RUNNING" BY <1>r, <1>1, Ranges, Zenon DEF OffCpu, IndInv, RunningIsCurrent
<1>5. state[v] \in {"RESET", "PAUSED"} BY <1>1, <1>4, ZenonT(60) DEF ChangeToReady
<1> QED BY <1>r, <1>1, <1>2, <1>3, <1>5, ReadyKeeps, ZenonT(60)

(* vmm_scheduler_yield() may enter a switch. *)
LEMMA YieldKeeps ==
  ASSUME IndInv, TypeOK, TypeOK', NEW c \in CPU, Yield(c)
  PROVE  IndInv'
<1> DEFINE u == current_vcpu[c]
<1>1. /\ u \in VCPU /\ state[u] = "RUNNING" /\ sw[c].step = "none" /\ phase[u] = "none"
      /\ ChangeToReady(c, u, FALSE) /\ wq_owner' = wq_owner
  BY ZenonT(60) DEF Yield, InOrphan, VCPU
<1>2. hcpu[u] \in CPU BY <1>1, Ranges, Zenon
<1>3. Begin(c) BY <1>1, <1>2, PreemptBegins, ZenonT(60) DEF ChangeToReady
<1>4. UNCHANGED <<state, hcpu, sched_lock, saved, preempt_count, wq_lock, wq_cleanup, phase, sleep_cpu,
                  wq_owner, rq, current_vcpu, mode, ipi_migrate>>
  BY <1>1, Zenon DEF ChangeToReady
<1>5. ReadyNotLost' /\ SwitchInv' /\ LeavingInv' /\ NextInv' /\ ReleaseInv' /\ OwnerInv'
  BY <1>1, <1>3, <1>4, BeginFrame, Zenon
<1>6. /\ OneCpuPerVcpu' /\ LinkedOnce' /\ RunningIsCurrent' /\ CurrentInv' /\ OffInv' /\ KindInv'
      /\ AffinityInv' /\ SleepInv'
  BY <1>4, Frame, Zenon
<1> QED BY <1>5, <1>6, Zenon DEF IndInv

-----------------------------------------------------------------------------
(***************************************************************************)
(* The VCPUs of guests.                                                    *)
(***************************************************************************)

(* A VCPU of a guest stops or is reset, wherever it is. *)
LEMMA GuestKeeps ==
  ASSUME IndInv, TypeOK, TypeOK', NEW v \in Normal, NEW new \in {"PAUSED", "HALTED", "RESET"},
         sched_lock[v] = NoCpu, state[v] # "RESET", state' = [state EXCEPT ![v] = new],
         rq' = IF current_vcpu[hcpu[v]] # v /\ state[v] = "READY" THEN DetachAll(v) ELSE rq,
         \A x \in VCPU : saved[x] \/ (x = v /\ new = "RESET") => saved'[x],
         UNCHANGED <<hcpu, sched_lock, preempt_count, wq_lock, wq_cleanup, phase, sleep_cpu, wq_owner,
                     current_vcpu, sw, mode, ipi_migrate>>
  PROVE  IndInv'
<1>1. v \in VCPU /\ v \notin Orphan /\ v \notin Thread BY SchedulerAssumption, Zenon DEF VCPU, Thread
<1>2. \A x \in VCPU : state'[x] = IF x = v THEN new ELSE state[x] BY DEF TypeOK
<1>3. wq_owner # v /\ Booted BY <1>1, Zenon DEF IndInv, OwnerInv, SleepInv, KindInv
<1>4. \A d \in CPU : sw[d].step \in {"dequeue", "lock"} => sw[d].cur # v
  <2> SUFFICES ASSUME NEW d \in CPU, sw[d].step \in {"dequeue", "lock"}, sw[d].cur = v PROVE FALSE
    BY Zenon
  <2>a. SwitchInv!(d) BY Zenon DEF IndInv, SwitchInv
  <2>1. sched_lock[v] = d BY <1>1, <2>a, Zenon
  <2> QED BY <2>1, SchedulerAssumption, Zenon
<1>5. state[v] = "READY" => \A d \in CPU : current_vcpu[d] # v
  <2> SUFFICES ASSUME state[v] = "READY", NEW d \in CPU, current_vcpu[d] = v PROVE FALSE
    BY Zenon
  <2>1. sched_lock[v] = d BY <1>1, Zenon DEF IndInv, CurrentInv
  <2> QED BY <2>1, SchedulerAssumption, Zenon
<1>6. Shape' /\ \A d \in CPU : Queued(rq'[d]) = Queued(rq[d]) \ {v}
  <2>1. Shape BY LinkedOnceQueued, Zenon DEF IndInv
  <2>2. CASE state[v] = "READY"
    <3>1. hcpu[v] \in CPU BY <1>1, Ranges, Zenon
    <3>2. rq' = DetachAll(v) BY <1>5, <2>2, <3>1, Zenon
    <3>3. \A c \in CPU, p \in Priorities : Once(rq'[c][p]) /\ Linked(rq'[c][p]) \subseteq Linked(rq[c][p])
      BY <1>1, <2>1, <3>2, DetachShape, Zenon
    <3>4. \A d \in CPU : Queued(rq'[d]) = Queued(rq[d]) \ {v} BY <1>1, <2>1, <3>2, DetachShape, Zenon
    <3>5. Shape' BY <2>1, <3>3, Zenon DEF Shape
    <3> QED BY <3>4, <3>5, Zenon
  <2>3. CASE state[v] # "READY"
    <3>1. rq' = rq BY <2>3, Zenon
    <3>2. \A d \in CPU : v \notin Queued(rq[d]) BY <2>3, LinkedOnceQueued, Zenon DEF IndInv, QueuedReady
    <3> QED BY <2>1, <3>1, <3>2, Zenon DEF Shape
  <2> QED BY <2>2, <2>3, Zenon
<1>7. LinkedOnce'
  <2>1. \A d \in CPU : \A x \in Queued(rq'[d]) : x \in VCPU /\ x # v /\ state[x] = "READY" /\ hcpu[x] = d
    <3> SUFFICES ASSUME NEW d \in CPU, NEW x \in Queued(rq'[d])
                 PROVE  x \in VCPU /\ x # v /\ state[x] = "READY" /\ hcpu[x] = d
      BY Zenon
    <3>1. x \in Queued(rq[d]) /\ x # v BY <1>6, Zenon
    <3>2. x \in VCPU BY <3>1, QueuedVcpus, Zenon
    <3>3. QueuedReady BY LinkedOnceQueued, Zenon DEF IndInv
    <3>4. state[x] = "READY" /\ hcpu[x] = d BY <3>1, <3>3, Zenon DEF QueuedReady
    <3> QED BY <3>1, <3>2, <3>4, Zenon
  <2>2. QueuedReady'
    <3> SUFFICES ASSUME NEW d \in CPU, NEW x \in Queued(rq'[d]) PROVE state'[x] = "READY" /\ hcpu'[x] = d
      BY Zenon DEF QueuedReady
    <3> QED BY <1>2, <2>1, Zenon
  <2> QED BY <1>6, <2>2, LinkedOnceQueued, Zenon
<1>8. ReadyNotLost'
  <2> SUFFICES ASSUME NEW x \in VCPU, state'[x] = "READY"
               PROVE  x \in Queued(rq'[hcpu[x]]) \/ sw[hcpu[x]].next = x
    BY Zenon DEF ReadyNotLost
  <2>1. x # v /\ state[x] = "READY" /\ hcpu[x] \in CPU
    <3>1. "READY" \notin {"PAUSED", "HALTED", "RESET"} BY Zenon
    <3>2. x # v BY <1>2, <3>1, Zenon
    <3> QED BY <1>2, <3>2, Ranges, Zenon
  <2> QED BY <1>6, <2>1, Zenon DEF IndInv, ReadyNotLost
<1>9. RunningIsCurrent' BY <1>2, Zenon DEF RunningIsCurrent, IndInv
<1>10. LeavingInv'
  <2> SUFFICES ASSUME NEW d \in CPU, sw[d].step \in {"dequeue", "lock"}, sw[d].cur # NoVcpu
               PROVE  LeavingInv!(d)!2'
    BY Zenon DEF LeavingInv
  <2>1. sw[d].cur \in VCPU /\ sw[d].cur # v BY <1>4, Ranges, Zenon
  <2>2. state'[sw[d].cur] = state[sw[d].cur] BY <1>2, <2>1, Zenon
  <2> QED BY <2>1, <2>2, Zenon DEF IndInv, LeavingInv
<1>11. NextInv'
  <2> SUFFICES ASSUME NEW d \in CPU, sw[d].next # NoVcpu PROVE NextInv!(d)!2'
    BY Zenon DEF NextInv
  <2>1. Booted' = Booted BY Zenon DEF Booted
  <2>2. NextInv!(d)!2 BY Zenon DEF IndInv, NextInv
  <2>3. sw[d].next \in VCPU BY Ranges, Zenon
  <2>4. \A e \in CPU : sw[d].next \notin Queued(rq'[e]) BY <1>6, <2>2, Zenon
  <2>5. CASE sw[d].next = v
    <3>1. state'[v] # "READY" BY <1>1, <1>2, Zenon
    <3> QED BY <1>1, <2>1, <2>2, <2>4, <2>5, <3>1, Zenon
  <2>6. CASE sw[d].next # v
    <3>1. state'[sw[d].next] = state[sw[d].next] BY <1>2, <2>3, <2>6, Zenon
    <3> QED BY <2>1, <2>2, <2>4, <3>1, Zenon
  <2> QED BY <2>5, <2>6, Zenon
<1>12. CurrentInv'
  <2> SUFFICES ASSUME NEW d \in CPU, NEW x \in VCPU, current_vcpu[d] = x PROVE CurrentInv!(d)!(x)!2'
    BY Zenon DEF CurrentInv
  <2>1. CurrentInv!(d)!(x)!2 BY Zenon DEF IndInv, CurrentInv
  <2>2. CASE x = v BY <1>1, <1>2, <2>2, Zenon
  <2>3. CASE x # v BY <1>2, <2>1, <2>3, Zenon
  <2> QED BY <2>2, <2>3, Zenon
<1>13. OffInv' BY Zenon DEF OffInv, IndInv
<1>14. KindInv'
  <2>1. Booted' = Booted BY Zenon DEF Booted
  <2>2. \A d \in CPU : idle_vcpu[d] \in Orphan BY SchedulerAssumption, Zenon
  <2>3. \A x \in Orphan : state'[x] = state[x] BY <1>1, <1>2, Zenon DEF VCPU
  <2> QED BY <1>3, <2>1, <2>2, <2>3, Zenon DEF IndInv, KindInv
<1>15. SleepInv'
  <2> SUFFICES ASSUME NEW x \in VCPU PROVE SleepInv!(x)'
    BY Zenon DEF SleepInv
  <2>1. SleepInv!(x) BY Zenon DEF IndInv, SleepInv
  <2>2. CASE x = v
    <3>1. phase[v] = "none" /\ ~wq_cleanup[v] BY <1>1, <2>1, <2>2, Zenon DEF IndInv, KindInv
    <3> QED BY <2>1, <2>2, <3>1, Zenon
  <2>3. CASE x # v BY <1>2, <2>1, <2>3, Zenon
  <2> QED BY <2>2, <2>3, Zenon
<1>16. OwnerInv'
  <2> SUFFICES ASSUME NEW x \in VCPU, wq_owner = x PROVE OwnerInv!(x)!2'
    BY Zenon DEF OwnerInv
  <2>1. state'[x] = state[x] BY <1>2, <1>3, Zenon
  <2>2. OwnerInv!(x)!2 BY Zenon DEF IndInv, OwnerInv
  <2> QED BY <2>1, <2>2, Zenon
<1>17. ReleaseInv'
  <2> SUFFICES ASSUME NEW d \in CPU, sw[d].step = "release", sw[d].cur # NoVcpu PROVE ReleaseInv!(d)!2'
    BY Zenon DEF ReleaseInv
  <2>1. ReleaseInv!(d)!2 BY Zenon DEF IndInv, ReleaseInv
  <2>2. sw[d].cur \in Thread => state'[sw[d].cur] = state[sw[d].cur] BY <1>1, <1>2, Zenon DEF VCPU, Thread
  <2> QED BY <2>1, <2>2, Zenon
<1>18. OneCpuPerVcpu' /\ SwitchInv' /\ AffinityInv' BY Frame, ZenonT(60)
<1> QED BY <1>7, <1>8, <1>9, <1>10, <1>11, <1>12, <1>13, <1>14, <1>15, <1>16, <1>17, <1>18, Zenon DEF IndInv

(* The end of a state change of a VCPU of a guest enters no switch: that   *)
(* is left to the exit of the handler.                                     *)
LEMMA GuestPreempts ==
  ASSUME NEW c \in CPU, NEW h \in CPU, NEW v \in Normal, NEW needed, needed => current_vcpu[h] = v,
         Preempt(c, h, needed, FALSE)
  PROVE  sw' = sw
  BY SchedulerAssumption DEF Preempt

(* vmm_manager_vcpu_pause() and _halt() of a VCPU of a guest, in whatever  *)
(* state and wherever it runs.                                             *)
LEMMA StopKeeps ==
  ASSUME IndInv, TypeOK, TypeOK', NEW c \in CPU, NEW v \in Normal, NEW new \in {"PAUSED", "HALTED"},
         StopGuest(c, v, new)
  PROVE  IndInv'
<1>r. TypeOK /\ v \in VCPU /\ hcpu[v] \in CPU BY Ranges, Zenon DEF IndInv, VCPU
<1>1. ChangeToStopped(c, v, new) /\ UNCHANGED <<preempt_count, wq_lock, phase, sleep_cpu, wq_owner>>
  BY Zenon DEF StopGuest
<1>2. UNCHANGED <<hcpu, sched_lock, saved, current_vcpu, mode, ipi_migrate>> /\ sched_lock[v] = NoCpu
  BY <1>1, ZenonT(30) DEF ChangeToStopped
<1>3. [wq_cleanup EXCEPT ![v] = FALSE] = wq_cleanup
  <2>1. wq_cleanup \in [VCPU -> BOOLEAN] /\ ~wq_cleanup[v] BY Zenon DEF IndInv, KindInv, TypeOK
  <2>2. wq_cleanup[v] = FALSE BY <1>r, <2>1, Zenon
  <2> QED BY <1>r, <2>1, <2>2, Zenon
<1>4. wq_cleanup' = wq_cleanup BY <1>1, <1>3, ZenonT(60) DEF ChangeToStopped
<1>5. \/ UNCHANGED <<state, rq, sw>>
      \/ /\ state[v] \in {"READY", "RUNNING"} /\ state' = [state EXCEPT ![v] = new] /\ sw' = sw
         /\ rq' = IF current_vcpu[hcpu[v]] # v /\ state[v] = "READY" THEN DetachAll(v) ELSE rq
  BY <1>r, <1>1, GuestPreempts, ZenonT(60) DEF ChangeToStopped
<1>6. CASE UNCHANGED <<state, rq, sw>>
  <2>1. /\ OneCpuPerVcpu' /\ LinkedOnce' /\ ReadyNotLost' /\ RunningIsCurrent' /\ SwitchInv' /\ LeavingInv'
        /\ NextInv' /\ CurrentInv' /\ OffInv' /\ KindInv' /\ AffinityInv' /\ SleepInv' /\ OwnerInv' /\ ReleaseInv'
    BY <1>1, <1>2, <1>4, <1>6, Frame, Zenon
  <2> QED BY <2>1, Zenon DEF IndInv
<1>7. CASE /\ state[v] \in {"READY", "RUNNING"} /\ state' = [state EXCEPT ![v] = new] /\ sw' = sw
           /\ rq' = IF current_vcpu[hcpu[v]] # v /\ state[v] = "READY" THEN DetachAll(v) ELSE rq
  BY <1>1, <1>2, <1>4, <1>7, GuestKeeps, ZenonT(60)
<1> QED BY <1>5, <1>6, <1>7, Zenon

(* vmm_scheduler_state_change(v, RESET) of a VCPU of a guest. *)
LEMMA ResetKeeps ==
  ASSUME IndInv, TypeOK, TypeOK', NEW c \in CPU, NEW v \in Normal, ChangeToReset(c, v)
  PROVE  IndInv'
<1>r. TypeOK /\ v \in VCPU /\ hcpu[v] \in CPU BY Ranges, Zenon DEF IndInv, VCPU
<1>1. /\ UNCHANGED <<hcpu, sched_lock, current_vcpu, mode, ipi_migrate, preempt_count, wq_lock, wq_cleanup,
                     phase, sleep_cpu, wq_owner>>
      /\ sched_lock[v] = NoCpu
  BY Zenon DEF ChangeToReset, wqVars
<1>2. CASE state[v] = "RESET"
  <2>1. UNCHANGED <<state, rq, sw, saved>> BY <1>2, Zenon DEF ChangeToReset
  <2>2. /\ OneCpuPerVcpu' /\ LinkedOnce' /\ ReadyNotLost' /\ RunningIsCurrent' /\ SwitchInv' /\ LeavingInv'
        /\ NextInv' /\ CurrentInv' /\ OffInv' /\ KindInv' /\ AffinityInv' /\ SleepInv' /\ OwnerInv' /\ ReleaseInv'
    BY <1>1, <2>1, Frame, Zenon
  <2> QED BY <2>2, Zenon DEF IndInv
<1>3. CASE state[v] # "RESET"
  <2>1. /\ rq' = IF current_vcpu[hcpu[v]] # v /\ state[v] = "READY" THEN DetachAll(v) ELSE rq
        /\ saved' = [saved EXCEPT ![v] = TRUE] /\ state' = [state EXCEPT ![v] = "RESET"]
        /\ Preempt(c, hcpu[v], current_vcpu[hcpu[v]] = v /\ state[v] = "RUNNING", FALSE)
    BY <1>3, ZenonT(60) DEF ChangeToReset
  <2>2. sw' = sw BY <1>r, <2>1, GuestPreempts, ZenonT(60)
  <2>3. \A x \in VCPU : saved[x] \/ x = v => saved'[x] BY <1>r, <2>1, Zenon DEF TypeOK
  <2> QED BY <1>1, <1>3, <2>1, <2>2, <2>3, GuestKeeps, ZenonT(60)
<1> QED BY <1>2, <1>3, Zenon

(* vmm_manager_vcpu_reset(), done at once or by the sync IPI. *)
LEMMA ResetGuestKeeps ==
  ASSUME IndInv, TypeOK, TypeOK', NEW c \in CPU, NEW v \in Normal, ResetGuest(c, v) \/ IpiReset(c, v)
  PROVE  IndInv'
<1>1. CASE ChangeToReset(c, v) BY <1>1, ResetKeeps, Zenon
<1>2. CASE ~ChangeToReset(c, v)
  <2>1. UNCHANGED <<vcpuVars, wqVars, cpuVars, ipi_migrate>> BY <1>2, Zenon DEF ResetGuest, IpiReset
  <2>2. UNCHANGED <<state, hcpu, sched_lock, saved, preempt_count, wq_lock, wq_cleanup, phase, sleep_cpu,
                    wq_owner, rq, current_vcpu, sw, mode, ipi_migrate>>
    BY <2>1, Zenon DEF vcpuVars, wqVars, cpuVars
  <2> QED BY <2>2, SameKeeps, Zenon DEF IndInv
<1> QED BY <1>1, <1>2, Zenon
=============================================================================
