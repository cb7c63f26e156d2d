---------------------------- MODULE TimerProofs -----------------------------
(***************************************************************************)
(* Proofs about TimerEvents, for any number of host CPUs and events and    *)
(* any clock chip.                                                         *)
(***************************************************************************)
EXTENDS TimerEvents, ListProofs, FiniteSetTheorems

(* The larger and the smaller of two numbers. *)
LEMMA MaxMin ==
  \A a, b \in Int : /\ Max({a, b}) = IF a >= b THEN a ELSE b
                    /\ Min({a, b}) = IF a <= b THEN a ELSE b
<1> SUFFICES ASSUME NEW a \in Int, NEW b \in Int
             PROVE  /\ Max({a, b}) = IF a >= b THEN a ELSE b
                    /\ Min({a, b}) = IF a <= b THEN a ELSE b
  BY Zenon
<1>1. \E x \in {a, b} : \A y \in {a, b} : x >= y OBVIOUS
<1>2. \E x \in {a, b} : \A y \in {a, b} : x <= y OBVIOUS
<1>3. Max({a, b}) \in {a, b} /\ \A y \in {a, b} : Max({a, b}) >= y BY <1>1, Zenon DEF Max
<1>4. Min({a, b}) \in {a, b} /\ \A y \in {a, b} : Min({a, b}) <= y BY <1>2, Zenon DEF Min
<1> QED BY <1>3, <1>4

(* The larger of two natural numbers. *)
LEMMA LargerNat ==
  \A a, b \in Nat : /\ Max({a, b}) \in Nat /\ Max({a, b}) >= a /\ Max({a, b}) >= b
                    /\ Max({a, b}) = a \/ Max({a, b}) = b
<1> SUFFICES ASSUME NEW a \in Nat, NEW b \in Nat
             PROVE  /\ Max({a, b}) \in Nat /\ Max({a, b}) >= a /\ Max({a, b}) >= b
                    /\ Max({a, b}) = a \/ Max({a, b}) = b
  BY Zenon
<1>1. a \in Int /\ b \in Int OBVIOUS
<1>2. Max({a, b}) = IF a >= b THEN a ELSE b BY <1>1, MaxMin, Zenon
<1> QED BY <1>2

(* A set of natural numbers has a least one. *)
LEMMA Least ==
  ASSUME NEW S \in SUBSET Nat
  PROVE  HasLeast(S)
<1> SUFFICES ASSUME S # {} PROVE \E x \in S : \A y \in S : x <= y BY Zenon DEF HasLeast
<1>1. PICK x \in S : \A y \in S : ~(<<y, x>> \in OpToRel(<, Nat))
  BY WFMin, NatLessThanWellFounded, Zenon
<1>2. \A y \in S : ~(y < x) BY <1>1, Zenon DEF OpToRel
<1>3. \A y \in S : x <= y BY <1>2
<1> QED BY <1>3, Zenon

(* __timer_event_start() links one more event, once, and keeps the list    *)
(* sorted.                                                                 *)
LEMMA InsertSorted ==
  ASSUME NEW list \in Seq(Event), NEW e \in Event, NEW expiry \in [Event -> Nat],
         Sorted(list, expiry), Once(list), e \notin Linked(list)
  PROVE  /\ Insert(list, e, expiry) \in Seq(Event) /\ Insert(list, e, expiry) # << >>
         /\ Linked(Insert(list, e, expiry)) = Linked(list) \cup {e}
         /\ Once(Insert(list, e, expiry)) /\ Sorted(Insert(list, e, expiry), expiry)
<1>1. HasLeast({i \in DOMAIN list : expiry[e] < expiry[list[i]]})
  <2>1. {i \in DOMAIN list : expiry[e] < expiry[list[i]]} \in SUBSET Nat OBVIOUS
  <2> QED BY <2>1, Least, Zenon
<1> QED BY <1>1, AddSortedLinked, Zenon DEF Insert

(* __timer_event_stop() keeps the order of the other events, and the first *)
(* of the list expires no earlier than before.                             *)
LEMMA UnlinkSorted ==
  ASSUME NEW list \in Seq(Event), NEW e \in Event, NEW expiry \in [Event -> Nat], Sorted(list, expiry), Once(list)
  PROVE  /\ Sorted(Unlink(list, e), expiry)
         /\ Unlink(list, e) # << >> => /\ list # << >>
                                       /\ expiry[Head(list)] <= expiry[Head(Unlink(list, e))]
<1> DEFINE n == Len(list)
           new == Unlink(list, e)
<1>1. n \in Nat /\ DOMAIN list = 1 .. n /\ \A i \in 1 .. n : list[i] \in Event /\ expiry[list[i]] \in Nat
  OBVIOUS
<1>2. CASE e \notin Linked(list)
  <2>1. new = list BY <1>2, Zenon DEF Unlink
  <2>2. list # << >> => expiry[Head(list)] \in Nat BY <1>1
  <2> QED BY <2>1, <2>2
<1>3. CASE e \in Linked(list)
  <2>a. PICK k \in 1 .. n : list[k] = e /\ GapClosed(Event, list, k, new) BY <1>3, UnlinkAt, Zenon
  <2>1. /\ list[k] = e /\ new \in Seq(Event) /\ DOMAIN new = 1 .. n - 1
        /\ \A i \in 1 .. n - 1 : new[i] = IF i < k THEN list[i] ELSE list[i + 1]
    BY <2>a, Zenon DEF GapClosed
  <2> HIDE DEF n, new
  <2> DEFINE f(i) == IF i < k THEN i ELSE i + 1
  <2>2. \A i \in 1 .. n - 1 : f(i) \in 1 .. n /\ new[i] = list[f(i)]
    <3> SUFFICES ASSUME NEW i \in 1 .. n - 1 PROVE f(i) \in 1 .. n /\ new[i] = list[f(i)]
      BY Zenon
    <3>1. new[i] = IF i < k THEN list[i] ELSE list[i + 1] BY <2>1, Zenon
    <3>2. CASE i < k BY <1>1, <3>1, <3>2
    <3>3. CASE ~(i < k) BY <1>1, <3>1, <3>3
    <3> QED BY <3>2, <3>3, Zenon
  <2>3. Sorted(new, expiry)
    <3> SUFFICES ASSUME NEW i \in 1 .. n - 1, NEW j \in 1 .. n - 1, i < j
                 PROVE  expiry[new[i]] <= expiry[new[j]]
      BY <2>1, Zenon DEF Sorted
    <3>1. f(i) \in 1 .. n /\ f(j) \in 1 .. n /\ f(i) < f(j) BY <1>1, <2>2
    <3>2. expiry[list[f(i)]] <= expiry[list[f(j)]] BY <1>1, <3>1, Zenon DEF Sorted
    <3> QED BY <2>2, <3>2, Zenon
  <2>4. ASSUME new # << >>
        PROVE  list # << >> /\ expiry[Head(list)] <= expiry[Head(new)]
    <3>1. 1 \in 1 .. n - 1 /\ Head(new) = new[1] BY <1>1, <2>1, <2>4
    <3>2. list # << >> /\ Head(list) = list[1] BY <1>1, <3>1 DEF n
    <3>3. f(1) \in 1 .. n /\ new[1] = list[f(1)] BY <2>2, <3>1, Zenon
    <3>4. CASE f(1) = 1 BY <1>1, <3>1, <3>2, <3>3, <3>4
    <3>5. CASE 1 < f(1)
      <4>1. expiry[list[1]] <= expiry[list[f(1)]] BY <1>1, <3>1, <3>3, <3>5 DEF Sorted
      <4> QED BY <3>1, <3>2, <3>3, <4>1, Zenon
    <3> QED BY <1>1, <3>3, <3>4, <3>5
  <2> QED BY <2>3, <2>4, Zenon DEF new
<1> QED BY <1>2, <1>3, Zenon

-----------------------------------------------------------------------------
(* ListsAgree, in its parts *)
EventTypes ==
    /\ event_list \in [Cpu -> Seq(Event)] /\ expiry_tstamp \in [Event -> 0 .. MaxTime]
    /\ active_state \in [Event -> BOOLEAN] /\ active_hcpu \in [Event -> Cpu]
Lists ==
    \A c \in Cpu : /\ Once(event_list[c]) /\ Sorted(event_list[c], expiry_tstamp)
                    /\ Linked(event_list[c]) = {e \in Event : active_state[e] /\ active_hcpu[e] = c}

(* The expiry of an event that is not linked in a list plays no part in it. *)
LEMMA SameOrder ==
  ASSUME NEW list \in Seq(Event), NEW x \in [Event -> Nat], NEW y \in [Event -> Nat],
         Sorted(list, x), \A e \in Linked(list) : y[e] = x[e]
  PROVE  Sorted(list, y)
<1>1. \A i \in DOMAIN list : y[list[i]] = x[list[i]] BY Zenon DEF Linked
<1> QED BY <1>1, Zenon DEF Sorted

(* What __timer_event_stop() leaves in the lists. *)
LEMMA StoppedLists ==
  ASSUME EventTypes, Lists, TimerAssumption, NEW e \in Event, NEW c \in Cpu
  PROVE  /\ Stopped(e)[c] \in Seq(Event) /\ Once(Stopped(e)[c]) /\ Sorted(Stopped(e)[c], expiry_tstamp)
         /\ Linked(Stopped(e)[c]) = Linked(event_list[c]) \ {e}
         /\ Stopped(e)[c] # << >> => /\ event_list[c] # << >>
                                     /\ expiry_tstamp[Head(event_list[c])] <= expiry_tstamp[Head(Stopped(e)[c])]
<1>1. event_list[c] \in Seq(Event) /\ expiry_tstamp \in [Event -> Nat] BY DEF EventTypes, TimerAssumption
<1>2. Once(event_list[c]) /\ Sorted(event_list[c], expiry_tstamp) BY Zenon DEF Lists
<1>3. CASE active_state[e] /\ active_hcpu[e] = c
  <2>1. Stopped(e)[c] = Unlink(event_list[c], e) BY <1>3, Zenon DEF Stopped
  <2>2. /\ Unlink(event_list[c], e) \in Seq(Event) /\ Once(Unlink(event_list[c], e))
        /\ Linked(Unlink(event_list[c], e)) = Linked(event_list[c]) \ {e}
    BY <1>1, <1>2, UnlinkLinked
  <2> QED BY <1>1, <1>2, <2>1, <2>2, UnlinkSorted
<1>4. CASE ~(active_state[e] /\ active_hcpu[e] = c)
  <2>1. Stopped(e)[c] = event_list[c] BY <1>4, Zenon DEF Stopped
  <2>2. e \notin Linked(event_list[c]) BY <1>4, Zenon DEF Lists
  <2>3. event_list[c] # << >> => expiry_tstamp[Head(event_list[c])] \in Nat BY <1>1
  <2> QED BY <1>1, <1>2, <2>1, <2>2, <2>3
<1> QED BY <1>3, <1>4, Zenon

(* __timer_event_stop() keeps the lists in agreement with the events. *)
LEMMA StopKeeps ==
  ASSUME EventTypes, Lists, TimerAssumption, NEW e \in Event, StopEvent(e)
  PROVE  EventTypes' /\ Lists'
<1>1. \A c \in Cpu : event_list'[c] = Stopped(e)[c] BY Zenon DEF StopEvent
<1>2. EventTypes'
  <2>1. event_list' \in [Cpu -> Seq(Event)]
    <3>1. event_list' = [c \in Cpu |-> event_list'[c]] BY Zenon DEF StopEvent, Stopped
    <3>2. \A c \in Cpu : event_list'[c] \in Seq(Event) BY <1>1, StoppedLists, Zenon
    <3> QED BY <3>1, <3>2, Zenon
  <2>2. 0 \in 0 .. MaxTime BY DEF TimerAssumption
  <2>3. expiry_tstamp' \in [Event -> 0 .. MaxTime] BY <2>2, Zenon DEF StopEvent, EventTypes
  <2>4. active_state' \in [Event -> BOOLEAN] BY Zenon DEF StopEvent, EventTypes
  <2> QED BY <2>1, <2>3, <2>4, Zenon DEF EventTypes, StopEvent
<1>3. ASSUME NEW c \in Cpu
      PROVE  /\ Once(event_list'[c]) /\ Sorted(event_list'[c], expiry_tstamp')
             /\ Linked(event_list'[c]) = {x \in Event : active_state'[x] /\ active_hcpu'[x] = c}
  <2>1. /\ event_list'[c] \in Seq(Event) /\ Once(event_list'[c]) /\ Sorted(event_list'[c], expiry_tstamp)
        /\ Linked(event_list'[c]) = Linked(event_list[c]) \ {e}
    BY <1>1, StoppedLists, Zenon
  <2>2. \A x \in Event \ {e} : expiry_tstamp'[x] = expiry_tstamp[x] /\ active_state'[x] = active_state[x]
    BY Zenon DEF StopEvent, EventTypes
  <2>3. ~active_state'[e] BY Zenon DEF StopEvent, EventTypes
  <2>4. Linked(event_list[c]) = {x \in Event : active_state[x] /\ active_hcpu[x] = c} BY Zenon DEF Lists
  <2>5. Linked(event_list'[c]) = {x \in Event : active_state'[x] /\ active_hcpu'[x] = c}
    BY <2>1, <2>2, <2>3, <2>4, Zenon DEF StopEvent
  <2>6. expiry_tstamp \in [Event -> Nat] /\ expiry_tstamp' \in [Event -> Nat]
    BY <1>2 DEF EventTypes, TimerAssumption
  <2>7. \A x \in Linked(event_list'[c]) : expiry_tstamp'[x] = expiry_tstamp[x] BY <2>1, <2>2, <2>4, Zenon
  <2>8. Sorted(event_list'[c], expiry_tstamp') BY <2>1, <2>6, <2>7, SameOrder, Zenon
  <2> QED BY <2>1, <2>5, <2>8, Zenon
<1> QED BY <1>2, <1>3, Zenon DEF Lists

(* The first event that is left in a list expires no earlier than the      *)
(* first one before.                                                       *)
LEMMA StopLater ==
  ASSUME EventTypes, Lists, TimerAssumption, NEW e \in Event, NEW d \in Cpu, event_list'[d] = Stopped(e)[d],
         \A x \in Event \ {e} : expiry_tstamp'[x] = expiry_tstamp[x], event_list'[d] # << >>
  PROVE  /\ event_list[d] # << >> /\ Head(event_list[d]) \in Event /\ Head(event_list'[d]) \in Event
         /\ expiry_tstamp[Head(event_list[d])] <= expiry_tstamp'[Head(event_list'[d])]
<1>1. /\ Stopped(e)[d] \in Seq(Event) /\ Linked(Stopped(e)[d]) = Linked(event_list[d]) \ {e}
      /\ event_list[d] # << >>
      /\ expiry_tstamp[Head(event_list[d])] <= expiry_tstamp[Head(Stopped(e)[d])]
  BY StoppedLists, Zenon
<1>2. Head(Stopped(e)[d]) \in Linked(Stopped(e)[d]) /\ Head(Stopped(e)[d]) \in Event BY <1>1, TailLinked, Zenon
<1>3. Head(event_list[d]) \in Event BY <1>1, TailLinked, Zenon DEF EventTypes
<1> QED BY <1>1, <1>2, <1>3, Zenon

(* vmm_timer_event_start2() keeps the lists in agreement with the events   *)
(* too, also when it moves an event from another host CPU.                 *)
LEMMA StartKeeps ==
  ASSUME TypeOK, Lists, TimerAssumption, NEW c \in Cpu, NEW l \in Level, StartLocked(c, l)
  PROVE  /\ op[c][l].event \in Event /\ op[c][l].expiry \in 0 .. MaxTime
         /\ EventTypes' /\ Lists' /\ event_list'[c] # << >>
         /\ \A d \in Cpu \ {c} : event_list'[d] = Stopped(op[c][l].event)[d]
         /\ \A x \in Event \ {op[c][l].event} : expiry_tstamp'[x] = expiry_tstamp[x]
<1> DEFINE e == op[c][l].event
<1>1. e \in Event /\ op[c][l].expiry \in 0 .. MaxTime
  <2>1. op[c][l] \in Op /\ op[c][l] # NoOp BY DEF StartLocked, TypeOK
  <2>2. op[c][l] \in [event : Event, expiry : 0 .. MaxTime] BY <2>1, Zenon DEF Op
  <2> QED BY <2>2, Zenon
<1>2. EventTypes BY Zenon DEF TypeOK, EventTypes
<1>3. /\ expiry_tstamp' = [expiry_tstamp EXCEPT ![e] = op[c][l].expiry]
      /\ active_state' = [active_state EXCEPT ![e] = TRUE]
      /\ active_hcpu' = [active_hcpu EXCEPT ![e] = c]
      /\ event_list' = [Stopped(e) EXCEPT ![c] = Insert(Stopped(e)[c], e, expiry_tstamp')]
  BY Zenon DEF StartLocked
<1> HIDE DEF e
<1>4. /\ expiry_tstamp' \in [Event -> 0 .. MaxTime] /\ active_state' \in [Event -> BOOLEAN]
      /\ active_hcpu' \in [Event -> Cpu]
  BY <1>1, <1>2, <1>3, Zenon DEF EventTypes, e
<1>5. \A x \in Event \ {e} : /\ expiry_tstamp'[x] = expiry_tstamp[x] /\ active_state'[x] = active_state[x]
                              /\ active_hcpu'[x] = active_hcpu[x]
  BY <1>2, <1>3, Zenon DEF EventTypes
<1>6. active_state'[e] /\ active_hcpu'[e] = c BY <1>1, <1>2, <1>3, Zenon DEF EventTypes
<1>7. DOMAIN Stopped(e) = Cpu BY Zenon DEF Stopped
<1>8. event_list'[c] = Insert(Stopped(e)[c], e, expiry_tstamp') BY <1>3, <1>7, Zenon
<1>9. \A d \in Cpu \ {c} : event_list'[d] = Stopped(e)[d] BY <1>3, <1>7, Zenon
<1>10. expiry_tstamp \in [Event -> Nat] /\ expiry_tstamp' \in [Event -> Nat]
  BY <1>2, <1>4 DEF EventTypes, TimerAssumption
<1>11. ASSUME NEW d \in Cpu
       PROVE  /\ Stopped(e)[d] \in Seq(Event) /\ Once(Stopped(e)[d]) /\ Sorted(Stopped(e)[d], expiry_tstamp')
              /\ Linked(Stopped(e)[d]) = {x \in Event : active_state[x] /\ active_hcpu[x] = d} \ {e}
  <2>1. /\ Stopped(e)[d] \in Seq(Event) /\ Once(Stopped(e)[d]) /\ Sorted(Stopped(e)[d], expiry_tstamp)
        /\ Linked(Stopped(e)[d]) = Linked(event_list[d]) \ {e}
    BY <1>1, <1>2, StoppedLists, Zenon DEF e
  <2>2. Linked(Stopped(e)[d]) = {x \in Event : active_state[x] /\ active_hcpu[x] = d} \ {e} BY <2>1, Zenon DEF Lists
  <2>3. \A x \in Linked(Stopped(e)[d]) : expiry_tstamp'[x] = expiry_tstamp[x] BY <1>5, <2>2, Zenon
  <2>4. Sorted(Stopped(e)[d], expiry_tstamp') BY <1>10, <2>1, <2>3, SameOrder, Zenon
  <2> QED BY <2>1, <2>2, <2>4, Zenon
<1>12. /\ event_list'[c] \in Seq(Event) /\ event_list'[c] # << >>
       /\ Linked(event_list'[c]) = Linked(Stopped(e)[c]) \cup {e}
       /\ Once(event_list'[c]) /\ Sorted(event_list'[c], expiry_tstamp')
  <2>1. e \notin Linked(Stopped(e)[c]) BY <1>11, Zenon
  <2> QED BY <1>1, <1>8, <1>10, <1>11, <2>1, InsertSorted, ZenonT(30) DEF e
<1>13. EventTypes'
  <2>1. event_list' = [d \in Cpu |-> event_list'[d]] BY <1>3, <1>7, Zenon
  <2>2. \A d \in Cpu : event_list'[d] \in Seq(Event) BY <1>9, <1>11, <1>12, Zenon
  <2>3. event_list' \in [Cpu -> Seq(Event)] BY <2>1, <2>2, Zenon
  <2> QED BY <1>4, <2>3, Zenon DEF EventTypes
<1>14. ASSUME NEW d \in Cpu
       PROVE  /\ Once(event_list'[d]) /\ Sorted(event_list'[d], expiry_tstamp')
              /\ Linked(event_list'[d]) = {x \in Event : active_state'[x] /\ active_hcpu'[x] = d}
  <2>1. Once(event_list'[d]) /\ Sorted(event_list'[d], expiry_tstamp') BY <1>9, <1>11, <1>12, Zenon
  <2>2. CASE d = c
    <3>1. Linked(event_list'[c]) = ({x \in Event : active_state[x] /\ active_hcpu[x] = c} \ {e}) \cup {e}
      BY <1>11, <1>12, Zenon
    <3> QED BY <1>1, <1>5, <1>6, <2>1, <2>2, <3>1 DEF e
  <2>3. CASE d # c
    <3>1. Linked(event_list'[d]) = {x \in Event : active_state[x] /\ active_hcpu[x] = d} \ {e}
      BY <1>9, <1>11, <2>3, Zenon
    <3> QED BY <1>5, <1>6, <2>1, <2>3, <3>1, Zenon
  <2> QED BY <2>2, <2>3, Zenon
<1> QED BY <1>1, <1>5, <1>9, <1>12, <1>13, <1>14, Zenon DEF Lists, e

(* vmm_clockchip_program_event() sets the chip to interrupt no later than  *)
(* the given time and the shortest delay after it.                         *)
LEMMA ProgrammedBound ==
  ASSUME TimerAssumption, now \in Nat
  PROVE  \A x \in Nat : x >= now => Programmed(x) \in Nat /\ Programmed(x) <= x + MinDelta
<1> SUFFICES ASSUME NEW x \in Nat, x >= now PROVE Programmed(x) \in Nat /\ Programmed(x) <= x + MinDelta
  BY Zenon
<1>1. x - now \in Nat /\ MinDelta \in Nat /\ MaxDelta \in Nat /\ MinDelta <= MaxDelta BY DEF TimerAssumption
<1>2. MinDelta \in Int /\ MaxDelta \in Int /\ x - now \in Int BY <1>1
<1> DEFINE m == Min({MaxDelta, x - now})
           k == Max({MinDelta, m})
<1>3. m = IF MaxDelta <= x - now THEN MaxDelta ELSE x - now BY <1>2, MaxMin, Zenon
<1>4. m \in Int /\ m <= x - now /\ (m < x - now => m = MaxDelta) BY <1>1, <1>3
<1> HIDE DEF m
<1>5. k = IF MinDelta >= m THEN MinDelta ELSE m BY <1>2, <1>4, MaxMin, ZenonT(30)
<1>6. k \in Nat /\ k <= x - now + MinDelta BY <1>1, <1>4, <1>5
<1>7. Programmed(x) = now + k BY Zenon DEF Programmed, k, m
<1> HIDE DEF k
<1> QED BY <1>6, <1>7

-----------------------------------------------------------------------------
(* The handlers that are about to be called for an event, whether a start  *)
(* of it is still to be answered by one more, and the host CPUs that wait  *)
(* for its lock to start it.                                               *)
Stopping(e) == {c \in Cpu : stage[c] = "stop" /\ seen[c].event = e}
Owed(e) == IF active_state[e] /\ \A c \in Stopping(e) : seen[c].again THEN 1 ELSE 0
Pending(e) == {p \in Cpu \X Level : op[p[1]][p[2]].event = e}

SeenInv == \A c \in Cpu : stage[c] = "stop" <=> seen[c].event \in Event
CallInv == \A e \in Event : Cardinality(Stopping(e)) + Owed(e) <= credit[e]
CreditInv == \A e \in Event : credit[e] + Cardinality(Pending(e)) <= begun
TimerInv == TypeOK /\ Lists /\ FirstArmed /\ StopsExpired /\ SeenInv /\ CallInv /\ CreditInv

(* What is counted is finite. *)
LEMMA FiniteCounts ==
  ASSUME TimerAssumption
  PROVE  /\ \A S \in SUBSET Cpu : IsFiniteSet(S) /\ Cardinality(S) \in Nat /\ (S # {} => Cardinality(S) >= 1)
         /\ \A S \in SUBSET (Cpu \X Level) :
              IsFiniteSet(S) /\ Cardinality(S) \in Nat /\ (S # {} => Cardinality(S) >= 1)
<1>1. \A T : IsFiniteSet(T) => \A S \in SUBSET T :
        IsFiniteSet(S) /\ Cardinality(S) \in Nat /\ (S # {} => Cardinality(S) >= 1)
  <2> SUFFICES ASSUME NEW T, IsFiniteSet(T), NEW S \in SUBSET T
               PROVE  IsFiniteSet(S) /\ Cardinality(S) \in Nat /\ (S # {} => Cardinality(S) >= 1)
    BY Zenon
  <2>1. IsFiniteSet(S) BY FS_Subset, Zenon
  <2>2. Cardinality(S) \in Nat BY <2>1, FS_CardinalityType, Zenon
  <2>3. S # {} => Cardinality(S) # 0 BY <2>1, FS_EmptySet, Zenon
  <2> QED BY <2>1, <2>2, <2>3
<1>2. IsFiniteSet(Cpu) BY Zenon DEF TimerAssumption
<1>3. IsFiniteSet(Level)
  <2>1. IsFiniteSet({"thread"}) BY FS_Singleton, Zenon
  <2>2. IsFiniteSet({"thread"} \cup {"irq"}) BY <2>1, FS_AddElement, Zenon
  <2>3. Level = {"thread"} \cup {"irq"} BY Zenon DEF Level
  <2> QED BY <2>2, <2>3, Zenon
<1>4. IsFiniteSet(Cpu \X Level) BY <1>2, <1>3, FS_Product, Zenon
<1> QED BY <1>1, <1>2, <1>4, Zenon

(* The invariant holds before the timers are started. *)
LEMMA InitTimer ==
  ASSUME TimerAssumption, Init
  PROVE  TimerInv
<1>1. TypeOK
  <2>1. now \in Nat /\ mode \in [Cpu -> {"unused", "oneshot", "shutdown"}] BY Zenon DEF Init
  <2>2. chip \in [Cpu -> Nat \cup {Never}] /\ stage \in [Cpu -> {"off", "look", "stop", "callback"}] BY Zenon DEF Init
  <2>3. << >> \in Seq(Event) OBVIOUS
  <2>4. event_list \in [Cpu -> Seq(Event)] BY <2>3, Zenon DEF Init
  <2>5. seen \in [Cpu -> [event : Event \cup {None}, again : BOOLEAN]] BY Zenon DEF Init, NoSight
  <2>6. op \in [Cpu -> [Level -> Op]] BY Zenon DEF Init, Op
  <2>7. expiry_tstamp \in [Event -> 0 .. MaxTime] BY DEF Init, TimerAssumption
  <2>8. active_state \in [Event -> BOOLEAN] BY Zenon DEF Init
  <2>9. active_hcpu \in [Event -> Cpu]
    <3>1. (CHOOSE c \in Cpu : TRUE) \in Cpu BY Zenon DEF TimerAssumption
    <3> QED BY <3>1, Zenon DEF Init
  <2>10. begun \in 0 .. MaxStarts /\ credit \in [Event -> 0 .. MaxStarts] BY DEF Init, TimerAssumption
  <2> QED BY <2>1, <2>2, <2>4, <2>5, <2>6, <2>7, <2>8, <2>9, <2>10, Zenon DEF TypeOK
<1>2. Lists
  <2>1. \A c \in Cpu : event_list[c] = << >> /\ DOMAIN event_list[c] = {} BY DEF Init
  <2>2. \A e \in Event : ~active_state[e] BY Zenon DEF Init
  <2> QED BY <2>1, <2>2, Zenon DEF Lists, Once, Sorted, Linked
<1>3. FirstArmed BY Zenon DEF FirstArmed, Init
<1>4. StopsExpired /\ SeenInv BY Zenon DEF StopsExpired, SeenInv, Init, NoSight, TimerAssumption, None
<1>5. CallInv
  <2> SUFFICES ASSUME NEW e \in Event PROVE Cardinality(Stopping(e)) + Owed(e) <= credit[e] BY Zenon DEF CallInv
  <2>1. Stopping(e) = {} BY Zenon DEF Stopping, Init
  <2>2. Owed(e) = 0 /\ credit[e] = 0 BY Zenon DEF Owed, Init
  <2> QED BY <2>1, <2>2, FS_EmptySet
<1>6. CreditInv
  <2> SUFFICES ASSUME NEW e \in Event PROVE credit[e] + Cardinality(Pending(e)) <= begun BY Zenon DEF CreditInv
  <2>1. \A c \in Cpu : \A l \in Level : op[c][l].event = None BY Zenon DEF Init, NoOp
  <2>2. e # None BY Zenon DEF TimerAssumption, None
  <2>3. Pending(e) = {} BY <2>1, <2>2, Zenon DEF Pending
  <2>4. credit[e] = 0 /\ begun = 0 BY Zenon DEF Init
  <2> QED BY <2>3, <2>4, FS_EmptySet
<1> QED BY <1>1, <1>2, <1>3, <1>4, <1>5, <1>6, Zenon DEF TimerInv

(* Types, the lists of the host CPUs, and the bounds of the counters. *)
LEMMA ListsKeep ==
  ASSUME TimerAssumption, TimerInv, Next
  PROVE  TypeOK' /\ Lists'
<1> DEFINE LT == Lists' /\ EventTypes'
<1>0. TypeOK /\ Lists /\ EventTypes BY Zenon DEF TimerInv, TypeOK, EventTypes
<1>s. UNCHANGED eventVars => LT BY <1>0 DEF eventVars, Lists, EventTypes
<1>t. ASSUME LT, now' \in Nat, mode' \in [Cpu -> {"unused", "oneshot", "shutdown"}],
             chip' \in [Cpu -> Nat \cup {Never}], stage' \in [Cpu -> {"off", "look", "stop", "callback"}],
             seen' \in [Cpu -> [event : Event \cup {None}, again : BOOLEAN]], op' \in [Cpu -> [Level -> Op]],
             begun' \in 0 .. MaxStarts, credit' \in [Event -> 0 .. MaxStarts]
      PROVE  TypeOK' /\ Lists'
  BY <1>t, Zenon DEF TypeOK, EventTypes
<1>n. now \in Nat BY <1>0, Zenon DEF TypeOK
<1>p. \A x \in Nat : x >= now => Programmed(x) \in Nat /\ Programmed(x) <= x + MinDelta BY <1>n, ProgrammedBound, Zenon
<1>u. ASSUME NEW c \in Cpu, NEW inprocess \in BOOLEAN, NEW list \in Seq(Event), NEW expiry \in [Event -> Nat]
      PROVE  ScheduleNext(c, inprocess, list, expiry) \in Nat \cup {Never}
  <2>1. list # << >> => /\ Max({now, expiry[Head(list)]}) \in Nat /\ Max({now, expiry[Head(list)]}) >= now
    <3> SUFFICES ASSUME list # << >>
                 PROVE  /\ Max({now, expiry[Head(list)]}) \in Nat /\ Max({now, expiry[Head(list)]}) >= now
      BY Zenon
    <3>1. Head(list) \in Event BY <1>u, TailLinked, Zenon
    <3>2. expiry[Head(list)] \in Nat BY <1>u, <3>1, Zenon
    <3> QED BY <1>n, <3>2, LargerNat, Zenon
  <2>2. chip[c] \in Nat \cup {Never} BY <1>0, Zenon DEF TypeOK
  <2> QED BY <1>p, <2>1, <2>2, Zenon DEF ScheduleNext
<1> HIDE DEF LT
<1>1. ASSUME NEW c \in Cpu, NEW l \in Level, NEW e \in Event, NEW duration \in Duration, Start(c, l, e, duration)
      PROVE  TypeOK' /\ Lists'
  <2>1. now + duration \in 0 .. MaxTime BY <1>0, <1>1 DEF Start, TypeOK, TimerAssumption
  <2>2. [event |-> e, expiry |-> now + duration] \in Op BY <2>1, Zenon DEF Op
  <2>3. op' \in [Cpu -> [Level -> Op]] BY <1>0, <1>1, <2>2, Zenon DEF Start, TypeOK
  <2>4. begun' \in 0 .. MaxStarts BY <1>0, <1>1 DEF Start, TypeOK, TimerAssumption
  <2>5. LT BY <1>1, <1>s, Zenon DEF Start
  <2> QED BY <1>0, <1>1, <1>t, <2>3, <2>4, <2>5, Zenon DEF Start, TypeOK, hostVars
<1>2. ASSUME NEW c \in Cpu, NEW l \in Level, StartLocked(c, l)
      PROVE  TypeOK' /\ Lists'
  <2> DEFINE e == op[c][l].event
  <2>1. e \in Event /\ EventTypes' /\ Lists' BY <1>0, <1>2, StartKeeps, Zenon
  <2>2. LT BY <2>1, Zenon DEF LT
  <2>3. op' \in [Cpu -> [Level -> Op]] BY <1>0, <1>2, Zenon DEF StartLocked, TypeOK, Op
  <2>4. chip' \in [Cpu -> Nat \cup {Never}]
    <3>1. event_list'[c] \in Seq(Event) /\ expiry_tstamp' \in [Event -> Nat]
      BY <2>1 DEF EventTypes, TimerAssumption
    <3>2. ScheduleNext(c, stage[c] # "off", event_list'[c], expiry_tstamp') \in Nat \cup {Never} BY <1>u, <3>1, Zenon
    <3> QED BY <1>0, <1>2, <3>2, Zenon DEF StartLocked, TypeOK
  <2>5. seen' \in [Cpu -> [event : Event \cup {None}, again : BOOLEAN]]
    <3>1. \A d \in Cpu : seen[d] \in [event : Event \cup {None}, again : BOOLEAN] BY <1>0, Zenon DEF TypeOK
    <3>2. \A d \in Cpu : [seen[d] EXCEPT !.again = seen[d].again \/ seen[d].event = e]
                            \in [event : Event \cup {None}, again : BOOLEAN]
      BY <3>1, Zenon
    <3>3. seen' = [d \in Cpu |-> [seen[d] EXCEPT !.again = seen[d].again \/ seen[d].event = e]]
      BY <1>2, Zenon DEF StartLocked
    <3> QED BY <3>2, <3>3, Zenon
  <2>6. credit' \in [Event -> 0 .. MaxStarts]
    <3>1. <<c, l>> \in Pending(e) BY Zenon DEF Pending
    <3>2. Pending(e) \in SUBSET (Cpu \X Level) BY Zenon DEF Pending
    <3>3. Cardinality(Pending(e)) \in Nat /\ Cardinality(Pending(e)) >= 1 BY <3>1, <3>2, FiniteCounts, Zenon
    <3>4. credit[e] + Cardinality(Pending(e)) <= begun BY <2>1, Zenon DEF TimerInv, CreditInv
    <3>5. credit[e] \in Nat /\ begun \in Nat /\ begun <= MaxStarts BY <1>0, <2>1 DEF TypeOK, TimerAssumption
    <3> HIDE DEF e
    <3>6. credit[e] + 1 \in 0 .. MaxStarts BY <3>3, <3>4, <3>5 DEF TimerAssumption
    <3>7. credit' = [credit EXCEPT ![e] = credit[e] + 1] BY <1>2, Zenon DEF StartLocked, e
    <3> QED BY <1>0, <3>6, <3>7, Zenon DEF TypeOK
  <2> QED BY <1>0, <1>2, <1>t, <2>2, <2>3, <2>4, <2>5, <2>6, Zenon DEF StartLocked, TypeOK, hostVars
<1>3. ASSUME NEW c \in Cpu, NEW l \in Level, NEW e \in Event, Stop(c, l, e)
      PROVE  TypeOK' /\ Lists'
  <2>1. LT BY <1>0, <1>3, StopKeeps, Zenon DEF Stop, LT
  <2> QED BY <1>0, <1>3, <1>t, <2>1, Zenon DEF Stop, TypeOK, hostVars
<1>4. ASSUME NEW c \in Cpu, Interrupt(c) PROVE TypeOK' /\ Lists'
  <2>1. LT BY <1>4, <1>s, Zenon DEF Interrupt
  <2>2. chip' \in [Cpu -> Nat \cup {Never}] BY <1>0, <1>4, Zenon DEF Interrupt, TypeOK
  <2>3. stage' \in [Cpu -> {"off", "look", "stop", "callback"}] BY <1>0, <1>4, Zenon DEF Interrupt, TypeOK
  <2> QED BY <1>0, <1>4, <1>t, <2>1, <2>2, <2>3, Zenon DEF Interrupt, TypeOK, hostVars
<1>5. ASSUME NEW c \in Cpu, HandlerLook(c) PROVE TypeOK' /\ Lists'
  <2>1. LT BY <1>5, <1>s, Zenon DEF HandlerLook
  <2>2. stage' \in [Cpu -> {"off", "look", "stop", "callback"}] BY <1>0, <1>5, Zenon DEF HandlerLook, TypeOK
  <2>3. event_list[c] \in Seq(Event) /\ event_list[c] # << >> BY <1>0, <1>5, Zenon DEF HandlerLook, Expired, TypeOK
  <2>4. Head(event_list[c]) \in Event BY <2>3, TailLinked, Zenon
  <2>5. seen' \in [Cpu -> [event : Event \cup {None}, again : BOOLEAN]] BY <1>0, <1>5, <2>4, Zenon DEF HandlerLook, TypeOK
  <2> QED BY <1>0, <1>5, <1>t, <2>1, <2>2, <2>5, Zenon DEF HandlerLook, TypeOK, hostVars
<1>6. ASSUME NEW c \in Cpu, HandlerStop(c) PROVE TypeOK' /\ Lists'
  <2> DEFINE e == seen[c].event
  <2>1. e \in Event BY <1>6, Zenon DEF HandlerStop, TimerInv, SeenInv
  <2>2. LT BY <1>0, <1>6, <2>1, StopKeeps, Zenon DEF HandlerStop, LT
  <2>3. stage' \in [Cpu -> {"off", "look", "stop", "callback"}] BY <1>0, <1>6, Zenon DEF HandlerStop, TypeOK
  <2>4. seen' \in [Cpu -> [event : Event \cup {None}, again : BOOLEAN]] BY <1>0, <1>6, Zenon DEF HandlerStop, TypeOK, NoSight
  <2>5. credit' \in [Event -> 0 .. MaxStarts]
    <3>1. c \in Stopping(e) /\ Stopping(e) \in SUBSET Cpu BY <1>6, Zenon DEF Stopping, HandlerStop
    <3>2. Cardinality(Stopping(e)) \in Nat /\ Cardinality(Stopping(e)) >= 1 BY <3>1, FiniteCounts, Zenon
    <3>3. Cardinality(Stopping(e)) + Owed(e) <= credit[e] /\ Owed(e) \in Nat BY <2>1, Zenon DEF TimerInv, CallInv, Owed
    <3>4. credit[e] \in Nat /\ credit[e] <= MaxStarts BY <1>0, <2>1 DEF TypeOK, TimerAssumption
    <3> HIDE DEF e
    <3>5. credit[e] - 1 \in 0 .. MaxStarts BY <3>2, <3>3, <3>4 DEF TimerAssumption
    <3>6. credit' = [credit EXCEPT ![e] = credit[e] - 1] BY <1>6, Zenon DEF HandlerStop, e
    <3> QED BY <1>0, <3>5, <3>6, Zenon DEF TypeOK
  <2> QED BY <1>0, <1>6, <1>t, <2>2, <2>3, <2>4, <2>5, Zenon DEF HandlerStop, TypeOK, hostVars
<1>7. ASSUME NEW c \in Cpu, HandlerReturn(c) PROVE TypeOK' /\ Lists'
  <2>1. LT BY <1>7, <1>s, Zenon DEF HandlerReturn
  <2>2. stage' \in [Cpu -> {"off", "look", "stop", "callback"}] BY <1>0, <1>7, Zenon DEF HandlerReturn, TypeOK
  <2> QED BY <1>0, <1>7, <1>t, <2>1, <2>2, Zenon DEF HandlerReturn, TypeOK, hostVars
<1>8. ASSUME NEW c \in Cpu, HandlerExit(c) PROVE TypeOK' /\ Lists'
  <2>1. LT BY <1>8, <1>s, Zenon DEF HandlerExit
  <2>2. stage' \in [Cpu -> {"off", "look", "stop", "callback"}] BY <1>0, <1>8, Zenon DEF HandlerExit, TypeOK
  <2>3. event_list[c] \in Seq(Event) /\ expiry_tstamp \in [Event -> Nat] BY <1>0 DEF TypeOK, TimerAssumption
  <2>4. ScheduleNext(c, FALSE, event_list[c], expiry_tstamp) \in Nat \cup {Never} BY <1>u, <2>3, Zenon
  <2>5. chip' \in [Cpu -> Nat \cup {Never}] BY <1>0, <1>8, <2>4, Zenon DEF HandlerExit, TypeOK
  <2> QED BY <1>0, <1>8, <1>t, <2>1, <2>2, <2>5, ZenonT(30) DEF HandlerExit, TypeOK, hostVars
<1>9. ASSUME NEW c \in Cpu, TimerStart(c) PROVE TypeOK' /\ Lists'
  <2>1. LT BY <1>9, <1>s, Zenon DEF TimerStart
  <2>2. mode' \in [Cpu -> {"unused", "oneshot", "shutdown"}] BY <1>0, <1>9, Zenon DEF TimerStart, TypeOK
  <2>3. now + MinDelta \in Nat /\ now + MinDelta >= now BY <1>0 DEF TypeOK, TimerAssumption
  <2>4. Programmed(now + MinDelta) \in Nat BY <1>p, <2>3, Zenon
  <2>5. chip' \in [Cpu -> Nat \cup {Never}] BY <1>0, <1>9, <2>4, Zenon DEF TimerStart, TypeOK
  <2> QED BY <1>0, <1>9, <1>t, <2>1, <2>2, <2>5, ZenonT(30) DEF TimerStart, TypeOK
<1>10. ASSUME NEW c \in Cpu, TimerStop(c) PROVE TypeOK' /\ Lists'
  <2>1. LT BY <1>10, <1>s, Zenon DEF TimerStop
  <2>2. mode' \in [Cpu -> {"unused", "oneshot", "shutdown"}] BY <1>0, <1>10, Zenon DEF TimerStop, TypeOK
  <2>3. chip' \in [Cpu -> Nat \cup {Never}] BY <1>0, <1>10, Zenon DEF TimerStop, TypeOK
  <2> QED BY <1>0, <1>10, <1>t, <2>1, <2>2, <2>3, Zenon DEF TimerStop, TypeOK
<1>11. ASSUME Tick PROVE TypeOK' /\ Lists'
  <2>1. LT BY <1>11, <1>s, Zenon DEF Tick
  <2>2. now' \in Nat BY <1>0, <1>11 DEF Tick, TypeOK
  <2> QED BY <1>0, <1>11, <1>t, <2>1, <2>2, Zenon DEF Tick, TypeOK
<1> QED BY <1>1, <1>2, <1>3, <1>4, <1>5, <1>6, <1>7, <1>8, <1>9, <1>10, <1>11, ZenonT(30) DEF Next, Handler, Operate

(* The events that are active after __timer_event_stop(). *)
LEMMA StopFacts ==
  ASSUME EventTypes, NEW e \in Event, StopEvent(e)
  PROVE  /\ ~active_state'[e]
         /\ \A x \in Event \ {e} : active_state'[x] = active_state[x] /\ expiry_tstamp'[x] = expiry_tstamp[x]
         /\ active_hcpu' = active_hcpu
  BY Zenon DEF StopEvent, EventTypes

(* The event that a handler has found expired, until it stops it. *)
LEMMA SeenKeeps ==
  ASSUME TimerAssumption, TimerInv, Next
  PROVE  SeenInv' /\ StopsExpired'
<1>0. TypeOK /\ EventTypes /\ Lists /\ SeenInv /\ StopsExpired BY Zenon DEF TimerInv, TypeOK, EventTypes
<1>n. now \in Nat /\ \A x \in Event : expiry_tstamp[x] \in Nat BY <1>0 DEF TypeOK, TimerAssumption
<1>m. None \notin Event BY Zenon DEF None, TimerAssumption
<1> DEFINE Kept(d) == /\ stage'[d] = "stop" => stage[d] = "stop" /\ seen'[d].event = seen[d].event
                      /\ stage'[d] # "stop" => seen'[d].event \notin Event
           Still(d, x) == active_state'[x] /\ ~seen'[d].again =>
                            /\ active_state[x] /\ ~seen[d].again /\ expiry_tstamp'[x] = expiry_tstamp[x]
                            /\ active_hcpu'[x] = active_hcpu[x]
           Sound(d) == /\ stage'[d] = "stop" <=> seen'[d].event \in Event
                       /\ stage'[d] = "stop" /\ active_state'[seen'[d].event] /\ ~seen'[d].again
                          => expiry_tstamp'[seen'[d].event] <= now' /\ active_hcpu'[seen'[d].event] = d
<1>s. SUFFICES ASSUME NEW d \in Cpu PROVE Sound(d) BY Zenon DEF SeenInv, StopsExpired
<1>k. ASSUME Kept(d), now' \in Nat, now' >= now, \A x \in Event : x = seen[d].event => Still(d, x)
      PROVE  Sound(d)
  <2>1. CASE stage'[d] # "stop" BY <1>k, <2>1, Zenon
  <2>2. CASE stage'[d] = "stop"
    <3>1. stage[d] = "stop" /\ seen'[d].event = seen[d].event /\ seen[d].event \in Event
      BY <1>0, <1>k, <2>2, Zenon DEF SeenInv
    <3> DEFINE x == seen[d].event
    <3>2. ASSUME active_state'[x], ~seen'[d].again PROVE expiry_tstamp'[x] <= now' /\ active_hcpu'[x] = d
      <4>1. /\ active_state[x] /\ ~seen[d].again /\ expiry_tstamp'[x] = expiry_tstamp[x]
            /\ active_hcpu'[x] = active_hcpu[x]
        BY <1>k, <3>1, <3>2, Zenon
      <4>2. expiry_tstamp[x] <= now /\ active_hcpu[x] = d BY <1>0, <3>1, <4>1, Zenon DEF StopsExpired
      <4>3. expiry_tstamp[x] \in Nat BY <1>n, <3>1, Zenon
      <4> QED BY <1>k, <1>n, <4>1, <4>2, <4>3
    <3> QED BY <2>2, <3>1, <3>2, Zenon
  <2> QED BY <2>1, <2>2, Zenon
<1>e. ASSUME UNCHANGED eventVars, seen'[d] = seen[d] PROVE \A x \in Event : Still(d, x)
  BY <1>e, Zenon DEF eventVars
<1>f. ASSUME seen'[d] = seen[d], stage'[d] = "stop" <=> stage[d] = "stop" PROVE Kept(d)
  BY <1>0, <1>f, Zenon DEF SeenInv
<1>g. ASSUME UNCHANGED <<now, seen, eventVars>>, stage'[d] = "stop" <=> stage[d] = "stop" PROVE Sound(d)
  <2>1. seen'[d] = seen[d] /\ now' \in Nat /\ now' >= now BY <1>g, <1>n
  <2> QED BY <1>e, <1>f, <1>g, <1>k, <2>1, Zenon
<1>h. ASSUME NEW e \in Event, StopEvent(e), seen'[d] = seen[d] PROVE \A x \in Event : Still(d, x)
  BY <1>0, <1>h, StopFacts, Zenon
<1> HIDE DEF Kept, Still, Sound
<1>1. ASSUME NEW c \in Cpu, NEW l \in Level, NEW e \in Event, NEW duration \in Duration, Start(c, l, e, duration)
      PROVE  Sound(d)
  BY <1>1, <1>g, Zenon DEF Start, hostVars
<1>2. ASSUME NEW c \in Cpu, NEW l \in Level, StartLocked(c, l) PROVE Sound(d)
  <2> DEFINE e == op[c][l].event
  <2>1. seen[d] \in [event : Event \cup {None}, again : BOOLEAN] BY <1>0, Zenon DEF TypeOK
  <2>2. seen'[d] = [seen[d] EXCEPT !.again = seen[d].again \/ seen[d].event = e] BY <1>2, Zenon DEF StartLocked
  <2>3. seen'[d].event = seen[d].event /\ seen'[d].again = (seen[d].again \/ seen[d].event = e) BY <2>1, <2>2, Zenon
  <2>4. stage' = stage /\ now' = now BY <1>2, Zenon DEF StartLocked, hostVars
  <2>5. Kept(d) BY <1>0, <2>3, <2>4, Zenon DEF Kept, SeenInv
  <2>6. \A x \in Event \ {e} : /\ active_state'[x] = active_state[x] /\ expiry_tstamp'[x] = expiry_tstamp[x]
                                /\ active_hcpu'[x] = active_hcpu[x]
    BY <1>0, <1>2, Zenon DEF StartLocked, EventTypes
  <2>7. \A x \in Event : x = seen[d].event => Still(d, x) BY <2>3, <2>6, Zenon DEF Still
  <2> QED BY <1>k, <1>n, <2>4, <2>5, <2>7
<1>3. ASSUME NEW c \in Cpu, NEW l \in Level, NEW e \in Event, Stop(c, l, e) PROVE Sound(d)
  <2>1. seen' = seen /\ stage' = stage /\ now' = now BY <1>3, Zenon DEF Stop, hostVars
  <2>2. Kept(d) BY <1>f, <2>1, Zenon
  <2>3. \A x \in Event : Still(d, x) BY <1>3, <1>h, <2>1, Zenon DEF Stop
  <2> QED BY <1>k, <1>n, <2>1, <2>2, <2>3
<1>4. ASSUME NEW c \in Cpu, Interrupt(c) PROVE Sound(d)
  BY <1>0, <1>4, <1>g, Zenon DEF Interrupt, hostVars, TypeOK
<1>5. ASSUME NEW c \in Cpu, HandlerLook(c) PROVE Sound(d)
  <2>1. CASE d # c
    <3>1. seen'[d] = seen[d] /\ stage'[d] = stage[d] /\ now' = now /\ UNCHANGED eventVars
      BY <1>0, <1>5, <2>1, Zenon DEF HandlerLook, TypeOK, hostVars
    <3>2. Kept(d) /\ \A x \in Event : Still(d, x) BY <1>e, <1>f, <3>1, Zenon
    <3> QED BY <1>k, <1>n, <3>1, <3>2
  <2>2. CASE d = c
    <3> DEFINE x == Head(event_list[c])
    <3>1. event_list[c] \in Seq(Event) /\ event_list[c] # << >> /\ expiry_tstamp[x] <= now
      BY <1>0, <1>5, Zenon DEF HandlerLook, Expired, TypeOK
    <3>2. x \in Linked(event_list[c]) BY <3>1, TailLinked, Zenon
    <3>3. x \in Event /\ active_hcpu[x] = c BY <1>0, <3>2, Zenon DEF Lists
    <3>4. seen'[c] = [event |-> x, again |-> FALSE] /\ stage'[c] = "stop" BY <1>0, <1>5, Zenon DEF HandlerLook, TypeOK
    <3>5. now' = now /\ expiry_tstamp' = expiry_tstamp /\ active_hcpu' = active_hcpu
      BY <1>5, Zenon DEF HandlerLook, hostVars, eventVars
    <3>6. seen'[c].event = x BY <3>4
    <3> HIDE DEF x
    <3> QED BY <2>2, <3>1, <3>3, <3>4, <3>5, <3>6, Zenon DEF Sound
  <2> QED BY <2>1, <2>2, Zenon
<1>6. ASSUME NEW c \in Cpu, HandlerStop(c) PROVE Sound(d)
  <2>1. now' = now BY <1>6, Zenon DEF HandlerStop, hostVars
  <2>2. CASE d # c
    <3>1. seen'[d] = seen[d] /\ stage'[d] = stage[d] BY <1>0, <1>6, <2>2, Zenon DEF HandlerStop, TypeOK
    <3>2. seen[c].event \in Event BY <1>0, <1>6, Zenon DEF HandlerStop, SeenInv
    <3>3. Kept(d) /\ \A x \in Event : Still(d, x) BY <1>6, <1>f, <1>h, <3>1, <3>2, Zenon DEF HandlerStop
    <3> QED BY <1>k, <1>n, <2>1, <3>3
  <2>3. CASE d = c
    <3>1. seen'[c].event = None /\ stage'[c] = "callback" BY <1>0, <1>6, Zenon DEF HandlerStop, TypeOK, NoSight
    <3> QED BY <1>m, <2>3, <3>1, Zenon DEF Sound
  <2> QED BY <2>2, <2>3, Zenon
<1>7. ASSUME NEW c \in Cpu, HandlerReturn(c) PROVE Sound(d)
  BY <1>0, <1>7, <1>g, Zenon DEF HandlerReturn, hostVars, TypeOK
<1>8. ASSUME NEW c \in Cpu, HandlerExit(c) PROVE Sound(d)
  BY <1>0, <1>8, <1>g, Zenon DEF HandlerExit, hostVars, TypeOK
<1>9. ASSUME NEW c \in Cpu, TimerStart(c) PROVE Sound(d)
  BY <1>9, <1>g, Zenon DEF TimerStart
<1>10. ASSUME NEW c \in Cpu, TimerStop(c) PROVE Sound(d)
  BY <1>10, <1>g, Zenon DEF TimerStop
<1>11. ASSUME Tick PROVE Sound(d)
  <2>1. seen' = seen /\ stage' = stage /\ UNCHANGED eventVars BY <1>11, Zenon DEF Tick
  <2>2. now' \in Nat /\ now' >= now BY <1>11, <1>n DEF Tick
  <2>3. Kept(d) /\ \A x \in Event : Still(d, x) BY <1>e, <1>f, <2>1, Zenon
  <2> QED BY <1>k, <2>2, <2>3, Zenon
<1> QED BY <1>1, <1>2, <1>3, <1>4, <1>5, <1>6, <1>7, <1>8, <1>9, <1>10, <1>11, Zenon DEF Next, Handler, Operate

(* The clock chip of a host CPU that is not in its handler. *)
LEMMA ArmedKeeps ==
  ASSUME TimerAssumption, TimerInv, Next
  PROVE  FirstArmed'
<1>0. TypeOK /\ EventTypes /\ Lists /\ FirstArmed BY Zenon DEF TimerInv, TypeOK, EventTypes
<1>t. TypeOK' BY ListsKeep, Zenon
<1>n. now \in Nat /\ now' \in Nat /\ MinDelta \in Nat /\ MaxDelta \in Nat /\ MinDelta <= MaxDelta
  BY <1>0, <1>t, Zenon DEF TypeOK, TimerAssumption
<1> DEFINE first(d) == expiry_tstamp[Head(event_list[d])]
           Armed(d) == chip'[d] # Never /\ chip'[d] <= Max({now', first(d)'}) + MinDelta
<1>s. SUFFICES ASSUME NEW d \in Cpu, mode'[d] = "oneshot", stage'[d] = "off", event_list'[d] # << >>
               PROVE  Armed(d)
  BY Zenon DEF FirstArmed
<1>x. first(d)' \in Nat
  <2>1. event_list'[d] \in Seq(Event) /\ expiry_tstamp' \in [Event -> Nat] BY <1>t DEF TypeOK, TimerAssumption
  <2>2. Head(event_list'[d]) \in Event BY <1>s, <2>1, TailLinked, Zenon
  <2> QED BY <2>1, <2>2, Zenon
<1>k. ASSUME mode[d] = "oneshot", stage[d] = "off", event_list[d] # << >>, chip'[d] = chip[d],
             first(d) <= first(d)', now' >= now
      PROVE  Armed(d)
  <2>1. event_list[d] \in Seq(Event) /\ expiry_tstamp \in [Event -> Nat] BY <1>0 DEF TypeOK, TimerAssumption
  <2>2. Head(event_list[d]) \in Event BY <1>k, <2>1, TailLinked, Zenon
  <2>3. first(d) \in Nat BY <2>1, <2>2, Zenon
  <2>4. chip[d] # Never /\ chip[d] \in Nat /\ chip[d] <= Max({now, first(d)}) + MinDelta
    BY <1>0, <1>k, Zenon DEF FirstArmed, TypeOK
  <2> DEFINE a == first(d)
             b == first(d)'
             m == Max({now, a})
             k == Max({now', b})
  <2>5. a \in Nat /\ b \in Nat /\ a <= b BY <1>k, <1>x, <2>3, Zenon
  <2> HIDE DEF a, b
  <2>6. m \in Nat /\ (m = now \/ m = a) BY <1>n, <2>5, LargerNat, Zenon
  <2>7. k \in Nat /\ k >= now' /\ k >= b BY <1>n, <2>5, LargerNat, Zenon
  <2>8. chip[d] <= m + MinDelta BY <2>4, Zenon DEF m, a
  <2> HIDE DEF m, k
  <2>9. m <= k BY <1>k, <1>n, <2>5, <2>6, <2>7
  <2>10. chip[d] <= k + MinDelta BY <1>n, <2>4, <2>6, <2>7, <2>8, <2>9
  <2> QED BY <1>k, <2>4, <2>10, Zenon DEF k, b
<1>u. ASSUME mode[d] = "oneshot", stage[d] = "off", UNCHANGED eventVars, chip'[d] = chip[d], now' >= now
      PROVE  Armed(d)
  <2>1. first(d) = first(d)' /\ event_list[d] # << >> BY <1>s, <1>u, Zenon DEF eventVars
  <2>2. first(d) <= first(d)' BY <1>x, <2>1
  <2> QED BY <1>k, <1>u, <2>1, <2>2, Zenon
<1>v. ASSUME NEW e \in Event, mode[d] = "oneshot", stage[d] = "off", event_list'[d] = Stopped(e)[d],
             \A x \in Event \ {e} : expiry_tstamp'[x] = expiry_tstamp[x], chip'[d] = chip[d], now' = now
      PROVE  Armed(d)
  <2>1. event_list[d] # << >> /\ first(d) <= first(d)' BY <1>0, <1>s, <1>v, StopLater, Zenon
  <2> QED BY <1>k, <1>n, <1>v, <2>1
<1>w. ASSUME mode[d] = "oneshot", now' = now, chip'[d] = ScheduleNext(d, FALSE, event_list'[d], expiry_tstamp')
      PROVE  Armed(d)
  <2> DEFINE x == Max({now, first(d)'})
  <2>1. chip'[d] = Programmed(x) BY <1>s, <1>w, Zenon DEF ScheduleNext
  <2>2. x \in Nat /\ x >= now BY <1>n, <1>x, LargerNat, Zenon
  <2>3. x = Max({now', first(d)'}) BY <1>w, Zenon
  <2> HIDE DEF x
  <2>4. Programmed(x) \in Nat /\ Programmed(x) <= x + MinDelta BY <1>n, <2>2, ProgrammedBound, Zenon
  <2> QED BY <2>1, <2>3, <2>4 DEF Never
<1> HIDE DEF Armed, first
<1>1. ASSUME NEW c \in Cpu, NEW l \in Level, NEW e \in Event, NEW duration \in Duration, Start(c, l, e, duration)
      PROVE  Armed(d)
  BY <1>1, <1>n, <1>s, <1>u DEF Start, hostVars
<1>2. ASSUME NEW c \in Cpu, NEW l \in Level, StartLocked(c, l) PROVE Armed(d)
  <2>1. mode' = mode /\ stage' = stage /\ now' = now BY <1>2, Zenon DEF StartLocked, hostVars
  <2>2. CASE d = c
    <3>1. chip'[c] = ScheduleNext(c, stage[c] # "off", event_list'[c], expiry_tstamp')
      BY <1>0, <1>2, Zenon DEF StartLocked, TypeOK
    <3>2. (stage[c] # "off") = FALSE BY <1>s, <2>1, <2>2, Zenon
    <3> QED BY <1>s, <1>w, <2>1, <2>2, <3>1, <3>2, Zenon
  <2>3. CASE d # c
    <3>1. chip'[d] = chip[d] BY <1>0, <1>2, <2>3, Zenon DEF StartLocked, TypeOK
    <3>2. /\ op[c][l].event \in Event /\ event_list'[d] = Stopped(op[c][l].event)[d]
          /\ \A x \in Event \ {op[c][l].event} : expiry_tstamp'[x] = expiry_tstamp[x]
      BY <1>0, <1>2, <2>3, StartKeeps
    <3> QED BY <1>s, <1>v, <2>1, <3>1, <3>2, Zenon
  <2> QED BY <2>2, <2>3, Zenon
<1>3. ASSUME NEW c \in Cpu, NEW l \in Level, NEW e \in Event, Stop(c, l, e) PROVE Armed(d)
  <2>1. mode' = mode /\ stage' = stage /\ now' = now /\ chip' = chip /\ StopEvent(e) BY <1>3, Zenon DEF Stop, hostVars
  <2>2. event_list'[d] = Stopped(e)[d] BY <2>1, Zenon DEF StopEvent
  <2>3. \A x \in Event \ {e} : expiry_tstamp'[x] = expiry_tstamp[x] BY <1>0, <2>1, StopFacts, Zenon
  <2> QED BY <1>s, <1>v, <2>1, <2>2, <2>3, Zenon
<1>4. ASSUME NEW c \in Cpu, Interrupt(c) PROVE Armed(d)
  <2>1. d # c /\ chip'[d] = chip[d] /\ stage'[d] = stage[d] BY <1>0, <1>4, <1>s, Zenon DEF Interrupt, TypeOK
  <2> QED BY <1>4, <1>n, <1>s, <1>u, <2>1 DEF Interrupt, hostVars
<1>5. ASSUME NEW c \in Cpu, HandlerLook(c) PROVE Armed(d)
  <2>1. d # c /\ stage'[d] = stage[d] BY <1>0, <1>5, <1>s, Zenon DEF HandlerLook, TypeOK
  <2> QED BY <1>5, <1>n, <1>s, <1>u, <2>1 DEF HandlerLook, hostVars
<1>6. ASSUME NEW c \in Cpu, HandlerStop(c) PROVE Armed(d)
  <2> DEFINE e == seen[c].event
  <2>1. d # c /\ stage'[d] = stage[d] BY <1>0, <1>6, <1>s, Zenon DEF HandlerStop, TypeOK
  <2>2. mode' = mode /\ now' = now /\ chip' = chip /\ StopEvent(e) BY <1>6, Zenon DEF HandlerStop, hostVars
  <2>3. e \in Event BY <1>6, Zenon DEF HandlerStop, TimerInv, SeenInv
  <2>4. event_list'[d] = Stopped(e)[d] BY <2>2, Zenon DEF StopEvent
  <2>5. \A x \in Event \ {e} : expiry_tstamp'[x] = expiry_tstamp[x] BY <1>0, <2>2, <2>3, StopFacts, Zenon
  <2> QED BY <1>s, <1>v, <2>1, <2>2, <2>3, <2>4, <2>5, Zenon
<1>7. ASSUME NEW c \in Cpu, HandlerReturn(c) PROVE Armed(d)
  <2>1. d # c /\ stage'[d] = stage[d] BY <1>0, <1>7, <1>s, Zenon DEF HandlerReturn, TypeOK
  <2> QED BY <1>7, <1>n, <1>s, <1>u, <2>1 DEF HandlerReturn, hostVars
<1>8. ASSUME NEW c \in Cpu, HandlerExit(c) PROVE Armed(d)
  <2>1. mode' = mode /\ now' = now /\ UNCHANGED eventVars BY <1>8, Zenon DEF HandlerExit, hostVars
  <2>2. CASE d = c
    <3>1. chip'[c] = ScheduleNext(c, FALSE, event_list[c], expiry_tstamp) BY <1>0, <1>8, Zenon DEF HandlerExit, TypeOK
    <3>2. event_list' = event_list /\ expiry_tstamp' = expiry_tstamp BY <2>1, Zenon DEF eventVars
    <3> QED BY <1>s, <1>w, <2>1, <2>2, <3>1, <3>2, Zenon
  <2>3. CASE d # c
    <3>1. chip'[d] = chip[d] /\ stage'[d] = stage[d] BY <1>0, <1>8, <2>3, Zenon DEF HandlerExit, TypeOK
    <3> QED BY <1>n, <1>s, <1>u, <2>1, <3>1
  <2> QED BY <2>2, <2>3, Zenon
<1>9. ASSUME NEW c \in Cpu, TimerStart(c) PROVE Armed(d)
  <2>1. stage' = stage /\ now' = now /\ UNCHANGED eventVars BY <1>9, Zenon DEF TimerStart
  <2>2. CASE d = c
    <3>1. chip'[c] = Programmed(now + MinDelta) BY <1>0, <1>9, Zenon DEF TimerStart, TypeOK
    <3>2. Programmed(now + MinDelta) = now + MinDelta
      <4>1. (now + MinDelta) - now = MinDelta /\ MinDelta \in Int /\ MaxDelta \in Int BY <1>n
      <4>2. Min({MaxDelta, MinDelta}) = IF MaxDelta <= MinDelta THEN MaxDelta ELSE MinDelta BY <4>1, MaxMin, Zenon
      <4>3. Min({MaxDelta, MinDelta}) = MinDelta BY <1>n, <4>2
      <4>4. Max({MinDelta, MinDelta}) = MinDelta BY <1>n, <4>1, MaxMin, Zenon
      <4> QED BY <4>1, <4>3, <4>4, Zenon DEF Programmed
    <3> DEFINE b == first(d)'
               k == Max({now', b})
    <3>3. b \in Nat BY <1>x, Zenon
    <3> HIDE DEF b
    <3>4. k \in Nat /\ k >= now' BY <1>n, <3>3, LargerNat, Zenon
    <3> HIDE DEF k
    <3>5. chip'[d] # Never /\ chip'[d] <= k + MinDelta BY <1>n, <2>1, <2>2, <3>1, <3>2, <3>4 DEF Never
    <3> QED BY <3>5, Zenon DEF Armed, k, b
  <2>3. CASE d # c
    <3>1. chip'[d] = chip[d] /\ mode'[d] = mode[d] BY <1>0, <1>9, <2>3, Zenon DEF TimerStart, TypeOK
    <3> QED BY <1>n, <1>s, <1>u, <2>1, <3>1
  <2> QED BY <2>2, <2>3, Zenon
<1>10. ASSUME NEW c \in Cpu, TimerStop(c) PROVE Armed(d)
  <2>1. d # c /\ chip'[d] = chip[d] /\ mode'[d] = mode[d] BY <1>0, <1>10, <1>s, Zenon DEF TimerStop, TypeOK
  <2> QED BY <1>10, <1>n, <1>s, <1>u, <2>1 DEF TimerStop
<1>11. ASSUME Tick PROVE Armed(d)
  <2>1. now' >= now BY <1>11, <1>n DEF Tick
  <2> QED BY <1>11, <1>s, <1>u, <2>1, Zenon DEF Tick
<1> QED BY <1>1, <1>2, <1>3, <1>4, <1>5, <1>6, <1>7, <1>8, <1>9, <1>10, <1>11, Zenon DEF Next, Handler, Operate

(* The starts of an event cover the calls of its handler: one that is      *)
(* about to come, and one for the last start unless a handler has seen it. *)
LEMMA CallKeeps ==
  ASSUME TimerAssumption, TimerInv, Next
  PROVE  CallInv'
<1>0. TypeOK /\ EventTypes /\ Lists /\ SeenInv /\ StopsExpired /\ CallInv
  BY Zenon DEF TimerInv, TypeOK, EventTypes
<1> SUFFICES ASSUME NEW x \in Event PROVE Cardinality(Stopping(x)') + Owed(x)' <= credit'[x]
  BY Zenon DEF CallInv
<1> DEFINE S == Stopping(x)
           Good == Cardinality(S') + Owed(x)' <= credit'[x]
<1>s. SUFFICES Good BY Zenon
<1>c. S \in SUBSET Cpu /\ S' \in SUBSET Cpu BY Zenon DEF Stopping
<1>f. IsFiniteSet(S) /\ Cardinality(S) \in Nat /\ Cardinality(S') \in Nat BY <1>c, FiniteCounts, Zenon
<1>o. Owed(x) \in {0, 1} /\ Owed(x)' \in {0, 1} BY Zenon DEF Owed
<1>i. Cardinality(S) + Owed(x) <= credit[x] /\ credit[x] \in Nat BY <1>0 DEF CallInv, TypeOK
<1> DEFINE Live == active_state[x] /\ \A c \in S : seen[c].again
<1>y. /\ Owed(x) = IF Live THEN 1 ELSE 0
      /\ Owed(x)' = IF Live' THEN 1 ELSE 0
  BY Zenon DEF Owed
<1>k. ASSUME S' = S, credit'[x] = credit[x], Live' => Live PROVE Good
  BY <1>f, <1>i, <1>k, <1>y
<1>g. ASSUME \A c \in Cpu : stage'[c] = "stop" <=> stage[c] = "stop", UNCHANGED <<seen, eventVars, credit>> PROVE Good
  <2>1. S' = S BY <1>g, Zenon DEF Stopping
  <2>2. Live' = Live BY <1>g, <2>1, Zenon DEF eventVars
  <2> QED BY <1>g, <1>k, <2>1, <2>2, Zenon
<1> HIDE DEF Live, Good
<1>1. ASSUME NEW c \in Cpu, NEW l \in Level, NEW e \in Event, NEW duration \in Duration, Start(c, l, e, duration)
      PROVE  Good
  BY <1>1, <1>g, Zenon DEF Start
<1>2. ASSUME NEW c \in Cpu, NEW l \in Level, StartLocked(c, l) PROVE Good
  <2> DEFINE e == op[c][l].event
  <2>1. e \in Event BY <1>0, <1>2, StartKeeps, Zenon
  <2>2. ASSUME NEW d \in Cpu
        PROVE  seen'[d].event = seen[d].event /\ seen'[d].again = (seen[d].again \/ seen[d].event = e)
    <3>1. seen[d] \in [event : Event \cup {None}, again : BOOLEAN] BY <1>0, Zenon DEF TypeOK
    <3>2. seen'[d] = [seen[d] EXCEPT !.again = seen[d].again \/ seen[d].event = e] BY <1>2, Zenon DEF StartLocked
    <3> QED BY <3>1, <3>2, Zenon
  <2>3. S' = S BY <1>2, <2>2, Zenon DEF Stopping, StartLocked
  <2>4. credit' = [credit EXCEPT ![e] = credit[e] + 1] /\ active_state' = [active_state EXCEPT ![e] = TRUE]
    BY <1>2, Zenon DEF StartLocked
  <2> HIDE DEF e
  <2>5. CASE x = e
    <3>1. credit'[x] = credit[x] + 1 BY <1>0, <2>4, <2>5, Zenon DEF TypeOK
    <3> QED BY <1>f, <1>i, <1>o, <2>3, <3>1 DEF Good
  <2>6. CASE x # e
    <3>1. credit'[x] = credit[x] /\ active_state'[x] = active_state[x] BY <1>0, <2>4, <2>6, Zenon DEF TypeOK
    <3>2. \A d \in S : d \in Cpu /\ seen[d].event # e BY <2>6, Zenon DEF Stopping
    <3>3. \A d \in S : seen'[d].again => seen[d].again BY <2>2, <3>2, Zenon
    <3>4. Live' => Live BY <2>3, <3>1, <3>3, Zenon DEF Live
    <3> QED BY <1>k, <2>3, <3>1, <3>4, Zenon
  <2> QED BY <2>5, <2>6, Zenon
<1>3. ASSUME NEW c \in Cpu, NEW l \in Level, NEW e \in Event, Stop(c, l, e) PROVE Good
  <2>1. seen' = seen /\ stage' = stage /\ credit' = credit BY <1>3, Zenon DEF Stop
  <2>2. S' = S BY <2>1, Zenon DEF Stopping
  <2>3. active_state'[x] => active_state[x] BY <1>0, <1>3, StopFacts, Zenon DEF Stop
  <2>4. Live' => Live BY <2>1, <2>2, <2>3, Zenon DEF Live
  <2> QED BY <1>k, <2>1, <2>2, <2>4, Zenon
<1>4. ASSUME NEW c \in Cpu, Interrupt(c) PROVE Good
  <2>1. \A d \in Cpu : stage'[d] = "stop" <=> stage[d] = "stop" BY <1>0, <1>4, Zenon DEF Interrupt, TypeOK
  <2> QED BY <1>4, <1>g, <2>1, Zenon DEF Interrupt
<1>5. ASSUME NEW c \in Cpu, HandlerLook(c) PROVE Good
  <2> DEFINE e == Head(event_list[c])
  <2>1. event_list[c] \in Seq(Event) /\ event_list[c] # << >> BY <1>0, <1>5, Zenon DEF HandlerLook, Expired, TypeOK
  <2>2. e \in Linked(event_list[c]) BY <2>1, TailLinked, Zenon
  <2>3. e \in Event /\ active_state[e] /\ active_hcpu[e] = c BY <1>0, <2>2, Zenon DEF Lists
  <2>4. stage[c] = "look" /\ stage'[c] = "stop" /\ seen'[c] = [event |-> e, again |-> FALSE]
    BY <1>0, <1>5, Zenon DEF HandlerLook, TypeOK
  <2>5. \A d \in Cpu \ {c} : stage'[d] = stage[d] /\ seen'[d] = seen[d] BY <1>0, <1>5, Zenon DEF HandlerLook, TypeOK
  <2>6. credit' = credit /\ active_state' = active_state BY <1>5, Zenon DEF HandlerLook, eventVars
  <2> HIDE DEF e
  <2>7. c \notin S BY <2>4, Zenon DEF Stopping
  <2>8. CASE x = e
    <3>1. S' = S \cup {c} BY <2>4, <2>5, <2>8 DEF Stopping
    <3>2. Cardinality(S \cup {c}) = Cardinality(S) + 1 BY <1>f, <2>7, FS_AddElement, Zenon
    <3>3. Live
      <4> SUFFICES ASSUME NEW d \in S, ~seen[d].again PROVE FALSE BY <2>3, <2>8, Zenon DEF Live
      <4>1. d \in Cpu /\ stage[d] = "stop" /\ seen[d].event = e BY <2>8, Zenon DEF Stopping
      <4>2. active_hcpu[e] = d BY <1>0, <2>3, <4>1, Zenon DEF StopsExpired
      <4> QED BY <2>3, <2>4, <4>1, <4>2, Zenon
    <3>4. ~Live' BY <2>4, <3>1 DEF Live
    <3>5. Owed(x) = 1 /\ Owed(x)' = 0 BY <1>y, <3>3, <3>4, Zenon
    <3> QED BY <1>f, <1>i, <2>6, <3>1, <3>2, <3>5 DEF Good
  <2>9. CASE x # e
    <3>1. S' = S BY <2>4, <2>5, <2>9 DEF Stopping
    <3>2. Live' => Live BY <2>5, <2>6, <2>7, <3>1, <1>c, Zenon DEF Live
    <3> QED BY <1>k, <2>6, <3>1, <3>2, Zenon
  <2> QED BY <2>8, <2>9, Zenon
<1>6. ASSUME NEW c \in Cpu, HandlerStop(c) PROVE Good
  <2> DEFINE e == seen[c].event
  <2>1. e \in Event /\ stage[c] = "stop" BY <1>0, <1>6, Zenon DEF HandlerStop, SeenInv
  <2>2. stage'[c] = "callback" BY <1>0, <1>6, Zenon DEF HandlerStop, TypeOK
  <2>3. \A d \in Cpu \ {c} : stage'[d] = stage[d] /\ seen'[d] = seen[d] BY <1>0, <1>6, Zenon DEF HandlerStop, TypeOK
  <2>4. ~active_state'[e] /\ \A y \in Event \ {e} : active_state'[y] = active_state[y]
    BY <1>0, <1>6, <2>1, StopFacts, Zenon DEF HandlerStop
  <2>5. credit' = [credit EXCEPT ![e] = credit[e] - 1] BY <1>6, Zenon DEF HandlerStop
  <2>6. CASE x = e
    <3>1. c \in S /\ S' = S \ {c} BY <2>1, <2>2, <2>3, <2>6, Zenon DEF Stopping
    <3>2. Cardinality(S \ {c}) = Cardinality(S) - 1 BY <1>f, <3>1, FS_RemoveElement, Zenon
    <3>3. Owed(x)' = 0 BY <1>y, <2>4, <2>6, Zenon DEF Live
    <3>4. credit'[x] = credit[x] - 1 BY <1>0, <2>5, <2>6, Zenon DEF TypeOK
    <3> QED BY <1>f, <1>i, <1>o, <3>1, <3>2, <3>3, <3>4 DEF Good
  <2>7. CASE x # e
    <3>1. S' = S /\ c \notin S BY <2>2, <2>3, <2>7, Zenon DEF Stopping
    <3>2. Live' => Live BY <1>c, <2>3, <2>4, <2>7, <3>1, Zenon DEF Live
    <3>3. credit'[x] = credit[x] BY <1>0, <2>5, <2>7, Zenon DEF TypeOK
    <3> QED BY <1>k, <3>1, <3>2, <3>3, Zenon
  <2> QED BY <2>6, <2>7, Zenon
<1>7. ASSUME NEW c \in Cpu, HandlerReturn(c) PROVE Good
  <2>1. \A d \in Cpu : stage'[d] = "stop" <=> stage[d] = "stop" BY <1>0, <1>7, Zenon DEF HandlerReturn, TypeOK
  <2> QED BY <1>7, <1>g, <2>1, Zenon DEF HandlerReturn
<1>8. ASSUME NEW c \in Cpu, HandlerExit(c) PROVE Good
  <2>1. \A d \in Cpu : stage'[d] = "stop" <=> stage[d] = "stop" BY <1>0, <1>8, Zenon DEF HandlerExit, TypeOK
  <2> QED BY <1>8, <1>g, <2>1, Zenon DEF HandlerExit
<1>9. ASSUME NEW c \in Cpu, TimerStart(c) \/ TimerStop(c) PROVE Good
  BY <1>9, <1>g, Zenon DEF TimerStart, TimerStop
<1>10. ASSUME Tick PROVE Good
  BY <1>10, <1>g, Zenon DEF Tick
<1> QED BY <1>1, <1>2, <1>3, <1>4, <1>5, <1>6, <1>7, <1>8, <1>9, <1>10, Zenon DEF Next, Handler, Operate

(* No more starts are counted for an event than were begun. *)
LEMMA CreditKeeps ==
  ASSUME TimerAssumption, TimerInv, Next
  PROVE  CreditInv'
<1>0. TypeOK /\ EventTypes /\ SeenInv /\ CreditInv BY Zenon DEF TimerInv, TypeOK, EventTypes
<1>t. TypeOK' BY ListsKeep, Zenon
<1> SUFFICES ASSUME NEW x \in Event PROVE credit'[x] + Cardinality(Pending(x)') <= begun'
  BY Zenon DEF CreditInv
<1> DEFINE P == Pending(x)
           Good == credit'[x] + Cardinality(P') <= begun'
<1>s. SUFFICES Good BY Zenon
<1>c. P \in SUBSET (Cpu \X Level) /\ P' \in SUBSET (Cpu \X Level) BY Zenon DEF Pending
<1>f. IsFiniteSet(P) /\ Cardinality(P) \in Nat /\ Cardinality(P') \in Nat BY <1>c, FiniteCounts, Zenon
<1>i. credit[x] + Cardinality(P) <= begun /\ credit[x] \in Nat /\ begun \in Nat BY <1>0 DEF CreditInv, TypeOK
<1>g. ASSUME UNCHANGED <<op, credit, begun>> PROVE Good BY <1>g, <1>i, Zenon DEF Pending
<1>m. None \notin Event BY Zenon DEF None, TimerAssumption
<1> HIDE DEF Good
<1>1. ASSUME NEW c \in Cpu, NEW l \in Level, NEW e \in Event, NEW duration \in Duration, Start(c, l, e, duration)
      PROVE  Good
  <2> DEFINE o == [event |-> e, expiry |-> now + duration]
  <2>1. op' = [op EXCEPT ![c][l] = o] /\ op[c][l].event = None /\ begun' = begun + 1 /\ credit' = credit
    BY <1>1 DEF Start, NoOp
  <2>2. o.event = e BY Zenon
  <2> HIDE DEF o
  <2>3. op'[c][l] = o /\ \A d \in Cpu, m \in Level : <<d, m>> # <<c, l>> => op'[d][m] = op[d][m]
    BY <1>0, <2>1, Zenon DEF TypeOK
  <2>4. <<c, l>> \notin P BY <1>m, <2>1, Zenon DEF Pending
  <2>5. CASE x = e
    <3>1. P' = P \cup {<<c, l>>} BY <2>2, <2>3, <2>5 DEF Pending
    <3>2. Cardinality(P \cup {<<c, l>>}) = Cardinality(P) + 1 BY <1>f, <2>4, FS_AddElement, Zenon
    <3> QED BY <1>f, <1>i, <2>1, <3>1, <3>2 DEF Good
  <2>6. CASE x # e
    <3>1. P' = P BY <2>2, <2>3, <2>4, <2>6 DEF Pending
    <3> QED BY <1>f, <1>i, <2>1, <3>1 DEF Good
  <2> QED BY <2>5, <2>6, Zenon
<1>2. ASSUME NEW c \in Cpu, NEW l \in Level, StartLocked(c, l) PROVE Good
  <2> DEFINE e == op[c][l].event
  <2>1. /\ op' = [op EXCEPT ![c][l] = NoOp] /\ begun' = begun
        /\ credit' = [credit EXCEPT ![e] = credit[e] + 1]
    BY <1>2, Zenon DEF StartLocked
  <2>2. op'[c][l] = NoOp /\ NoOp.event = None BY <1>0, <2>1, Zenon DEF TypeOK, NoOp
  <2>3. \A d \in Cpu, m \in Level : <<d, m>> # <<c, l>> => op'[d][m] = op[d][m]
    BY <1>0, <2>1, Zenon DEF TypeOK
  <2>4. <<c, l>> \notin P' BY <1>m, <2>2, Zenon DEF Pending
  <2>5. CASE x = e
    <3>1. <<c, l>> \in P /\ P' = P \ {<<c, l>>} BY <2>3, <2>4, <2>5 DEF Pending
    <3>2. Cardinality(P \ {<<c, l>>}) = Cardinality(P) - 1 BY <1>f, <3>1, FS_RemoveElement, Zenon
    <3>3. credit'[x] = credit[x] + 1 BY <1>0, <2>1, <2>5, Zenon DEF TypeOK
    <3> QED BY <1>f, <1>i, <2>1, <3>1, <3>2, <3>3 DEF Good
  <2>6. CASE x # e
    <3>1. P' = P BY <2>3, <2>4, <2>6 DEF Pending
    <3>2. credit'[x] = credit[x] BY <1>0, <2>1, <2>6, Zenon DEF TypeOK
    <3> QED BY <1>f, <1>i, <2>1, <3>1, <3>2, Zenon DEF Good
  <2> QED BY <2>5, <2>6, Zenon
<1>3. ASSUME NEW c \in Cpu, HandlerStop(c) PROVE Good
  <2> DEFINE e == seen[c].event
  <2>1. op' = op /\ begun' = begun /\ credit' = [credit EXCEPT ![e] = credit[e] - 1] BY <1>3, Zenon DEF HandlerStop
  <2>2. P' = P BY <2>1, Zenon DEF Pending
  <2>3. credit'[x] <= credit[x] /\ credit'[x] \in Nat
    <3>1. credit'[x] \in Nat BY <1>t DEF TypeOK
    <3>2. credit'[x] = IF x = e THEN credit[x] - 1 ELSE credit[x] BY <1>0, <2>1, Zenon DEF TypeOK
    <3> QED BY <1>i, <3>1, <3>2
  <2> QED BY <1>f, <1>i, <2>1, <2>2, <2>3 DEF Good
<1>4. ASSUME NEW c \in Cpu, NEW l \in Level, NEW e \in Event, Stop(c, l, e) PROVE Good
  BY <1>4, <1>g, Zenon DEF Stop
<1>5. ASSUME NEW c \in Cpu,
             Interrupt(c) \/ HandlerLook(c) \/ HandlerReturn(c) \/ HandlerExit(c) \/ TimerStart(c) \/ TimerStop(c)
      PROVE  Good
  BY <1>5, <1>g, Zenon DEF Interrupt, HandlerLook, HandlerReturn, HandlerExit, TimerStart, TimerStop
<1>6. ASSUME Tick PROVE Good
  BY <1>6, <1>g, Zenon DEF Tick
<1> QED BY <1>1, <1>2, <1>3, <1>4, <1>5, <1>6, Zenon DEF Next, Handler, Operate

(* The inductive invariant of the timers. *)
LEMMA TimerInvariant == Spec => []TimerInv
<1>1. Init => TimerInv BY InitTimer, TimerAssumption, Zenon
<1>2. TimerInv /\ [Next]_vars => TimerInv'
  <2> SUFFICES ASSUME TimerInv, [Next]_vars PROVE TimerInv' BY Zenon
  <2>1. CASE Next
    BY <2>1, ListsKeep, SeenKeeps, ArmedKeeps, CallKeeps, CreditKeeps, TimerAssumption, ZenonT(30) DEF TimerInv
  <2>2. CASE UNCHANGED vars
    BY <2>2 DEF TimerInv, TypeOK, Lists, FirstArmed, StopsExpired, SeenInv, CallInv, CreditInv, Stopping, Owed,
                Pending, vars, hostVars, eventVars
  <2> QED BY <2>1, <2>2, Zenon
<1> QED BY <1>1, <1>2, PTL DEF Spec

(* The lists of the host CPUs agree with the states of the events and are  *)
(* sorted, wherever events are started, moved and stopped.                 *)
THEOREM ListsSorted == Spec => []ListsAgree
<1>1. TimerInv => ListsAgree BY Zenon DEF TimerInv, ListsAgree, Lists, Sorted
<1> QED BY <1>1, TimerInvariant, PTL

(* A host CPU outside its handler has its chip programmed in time for its  *)
(* first event.                                                            *)
THEOREM ChipArmed == Spec => []FirstArmed
<1>1. TimerInv => FirstArmed BY Zenon DEF TimerInv
<1> QED BY <1>1, TimerInvariant, PTL

(* The handler of an event is called at most once for each start.          *)
THEOREM CalledOnce == Spec => []OncePerStart
<1>1. TimerInv => OncePerStart
  <2> SUFFICES ASSUME TimerInv, NEW e \in Event PROVE Cardinality(Stopping(e)) <= credit[e]
    BY Zenon DEF OncePerStart, Stopping
  <2>1. Stopping(e) \in SUBSET Cpu BY Zenon DEF Stopping
  <2>2. Cardinality(Stopping(e)) \in Nat BY <2>1, FiniteCounts, TimerAssumption, Zenon
  <2>3. Cardinality(Stopping(e)) + Owed(e) <= credit[e] /\ Owed(e) \in {0, 1} /\ credit[e] \in Nat
    BY DEF TimerInv, CallInv, Owed, TypeOK
  <2> QED BY <2>2, <2>3
<1> QED BY <1>1, TimerInvariant, PTL

(* An event that has not expired is stopped by the handler only if it was  *)
(* started again since the handler looked at the list.                     *)
THEOREM ExpiredStopped == Spec => []StopsExpired
<1>1. TimerInv => StopsExpired BY Zenon DEF TimerInv
<1> QED BY <1>1, TimerInvariant, PTL
=============================================================================
