---------------------------- MODULE MutexProofs -----------------------------
(***************************************************************************)
(* Proofs about Mutex, for every set of threads and every nesting depth:   *)
(* what the operations of a waitqueue do to the list of its sleepers, then *)
(* the mutex itself.                                                       *)
(***************************************************************************)
EXTENDS Mutex, ListProofs

Sleepers == WaitQueueTypeOK /\ SleepersLinked

(* A thread that executes links itself and sleeps. *)
LEMMA SleepOnKeeps ==
  ASSUME Sleepers, NEW v \in Thread, tstate[v] = "RUNNING", NEW timeout \in {"forever", "timed"},
         SleepOn(v, timeout)
  PROVE  Sleepers'
<1>1. vcpu_list \in Seq(Thread) /\ Once(vcpu_list) /\ v \notin Linked(vcpu_list)
  BY Zenon DEF Sleepers, WaitQueueTypeOK, SleepersLinked, InQueue
<1>2. /\ vcpu_list' \in Seq(Thread) /\ Once(vcpu_list')
      /\ Linked(vcpu_list') = Linked(vcpu_list) \cup {v}
  BY <1>1, AppendLinked DEF SleepOn
<1>3. WaitQueueTypeOK' BY <1>2, Zenon DEF Sleepers, WaitQueueTypeOK, SleepOn
<1>4. SleepersLinked' BY <1>2, Zenon DEF Sleepers, WaitQueueTypeOK, SleepersLinked, SleepOn, InQueue
<1> QED BY <1>3, <1>4, Zenon DEF Sleepers

(* Waking the first sleeper, and all of them. *)
LEMMA WakeKeeps ==
  ASSUME Sleepers
  PROVE  /\ WakeFirst => Sleepers' /\ (vcpu_list # << >> => Woken' # {})
         /\ WakeAll => Sleepers' /\ vcpu_list' = << >>
<1>1. vcpu_list \in Seq(Thread) /\ Once(vcpu_list)
  BY Zenon DEF Sleepers, WaitQueueTypeOK, SleepersLinked
<1>2. ASSUME WakeFirst PROVE Sleepers' /\ (vcpu_list # << >> => Woken' # {})
  <2>1. CASE vcpu_list = << >>
    BY <1>2, <2>1, Zenon DEF WakeFirst, wqVars, Sleepers, WaitQueueTypeOK, SleepersLinked, InQueue
  <2>2. CASE vcpu_list # << >>
    <3> DEFINE h == Head(vcpu_list)
    <3>1. /\ Tail(vcpu_list) \in Seq(Thread) /\ h \in Linked(vcpu_list) /\ h \in Thread
          /\ Linked(vcpu_list) = Linked(Tail(vcpu_list)) \cup {h}
          /\ Once(Tail(vcpu_list)) /\ h \notin Linked(Tail(vcpu_list))
      BY <1>1, <2>2, TailLinked, Zenon
    <3>2. /\ tstate' = [v \in Thread |-> IF v \in {h} THEN "READY" ELSE tstate[v]]
          /\ vcpu_list' = Tail(vcpu_list) /\ UNCHANGED <<resumed, sleep, late>>
      BY <1>2, <2>2, Zenon DEF WakeFirst, WakeThreads
    <3> HIDE DEF h
    <3>3. WaitQueueTypeOK' BY <3>1, <3>2, Zenon DEF Sleepers, WaitQueueTypeOK
    <3>4. SleepersLinked' BY <3>1, <3>2, Zenon DEF Sleepers, SleepersLinked, InQueue
    <3>5. h \in Woken' BY <3>1, <3>2, Zenon DEF Sleepers, SleepersLinked, InQueue, Woken
    <3> QED BY <3>3, <3>4, <3>5, Zenon DEF Sleepers
  <2> QED BY <2>1, <2>2, Zenon
<1>3. ASSUME WakeAll PROVE Sleepers' /\ vcpu_list' = << >>
  <2>1. Linked(<< >>) = {} /\ Once(<< >>) /\ << >> \in Seq(Thread) BY DEF Linked, Once
  <2>2. /\ tstate' = [v \in Thread |-> IF v \in InQueue THEN "READY" ELSE tstate[v]]
        /\ vcpu_list' = << >> /\ UNCHANGED <<resumed, sleep, late>>
    BY <1>3, Zenon DEF WakeAll, WakeThreads
  <2>3. WaitQueueTypeOK' BY <2>1, <2>2, Zenon DEF Sleepers, WaitQueueTypeOK
  <2>4. SleepersLinked' BY <2>1, <2>2, Zenon DEF Sleepers, SleepersLinked, InQueue
  <2> QED BY <2>2, <2>3, <2>4, Zenon DEF Sleepers
<1> QED BY <1>2, <1>3, Zenon

(* The timer, the scheduler and the end of a thread. *)
LEMMA BackgroundKeeps ==
  ASSUME Sleepers, NEW v \in Thread, Background(v) \/ Finish(v) \/ Destroy(v)
  PROVE  /\ Sleepers'
         /\ vcpu_list' # << >> => vcpu_list # << >>
         /\ Woken \subseteq Woken' \/ (Destroy(v) /\ v \in Woken)
<1>1. vcpu_list \in Seq(Thread) /\ Once(vcpu_list)
  BY Zenon DEF Sleepers, WaitQueueTypeOK, SleepersLinked
<1>2. /\ Unlink(vcpu_list, v) \in Seq(Thread) /\ Once(Unlink(vcpu_list, v))
      /\ Linked(Unlink(vcpu_list, v)) = Linked(vcpu_list) \ {v}
  BY <1>1, UnlinkLinked
<1>3. Unlink(vcpu_list, v) # << >> => vcpu_list # << >>
  BY <1>1 DEF Unlink, Linked
<1>4. CASE TimerFire(v)
  BY <1>4, Zenon DEF TimerFire, Sleepers, WaitQueueTypeOK, SleepersLinked, InQueue, Woken
<1>5. CASE TimerWake(v)
  <2>1. CASE tstate[v] = "PAUSED"
    <3>1. /\ late' = [late EXCEPT ![v] = FALSE] /\ tstate' = [tstate EXCEPT ![v] = "READY"]
          /\ vcpu_list' = Unlink(vcpu_list, v) /\ UNCHANGED <<resumed, sleep>>
      BY <1>5, <2>1, Zenon DEF TimerWake
    <3>2. WaitQueueTypeOK' BY <1>2, <3>1, Zenon DEF Sleepers, WaitQueueTypeOK
    <3>3. SleepersLinked' BY <1>2, <3>1, Zenon DEF Sleepers, WaitQueueTypeOK, SleepersLinked, InQueue
    <3>4. Woken \subseteq Woken' BY <3>1, Zenon DEF Sleepers, WaitQueueTypeOK, Woken
    <3> QED BY <1>3, <3>1, <3>2, <3>3, <3>4, Zenon DEF Sleepers
  <2>2. CASE tstate[v] # "PAUSED"
    <3>1. /\ late' = [late EXCEPT ![v] = FALSE] /\ UNCHANGED <<tstate, vcpu_list, sleep>>
          /\ resumed' = [resumed EXCEPT ![v] = @ \/ tstate[v] = "RUNNING"]
      BY <1>5, <2>2, Zenon DEF TimerWake
    <3>2. resumed' \in [Thread -> BOOLEAN] BY <3>1, Zenon DEF Sleepers, WaitQueueTypeOK
    <3>3. WaitQueueTypeOK' BY <3>1, <3>2, Zenon DEF Sleepers, WaitQueueTypeOK
    <3> QED BY <3>1, <3>3, Zenon DEF Sleepers, SleepersLinked, InQueue, Woken
  <2> QED BY <2>1, <2>2, Zenon
<1>6. CASE TimerDrop(v)
  BY <1>6, Zenon DEF TimerDrop, Sleepers, WaitQueueTypeOK, SleepersLinked, InQueue, Woken
<1>7. CASE Dispatch(v)
  BY <1>7, Zenon DEF Dispatch, Sleepers, WaitQueueTypeOK, SleepersLinked, InQueue, Woken
<1>8. CASE Preempted(v)
  BY <1>8, Zenon DEF Preempted, Running, Sleepers, WaitQueueTypeOK, SleepersLinked, InQueue, Woken
<1>9. CASE YieldRefused(v)
  BY <1>9, Zenon DEF YieldRefused, Sleepers, WaitQueueTypeOK, SleepersLinked, InQueue, Woken
<1>10. CASE Finish(v)
  BY <1>10, Zenon DEF Finish, Running, Sleepers, WaitQueueTypeOK, SleepersLinked, InQueue, Woken
<1>11. CASE Destroy(v)
  <2>1. /\ tstate' = [tstate EXCEPT ![v] = "RESET"] /\ resumed' = [resumed EXCEPT ![v] = FALSE]
        /\ vcpu_list' = Unlink(vcpu_list, v) /\ sleep' = [sleep EXCEPT ![v] = "awake"]
        /\ UNCHANGED late
    BY <1>11, Zenon DEF Destroy
  <2>2. WaitQueueTypeOK' BY <1>2, <2>1, Zenon DEF Sleepers, WaitQueueTypeOK
  <2>3. SleepersLinked' BY <1>2, <2>1, Zenon DEF Sleepers, WaitQueueTypeOK, SleepersLinked, InQueue
  <2>4. v \notin Woken => Woken \subseteq Woken' BY <2>1, Zenon DEF Sleepers, WaitQueueTypeOK, Woken
  <2> QED BY <1>3, <1>11, <2>1, <2>2, <2>3, <2>4, Zenon DEF Sleepers
<1> QED BY <1>4, <1>5, <1>6, <1>7, <1>8, <1>9, <1>10, <1>11, Zenon DEF Background

-----------------------------------------------------------------------------
(* The inductive invariant: what the list of the waitqueue holds and who   *)
(* owns the mutex.                                                         *)
MutexInv == TypeOK /\ SleepersLinked /\ OwnerHolds

(* It holds of a free mutex without sleepers. *)
LEMMA MutexInit == Init => MutexInv
<1> SUFFICES ASSUME Init PROVE MutexInv
  BY Zenon
<1>1. Linked(<< >>) = {} /\ Once(<< >>) /\ << >> \in Seq(Thread) BY DEF Linked, Once
<1>2. NoVcpu \notin Thread BY MutexAssumption, Zenon
<1>3. TypeOK BY <1>1, Zenon DEF Init, WaitQueueInit, TypeOK, WaitQueueTypeOK
<1>4. SleepersLinked BY <1>1, Zenon DEF Init, WaitQueueInit, SleepersLinked, InQueue
<1>5. OwnerHolds BY <1>2, Zenon DEF Init, OwnerHolds
<1> QED BY <1>3, <1>4, <1>5, Zenon DEF MutexInv

(* A turn of the loop of mutex_lock_common keeps the invariant. *)
LEMMA TurnKeeps ==
  ASSUME MutexInv, NEW v \in Thread, tstate[v] = "RUNNING", NEW timeout \in {"forever", "timed"}
  PROVE  /\ WaitTurn(v, timeout) => MutexInv'
         /\ Acquire(v) /\ (UNCHANGED wqVars \/ Leave(v)) => MutexInv' /\ lock' # 0
         /\ Again(v) /\ UNCHANGED wqVars => MutexInv' /\ lock' # 0
<1>s. Sleepers BY Zenon DEF MutexInv, TypeOK, Sleepers
<1>n. NoVcpu \notin Thread BY MutexAssumption, Zenon
<1>1. ASSUME WaitTurn(v, timeout) PROVE MutexInv'
  <2>1. Sleepers'
    <3>1. CASE SleepOn(v, timeout) BY <1>s, <3>1, SleepOnKeeps, Zenon
    <3>2. CASE ~SleepOn(v, timeout)
      <4>1. /\ resumed' = [resumed EXCEPT ![v] = FALSE]
            /\ sleep' = [sleep EXCEPT ![v] = "awake"]
            /\ UNCHANGED <<tstate, vcpu_list, late>>
        BY <1>1, <3>2, Zenon DEF WaitTurn
      <4> QED BY <1>s, <4>1, Zenon DEF Sleepers, WaitQueueTypeOK, SleepersLinked, InQueue
    <3> QED BY <3>1, <3>2, Zenon
  <2>2. UNCHANGED <<lock, owner, res_head, held>> BY <1>1, Zenon DEF WaitTurn, mutVars
  <2> QED BY <2>1, <2>2, Zenon DEF MutexInv, TypeOK, OwnerHolds, Sleepers
<1>2. ASSUME UNCHANGED wqVars \/ Leave(v) PROVE Sleepers'
  <2>1. CASE UNCHANGED wqVars
    BY <1>s, <2>1, Zenon DEF wqVars, Sleepers, WaitQueueTypeOK, SleepersLinked, InQueue
  <2>2. CASE Leave(v)
    BY <1>s, <2>2, Zenon DEF Leave, Sleepers, WaitQueueTypeOK, SleepersLinked, InQueue
  <2> QED BY <1>2, <2>1, <2>2, Zenon
<1>3. ASSUME Acquire(v), UNCHANGED wqVars \/ Leave(v) PROVE MutexInv' /\ lock' # 0
  <2>1. Sleepers' BY <1>2, <1>3, Zenon
  <2>2. OwnerHolds' /\ lock' # 0 BY <1>3, <1>n DEF Acquire, MutexInv, TypeOK, OwnerHolds
  <2>3. /\ lock' \in Nat /\ owner' \in Thread \cup {NoVcpu} /\ res_head' \subseteq Thread
        /\ held' \in [Thread -> Nat]
    BY <1>3 DEF Acquire, MutexInv, TypeOK
  <2> QED BY <2>1, <2>2, <2>3, Zenon DEF MutexInv, TypeOK, Sleepers
<1>4. ASSUME Again(v), UNCHANGED wqVars PROVE MutexInv' /\ lock' # 0
  <2>1. Sleepers' BY <1>2, <1>4, Zenon
  <2>2. OwnerHolds' /\ lock' # 0 BY <1>4, <1>n DEF Again, MutexInv, TypeOK, OwnerHolds
  <2>3. /\ lock' \in Nat /\ owner' \in Thread \cup {NoVcpu} /\ res_head' \subseteq Thread
        /\ held' \in [Thread -> Nat]
    BY <1>4 DEF Again, MutexInv, TypeOK
  <2> QED BY <2>1, <2>2, <2>3, Zenon DEF MutexInv, TypeOK, Sleepers
<1> QED BY <1>1, <1>3, <1>4, Zenon

(* A step that ends with no thread woken, a sleeper and the mutex free     *)
(* starts like that, or is that of a woken thread that leaves.             *)
WakeStep == NoLostWakeup => NoLostWakeup' \/ (WokenLeaves /\ owner' = NoVcpu)

(* Every step keeps the invariant, and loses a wake only by leaving. *)
LEMMA MutexNext == MutexInv /\ [Next]_vars => MutexInv' /\ WakeStep
<1> SUFFICES ASSUME MutexInv, [Next]_vars PROVE MutexInv' /\ WakeStep
  BY Zenon
<1>s. Sleepers BY Zenon DEF MutexInv, TypeOK, Sleepers
<1>n. NoVcpu \notin Thread BY MutexAssumption, Zenon
<1>t. Timeouts \subseteq {"forever", "timed"} BY WaitQueueAssumption, Zenon
<1>1. CASE UNCHANGED vars
  BY <1>1, Zenon DEF vars, wqVars, mutVars, MutexInv, TypeOK, WaitQueueTypeOK, SleepersLinked, InQueue,
              OwnerHolds, WakeStep, NoLostWakeup, Woken
<1>2. ASSUME NEW v \in Thread, Trylock(v) PROVE MutexInv' /\ WakeStep
  <2>1. tstate[v] = "RUNNING" BY <1>2, Zenon DEF Trylock, Running
  <2>2. MutexInv' /\ lock' # 0 BY <1>2, <2>1, TurnKeeps, Zenon DEF Trylock
  <2> QED BY <2>2, Zenon DEF WakeStep, NoLostWakeup
<1>3. ASSUME NEW v \in Thread, NEW timeout \in {"forever", "timed"},
             tstate[v] = "RUNNING", WaitTurn(v, timeout)
      PROVE  MutexInv' /\ WakeStep
  <2>1. MutexInv' BY <1>3, TurnKeeps, Zenon
  <2>2. lock' # 0 BY <1>3, Zenon DEF WaitTurn, mutVars
  <2> QED BY <2>1, <2>2, Zenon DEF WakeStep, NoLostWakeup
<1>4. ASSUME NEW v \in Thread, NEW timeout \in Timeouts, Lock(v, timeout) PROVE MutexInv' /\ WakeStep
  BY <1>2, <1>3, <1>4, <1>t, Zenon DEF Lock, Running
<1>5. ASSUME NEW v \in Thread, Retry(v) PROVE MutexInv' /\ WakeStep
  <2>1. tstate[v] = "RUNNING" /\ sleep[v] # "awake" BY <1>5, Zenon DEF Retry, Back
  <2>2. CASE MaySucceed(v) /\ Acquire(v) /\ Leave(v)
    BY <2>1, <2>2, TurnKeeps, Zenon DEF WakeStep, NoLostWakeup
  <2>3. CASE MaySucceed(v) /\ WaitTurn(v, sleep[v])
    <3>1. sleep[v] \in {"forever", "timed"} BY <2>3, Zenon DEF MaySucceed
    <3> QED BY <1>3, <2>1, <2>3, <3>1, Zenon
  <2>4. CASE MayTimeOut(v) /\ Leave(v) /\ UNCHANGED mutVars
    <3>1. /\ sleep' = [sleep EXCEPT ![v] = "awake"]
          /\ UNCHANGED <<tstate, resumed, vcpu_list, late, lock, owner, res_head, held>>
      BY <2>4, Zenon DEF Leave, mutVars
    <3>2. MutexInv'
      BY <2>1, <3>1, Zenon DEF MutexInv, TypeOK, WaitQueueTypeOK, SleepersLinked, InQueue, OwnerHolds
    <3>3. v \in Woken /\ sleep'[v] = "awake" BY <2>1, <3>1, Zenon DEF Woken, MutexInv, TypeOK, WaitQueueTypeOK
    <3>4. WokenLeaves BY <2>4, <3>3, Zenon DEF WokenLeaves
    <3>5. lock = 0 => owner' = NoVcpu BY <3>1, Zenon DEF MutexInv, OwnerHolds
    <3>6. lock # 0 => NoLostWakeup' BY <3>1, Zenon DEF NoLostWakeup
    <3> QED BY <3>2, <3>4, <3>5, <3>6, Zenon DEF WakeStep
  <2> QED BY <1>5, <2>2, <2>3, <2>4, Zenon DEF Retry
<1>6. ASSUME NEW v \in Thread, Unlock(v) PROVE MutexInv' /\ WakeStep
  <2>1. /\ lock # 0 /\ owner = v /\ lock' = lock - 1 /\ held' = [held EXCEPT ![v] = @ - 1]
        /\ lock \in Nat /\ held[v] = lock /\ res_head = {v}
    BY <1>6, <1>n, Zenon DEF Unlock, MutexInv, TypeOK, OwnerHolds
  <2>2. lock' \in Nat /\ held' \in [Thread -> Nat] BY <2>1 DEF MutexInv, TypeOK
  <2>3. CASE lock = 1
    <3>1. owner' = NoVcpu /\ res_head' = res_head \ {v} /\ WakeFirst BY <1>6, <2>3, Zenon DEF Unlock
    <3>2. Sleepers' /\ (vcpu_list # << >> => Woken' # {}) BY <1>s, <3>1, WakeKeeps, Zenon
    <3>3. OwnerHolds' BY <1>n, <2>1, <2>3, <3>1 DEF MutexInv, TypeOK, OwnerHolds
    <3>4. vcpu_list' # << >> => vcpu_list # << >> BY <3>1, Zenon DEF WakeFirst, wqVars
    <3>5. NoLostWakeup' BY <3>2, <3>4, Zenon DEF NoLostWakeup
    <3> QED BY <2>2, <3>1, <3>2, <3>3, <3>5, Zenon DEF MutexInv, TypeOK, Sleepers, WakeStep
  <2>4. CASE lock # 1
    <3>1. UNCHANGED <<owner, res_head, tstate, resumed, sleep, vcpu_list, late>>
      BY <1>6, <2>4, Zenon DEF Unlock, wqVars
    <3>2. OwnerHolds' BY <1>n, <2>1, <2>4, <3>1 DEF MutexInv, TypeOK, OwnerHolds
    <3>3. Sleepers' BY <1>s, <3>1, Zenon DEF Sleepers, WaitQueueTypeOK, SleepersLinked, InQueue
    <3>4. lock' # 0 BY <2>1, <2>4
    <3> QED BY <2>2, <3>1, <3>2, <3>3, <3>4, Zenon DEF MutexInv, TypeOK, Sleepers, WakeStep, NoLostWakeup
  <2> QED BY <2>3, <2>4, Zenon
<1>7. ASSUME NEW v \in Thread, Cleanup(v) PROVE MutexInv' /\ WakeStep
  <2>1. /\ v \in res_head /\ res_head' = res_head \ {v} /\ held' = [held EXCEPT ![v] = 0]
        /\ owner = v /\ lock # 0
    BY <1>7, <1>n, Zenon DEF Cleanup, MutexInv, TypeOK, OwnerHolds
  <2>2. lock' = 0 /\ owner' = NoVcpu /\ WakeAll BY <1>7, <2>1, Zenon DEF Cleanup
  <2>3. Sleepers' /\ vcpu_list' = << >> BY <1>s, <2>2, WakeKeeps, Zenon
  <2>4. OwnerHolds' BY <1>n, <2>1, <2>2, Zenon DEF MutexInv, TypeOK, OwnerHolds
  <2>5. held' \in [Thread -> Nat] BY <2>1, Zenon DEF MutexInv, TypeOK
  <2> QED BY <2>1, <2>2, <2>3, <2>4, <2>5, Zenon DEF MutexInv, TypeOK, Sleepers, WakeStep, NoLostWakeup
<1>8. ASSUME NEW v \in Thread, Background(v) \/ Finish(v) \/ Destroy(v), UNCHANGED mutVars
      PROVE  MutexInv' /\ WakeStep
  <2>1. UNCHANGED <<lock, owner, res_head, held>> BY <1>8, Zenon DEF mutVars
  <2>2. /\ Sleepers' /\ (vcpu_list' # << >> => vcpu_list # << >>)
        /\ Woken \subseteq Woken' \/ (Destroy(v) /\ v \in Woken)
    BY <1>s, <1>8, BackgroundKeeps, Zenon
  <2>3. MutexInv' BY <2>1, <2>2, Zenon DEF MutexInv, TypeOK, OwnerHolds, Sleepers
  <2>4. Woken \subseteq Woken' => WakeStep BY <2>1, <2>2, Zenon DEF WakeStep, NoLostWakeup
  <2>5. ASSUME Destroy(v), v \in Woken PROVE WakeStep
    <3>1. sleep'[v] = "awake" /\ tstate'[v] = "RESET"
      BY <1>s, <2>5, Zenon DEF Destroy, Sleepers, WaitQueueTypeOK
    <3>2. WokenLeaves BY <2>5, <3>1, Zenon DEF WokenLeaves
    <3>3. lock = 0 => owner' = NoVcpu BY <2>1, Zenon DEF MutexInv, OwnerHolds
    <3> QED BY <2>1, <3>2, <3>3, Zenon DEF WakeStep, NoLostWakeup
  <2> QED BY <2>2, <2>3, <2>4, <2>5, Zenon
<1> QED BY <1>1, <1>2, <1>4, <1>5, <1>6, <1>7, <1>8, Zenon DEF Next

(* Mutual exclusion: however threads lock, time out, unlock, end and are   *)
(* destroyed, only the owner has been granted the mutex, as often as lock  *)
(* counts.                                                                 *)
THEOREM MutualExclusion == Spec => [](OwnerHolds /\ SleepersLinked /\ TypeOK)
<1>1. Init => MutexInv BY MutexInit, Zenon
<1>2. MutexInv /\ [Next]_vars => MutexInv' BY MutexNext, Zenon
<1>3. MutexInv => OwnerHolds /\ SleepersLinked /\ TypeOK BY Zenon DEF MutexInv
<1> QED BY <1>1, <1>2, <1>3, PTL DEF Spec

(* An unlock or the end of the owner always reaches a sleeper: a wake is   *)
(* lost only by a woken thread whose time is over or that is destroyed.    *)
THEOREM WakesReach == Spec => LostByLeaving
<1>1. Init => MutexInv BY MutexInit, Zenon
<1>2. MutexInv /\ [Next]_vars => MutexInv' BY MutexNext, Zenon
<1>3. MutexInv /\ [Next]_vars
        => [NoLostWakeup /\ ~NoLostWakeup' => WokenLeaves /\ owner' = NoVcpu]_vars
  BY MutexNext, Zenon DEF WakeStep
<1> QED BY <1>1, <1>2, <1>3, PTL DEF Spec, LostByLeaving

(* Without timeouts, and as long as woken threads are not destroyed, the   *)
(* mutex is never free while all threads that wait for it sleep.           *)
THEOREM NoWakeLost ==
  ASSUME Timeouts \subseteq {"forever"}, Destroyable \subseteq {"PAUSED"}
  PROVE  Spec => []NoLostWakeup
<1> DEFINE Untimed == \A v \in Thread : sleep[v] \in {"awake", "forever"}
           Inv == MutexInv /\ Untimed /\ NoLostWakeup
<1>1. Init => Inv
  <2>1. Init => Untimed /\ NoLostWakeup BY Zenon DEF Init, WaitQueueInit, NoLostWakeup
  <2> QED BY <2>1, MutexInit, Zenon
<1>2. Inv /\ [Next]_vars => Inv'
  <2> SUFFICES ASSUME Inv, [Next]_vars PROVE Inv'
    BY Zenon
  <2>1. MutexInv' /\ WakeStep BY MutexNext, Zenon
  <2>2. Untimed'
    <3>1. \A v \in Thread : sleep[v] \in {"awake", "forever"} /\ sleep \in [Thread -> {"awake", "forever", "timed", "expired"}]
      BY Zenon DEF MutexInv, TypeOK, WaitQueueTypeOK
    <3>2. \/ UNCHANGED sleep
          \/ \E v \in Thread : sleep' = [sleep EXCEPT ![v] = "awake"]
          \/ \E v \in Thread : sleep' = [sleep EXCEPT ![v] = "forever"]
      <4>1. ASSUME NEW v \in Thread, NEW timeout \in {"forever"}, WaitTurn(v, timeout)
            PROVE  \/ sleep' = [sleep EXCEPT ![v] = "awake"]
                   \/ sleep' = [sleep EXCEPT ![v] = "forever"]
        BY <4>1, Zenon DEF WaitTurn, SleepOn
      <4>2. ASSUME NEW v \in Thread, Retry(v)
            PROVE  \/ sleep' = [sleep EXCEPT ![v] = "awake"]
                   \/ sleep' = [sleep EXCEPT ![v] = "forever"]
        <5>1. CASE Leave(v) BY <5>1, Zenon DEF Leave
        <5>2. CASE MaySucceed(v) /\ WaitTurn(v, sleep[v]) BY <3>1, <4>1, <5>2, Zenon DEF MaySucceed
        <5> QED BY <4>2, <5>1, <5>2, Zenon DEF Retry
      <4>3. ASSUME NEW v \in Thread, NEW timeout \in Timeouts, Lock(v, timeout)
            PROVE  \/ UNCHANGED sleep
                   \/ sleep' = [sleep EXCEPT ![v] = "awake"]
                   \/ sleep' = [sleep EXCEPT ![v] = "forever"]
        BY <4>1, <4>3, Zenon DEF Lock, Trylock, wqVars
      <4>4. ASSUME NEW v \in Thread, Trylock(v) \/ Unlock(v) \/ Cleanup(v) PROVE UNCHANGED sleep
        BY <4>4, Zenon DEF Trylock, Unlock, Cleanup, WakeFirst, WakeAll, WakeThreads, wqVars
      <4>5. ASSUME NEW v \in Thread, Background(v) \/ Finish(v) \/ Destroy(v)
            PROVE  UNCHANGED sleep \/ sleep' = [sleep EXCEPT ![v] = "awake"]
        BY <3>1, <4>5, Zenon DEF Background, TimerFire, TimerWake, TimerDrop, Dispatch, Preempted,
                          YieldRefused, Finish, Destroy
      <4> QED BY <4>2, <4>3, <4>4, <4>5, Zenon DEF Next, vars, wqVars
    <3> QED BY <3>1, <3>2, Zenon
  <2>3. ASSUME WokenLeaves PROVE FALSE
    <3>1. PICK v \in Woken : MayTimeOut(v) \/ tstate'[v] = "RESET" BY <2>3, Zenon DEF WokenLeaves
    <3>2. v \in Thread /\ sleep[v] # "awake" /\ tstate[v] \in {"READY", "RUNNING"} BY Zenon DEF Woken
    <3>3. tstate'[v] = "RESET" BY <3>1, <3>2, Zenon DEF MayTimeOut
    <3>4. tstate \in [Thread -> {"RUNNING", "READY", "PAUSED", "RESET"}]
      BY Zenon DEF MutexInv, TypeOK, WaitQueueTypeOK
    <3>5. ASSUME NEW u \in Thread, Background(u) \/ Finish(u) \/ Destroy(u) PROVE FALSE
      <4>1. CASE Background(u)
        BY <3>2, <3>3, <3>4, <4>1, Zenon DEF Background, TimerFire, TimerWake, TimerDrop, Dispatch,
                                      Preempted, YieldRefused
      <4>2. CASE Finish(u) BY <3>2, <3>3, <3>4, <4>2, Zenon DEF Finish, Running
      <4>3. CASE Destroy(u) BY <3>2, <3>3, <3>4, <4>3, Zenon DEF Destroy
      <4> QED BY <3>5, <4>1, <4>2, <4>3, Zenon
    <3>6. ASSUME NEW u \in Thread, NEW timeout, WaitTurn(u, timeout) PROVE FALSE
      BY <3>2, <3>3, <3>4, <3>6, Zenon DEF WaitTurn, SleepOn
    <3>7. ASSUME NEW u \in Thread, Trylock(u) \/ Retry(u) PROVE FALSE
      BY <3>2, <3>3, <3>6, <3>7, Zenon DEF Trylock, Retry, Leave, wqVars
    <3>8. ASSUME NEW u \in Thread, Unlock(u) \/ Cleanup(u) PROVE FALSE
      <4>1. UNCHANGED tstate \/ \E W : tstate' = [w \in Thread |-> IF w \in W THEN "READY" ELSE tstate[w]]
        BY <3>8, Zenon DEF Unlock, Cleanup, WakeFirst, WakeAll, WakeThreads, wqVars
      <4> QED BY <3>2, <3>3, <4>1, Zenon
    <3>9. ASSUME NEW u \in Thread, NEW timeout \in Timeouts, Lock(u, timeout) PROVE FALSE
      BY <3>6, <3>7, <3>9, Zenon DEF Lock
    <3>10. ~UNCHANGED vars BY <3>2, <3>3, Zenon DEF vars, wqVars
    <3> QED BY <3>5, <3>7, <3>8, <3>9, <3>10, Zenon DEF Next
  <2> QED BY <2>1, <2>2, <2>3, Zenon DEF WakeStep
<1>3. Inv => NoLostWakeup BY Zenon
<1> QED BY <1>1, <1>2, <1>3, PTL DEF Spec
=============================================================================
