------------------------------- MODULE Mutex --------------------------------
(***************************************************************************)
(* The recursive mutex of threads (core/vmm_mutex.c) over its waitqueue.   *)
(* The mutex is one of the resources of its owner, released by             *)
(* __vmm_mutex_cleanup() when the owner is destroyed.                      *)
(***************************************************************************)
EXTENDS WaitQueue

CONSTANTS NoVcpu,
          MaxDepth      \* bound on the nesting of locks of one owner

ASSUME MutexAssumption == NoVcpu \notin Thread /\ MaxDepth \in Nat \ {0}

VARIABLES lock, owner,  \* struct vmm_mutex
          res_head,     \* the threads whose list of resources has mut->res
          held          \* locks minus unlocks each thread was granted
mutVars == <<lock, owner, res_head, held>>
vars == <<wqVars, mutVars>>

Init ==
    /\ WaitQueueInit
    /\ lock = 0 /\ owner = NoVcpu /\ res_head = {}
    /\ held = [v \in Thread |-> 0]

(* The mutex is free, or the thread owns it already. *)
Acquire(v) ==
    /\ lock = 0
    /\ lock' = 1 /\ owner' = v
    /\ res_head' = res_head \cup {v}
    /\ held' = [held EXCEPT ![v] = @ + 1]
Again(v) ==
    /\ lock # 0 /\ owner = v /\ lock < MaxDepth
    /\ lock' = lock + 1
    /\ held' = [held EXCEPT ![v] = @ + 1]
    /\ UNCHANGED <<owner, res_head>>

(* vmm_mutex_trylock *)
Trylock(v) == Running(v) /\ (Acquire(v) \/ Again(v)) /\ UNCHANGED wqVars

(* The loop of mutex_lock_common sleeps while another thread has the lock; *)
(* with a resume pending and the time over it gives up instead.            *)
WaitTurn(v, timeout) ==
    /\ lock # 0 /\ owner # v
    /\ \/ SleepOn(v, timeout)
       \/ /\ resumed[v] /\ timeout = "timed"
          /\ resumed' = [resumed EXCEPT ![v] = FALSE]
          /\ sleep' = [sleep EXCEPT ![v] = "awake"]
          /\ UNCHANGED <<tstate, vcpu_list, late>>
    /\ UNCHANGED mutVars

(* vmm_mutex_lock and vmm_mutex_lock_timeout up to the first sleep *)
Lock(v, timeout) == Running(v) /\ (Trylock(v) \/ WaitTurn(v, timeout))

(* mutant: the lock is not looked at again after a sleep *)
RetryOnce(v) ==
    /\ Back(v) /\ Leave(v) /\ MaySucceed(v)
    /\ lock' = lock + 1 /\ owner' = IF lock = 0 THEN v ELSE owner
    /\ res_head' = IF lock = 0 THEN res_head \cup {v} ELSE res_head
    /\ held' = [held EXCEPT ![v] = @ + 1]
(* A sleep of mutex_lock_common has returned: success takes another turn   *)
(* of the loop, VMM_ETIMEDOUT ends the call.                               *)
Retry(v) ==
    /\ Back(v)
    /\ \/ MaySucceed(v) /\ Acquire(v) /\ Leave(v)
       \/ MaySucceed(v) /\ WaitTurn(v, sleep[v])
       \/ MayTimeOut(v) /\ Leave(v) /\ UNCHANGED mutVars

(* mutant: the last unlock wakes nobody *)
UnlockQuietly(v) ==
    /\ Running(v) /\ lock = 1 /\ owner = v
    /\ lock' = 0 /\ owner' = NoVcpu /\ res_head' = res_head \ {v}
    /\ held' = [held EXCEPT ![v] = @ - 1]
    /\ UNCHANGED wqVars
(* vmm_mutex_unlock, which does nothing unless the caller is the owner *)
Unlock(v) ==
    /\ Running(v) /\ lock # 0 /\ owner = v
    /\ lock' = lock - 1
    /\ held' = [held EXCEPT ![v] = @ - 1]
    /\ IF lock = 1
       THEN owner' = NoVcpu /\ res_head' = res_head \ {v} /\ WakeFirst
       ELSE UNCHANGED <<owner, res_head, wqVars>>

(* vmm_manager_vcpu_resource_flush of a thread that is destroyed, with     *)
(* __vmm_mutex_cleanup().                                                  *)
Cleanup(v) ==
    /\ tstate[v] = "RESET" /\ v \in res_head
    /\ res_head' = res_head \ {v}
    /\ held' = [held EXCEPT ![v] = 0]
    /\ IF lock # 0 /\ owner = v
       THEN lock' = 0 /\ owner' = NoVcpu /\ WakeAll
       ELSE UNCHANGED <<lock, owner, wqVars>>

Next ==
    \E v \in Thread :
      \/ Trylock(v) \/ Retry(v) \/ Unlock(v) \/ Cleanup(v)
      \/ \E timeout \in Timeouts : Lock(v, timeout)
      \/ (Background(v) \/ Finish(v) \/ Destroy(v)) /\ UNCHANGED mutVars

Spec == Init /\ [][Next]_vars

(* Threads that are READY are dispatched, and among those that spin for    *)
(* wq->lock one gets it.  Spinlocks are not fair, so no thread is promised *)
(* to be that one.                                                         *)
Fairness ==
    /\ \A v \in Thread : WF_vars(Dispatch(v) /\ UNCHANGED mutVars)
    /\ WF_vars(\E v \in Thread : Retry(v))
FairSpec == Spec /\ Fairness

-----------------------------------------------------------------------------
(* The counts never go below zero, and owner is a thread or NULL. *)
TypeOK ==
    /\ WaitQueueTypeOK
    /\ lock \in Nat /\ owner \in Thread \cup {NoVcpu}
    /\ res_head \subseteq Thread
    /\ held \in [Thread -> Nat]

(* Mutual exclusion: only the owner was ever granted the mutex, as often   *)
(* as lock counts, and the mutex is on the list of resources of its owner  *)
(* and of nobody else, so that destroying any other thread never frees it. *)
OwnerHolds ==
    /\ \A v \in Thread : held[v] = IF owner = v THEN lock ELSE 0
    /\ lock = 0 <=> owner = NoVcpu
    /\ res_head = {owner} \ {NoVcpu}

(* Threads sleep only while the mutex is taken: when it is free and a      *)
(* thread still sleeps, another one has been woken and will take it.       *)
NoLostWakeup == lock = 0 /\ vcpu_list # << >> => Woken # {}

(* A wake is lost only by a thread that was woken and did not lock: one    *)
(* whose time was over, or that was destroyed.                             *)
LostByLeaving == [][NoLostWakeup /\ ~NoLostWakeup' => WokenLeaves /\ owner' = NoVcpu]_vars

(* A mutex that is free while threads sleep is taken again. *)
FreeIsTaken == lock = 0 /\ vcpu_list # << >> ~> lock # 0 \/ vcpu_list = << >>
=============================================================================
