----------------------------- MODULE Completion -----------------------------
(***************************************************************************)
(* The completion (core/vmm_completion.c) over its waitqueue.  Unlike the  *)
(* mutex and the semaphore a waiter sleeps at most once: whatever ends its *)
(* sleep ends its wait.                                                    *)
(***************************************************************************)
EXTENDS WaitQueue, FiniteSets

CONSTANTS Waiter,       \* the threads that wait
          Width,        \* bits of cmpl->done
          MaxDone       \* bound on the signals that pile up

VARIABLE done           \* cmpl->done
vars == <<wqVars, done>>

Wrap(n) == n % 2^Width
All == (2^Width - 1) \div 2

Init == WaitQueueInit /\ done = 0

(* if (cmpl->done) cmpl->done--; *)
Consume == done' = IF done # 0 THEN done - 1 ELSE 0

(* completion_wait_common up to the sleep; a pending resume ends the wait  *)
(* at once.                                                                *)
Wait(v, timeout) ==
    /\ Running(v)
    /\ \/ done # 0 /\ Consume /\ UNCHANGED wqVars
       \/ done = 0 /\ ~resumed[v] /\ SleepOn(v, timeout) /\ UNCHANGED done
       \/ /\ done = 0 /\ resumed[v]
          /\ resumed' = [resumed EXCEPT ![v] = FALSE]
          /\ UNCHANGED <<tstate, sleep, vcpu_list, late, done>>
Return(v) == Back(v) /\ Leave(v) /\ Consume

(* mutant: the sleeper is not woken *)
SignalNobody == UNCHANGED wqVars
Signal == WakeFirst
(* vmm_completion_complete, _complete_once and _complete_all, from threads *)
(* and from handlers; REINIT_COMPLETION by a thread before it waits        *)
Complete == done + 1 <= MaxDone /\ done' = Wrap(done + 1) /\ Signal
CompleteOnce == done = 0 /\ done' = 1 /\ Signal
CompleteAll == done + All <= MaxDone /\ done' = Wrap(done + All) /\ WakeAll
Reinit(v) == Running(v) /\ done' = 0 /\ UNCHANGED wqVars

Next ==
    \/ \E v \in Waiter :
         \/ \E timeout \in Timeouts : Wait(v, timeout)
         \/ Return(v) \/ Reinit(v)
    \/ \E v \in Thread : (Background(v) \/ Destroy(v)) /\ UNCHANGED done
    \/ Complete \/ CompleteOnce \/ CompleteAll

Spec == Init /\ [][Next]_vars

-----------------------------------------------------------------------------
(* done stays within its width. *)
TypeOK == WaitQueueTypeOK /\ done \in 0 .. 2^Width - 1

(* As long as threads sleep, every signal that is not used up has a woken  *)
(* thread on its way to use it, even if the time of that thread is over.   *)
NoLostSignal == vcpu_list # << >> => done <= Cardinality(Woken)
=============================================================================
