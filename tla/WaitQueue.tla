----------------------------- MODULE WaitQueue ------------------------------
(***************************************************************************)
(* Threads (Orphan VCPUs) that sleep in one waitqueue                      *)
(* (core/vmm_waitqueue.c), as the mutex, the semaphore and the completion  *)
(* use it.  Every critical section of wq->lock is one action.  Scheduler   *)
(* shows how the lock is handed over when a thread goes to sleep and taken *)
(* again when it runs; here a thread leaves the CPU with the critical      *)
(* section that pauses it and comes back with the next one.                *)
(*                                                                         *)
(* What the thread does in __vmm_waitqueue_sleep() is sleep[v]: "awake"    *)
(* when it is not there, "forever" without a timeout, "timed" with one,    *)
(* "expired" when the timer event of that timeout has fired.               *)
(***************************************************************************)
EXTENDS List

CONSTANTS Thread,
          Timeouts,     \* the timeouts callers pass: {"forever", "timed"} or less
          Yields,       \* TRUE: threads may yield with preemption disabled
          Destroyable   \* the states in which threads are destroyed

ASSUME WaitQueueAssumption ==
    /\ Timeouts \subseteq {"forever", "timed"} /\ Yields \in BOOLEAN
    /\ Destroyable \subseteq {"PAUSED", "READY"}

VARIABLES tstate,       \* state of each thread
          resumed,      \* vcpu->resumed
          sleep,        \* where it is in __vmm_waitqueue_sleep()
          vcpu_list,    \* wq->vcpu_list
          late          \* its timer handler is on its way to wq->lock
wqVars == <<tstate, resumed, sleep, vcpu_list, late>>

InQueue == Linked(vcpu_list)

WaitQueueInit ==
    /\ tstate = [v \in Thread |-> "RUNNING"]
    /\ resumed = [v \in Thread |-> FALSE]
    /\ sleep = [v \in Thread |-> "awake"]
    /\ vcpu_list = << >>
    /\ late = [v \in Thread |-> FALSE]

(* The thread executes, outside or inside __vmm_waitqueue_sleep(). *)
Running(v) == tstate[v] = "RUNNING" /\ sleep[v] = "awake"
Back(v) == tstate[v] = "RUNNING" /\ sleep[v] # "awake"

(* __vmm_waitqueue_sleep: the thread links itself at the tail and pauses   *)
(* itself.  A pending resume is used up without sleeping, and callers that *)
(* loop then sleep in their next turn.                                     *)
SleepOn(v, timeout) ==
    /\ vcpu_list' = Append(vcpu_list, v)
    /\ tstate' = [tstate EXCEPT ![v] = "PAUSED"]
    /\ resumed' = [resumed EXCEPT ![v] = FALSE]
    /\ sleep' = [sleep EXCEPT ![v] = timeout]
    /\ UNCHANGED late

(* __vmm_waitqueue_sleep returns, and its caller does not sleep again. *)
Leave(v) ==
    /\ sleep' = [sleep EXCEPT ![v] = "awake"]
    /\ UNCHANGED <<tstate, resumed, vcpu_list, late>>

(* The return code: VMM_ETIMEDOUT once the time is over, whether or not    *)
(* the timer event fired before another wake.                              *)
MayTimeOut(v) == sleep[v] \in {"timed", "expired"}
MaySucceed(v) == sleep[v] \in {"forever", "timed"}

(* __vmm_waitqueue_wake of sleepers: each is made READY, and               *)
(* waitqueue_cleanup() stops its timer event and unlinks it.               *)
WakeThreads(W, rest) ==
    /\ tstate' = [v \in Thread |-> IF v \in W THEN "READY" ELSE tstate[v]]
    /\ vcpu_list' = rest
    /\ UNCHANGED <<resumed, sleep, late>>

(* __vmm_waitqueue_wakefirst, whose VMM_ENOENT its callers ignore, and     *)
(* __vmm_waitqueue_wakeall                                                 *)
WakeFirst ==
    IF vcpu_list = << >>
    THEN UNCHANGED wqVars
    ELSE WakeThreads({Head(vcpu_list)}, Tail(vcpu_list))
WakeAll == WakeThreads(InQueue, << >>)

(* The timer event of a sleep fires: only a linked thread has one, since   *)
(* waitqueue_cleanup() stops it.  The handler reads vcpu->wq_priv and goes *)
(* for wq->lock.                                                           *)
TimerFire(v) ==
    /\ v \in InQueue /\ sleep[v] = "timed" /\ ~late[v]
    /\ sleep' = [sleep EXCEPT ![v] = "expired"]
    /\ late' = [late EXCEPT ![v] = TRUE]
    /\ UNCHANGED <<tstate, resumed, vcpu_list>>

(* The handler gets the lock, in whatever state the thread is by then:     *)
(* a sleeper is woken, a RUNNING thread resumed, a READY one left alone.   *)
TimerWake(v) ==
    /\ late[v]
    /\ late' = [late EXCEPT ![v] = FALSE]
    /\ IF tstate[v] = "PAUSED"
       THEN /\ tstate' = [tstate EXCEPT ![v] = "READY"]
            /\ vcpu_list' = Unlink(vcpu_list, v)
            /\ UNCHANGED resumed
       ELSE /\ resumed' = [resumed EXCEPT ![v] = @ \/ tstate[v] = "RUNNING"]
            /\ UNCHANGED <<tstate, vcpu_list>>
    /\ UNCHANGED sleep

(* The handler finds vcpu->wq_priv NULL. *)
TimerDrop(v) ==
    /\ late[v] /\ sleep[v] = "awake"
    /\ late' = [late EXCEPT ![v] = FALSE]
    /\ UNCHANGED <<tstate, resumed, sleep, vcpu_list>>

(* The scheduler dispatches and preempts threads; it does not preempt one  *)
(* that waits for wq->lock on its way back, with interrupts disabled.      *)
Dispatch(v) ==
    /\ tstate[v] = "READY"
    /\ tstate' = [tstate EXCEPT ![v] = "RUNNING"]
    /\ resumed' = [resumed EXCEPT ![v] = FALSE]
    /\ UNCHANGED <<sleep, vcpu_list, late>>
Preempted(v) ==
    /\ Running(v)
    /\ tstate' = [tstate EXCEPT ![v] = "READY"]
    /\ UNCHANGED <<resumed, sleep, vcpu_list, late>>

(* vmm_scheduler_yield with preemption disabled: the flag stays. *)
YieldRefused(v) ==
    /\ Yields /\ Running(v) /\ ~resumed[v]
    /\ resumed' = [resumed EXCEPT ![v] = TRUE]
    /\ UNCHANGED <<tstate, sleep, vcpu_list, late>>

(* The thread function returns (vmm_threads_stop of itself). *)
Finish(v) ==
    /\ Running(v) /\ ~late[v]
    /\ tstate' = [tstate EXCEPT ![v] = "RESET"]
    /\ UNCHANGED <<resumed, sleep, vcpu_list, late>>

(* vmm_manager_vcpu_orphan_destroy of a thread that does not execute, up   *)
(* to its reset: vmm_waitqueue_forced_remove() unlinks a sleeper.          *)
Destroy(v) ==
    /\ tstate[v] \in Destroyable /\ ~late[v]
    /\ tstate' = [tstate EXCEPT ![v] = "RESET"]
    /\ resumed' = [resumed EXCEPT ![v] = FALSE]
    /\ vcpu_list' = Unlink(vcpu_list, v)
    /\ sleep' = [sleep EXCEPT ![v] = "awake"]
    /\ UNCHANGED late

(* The steps of the scheduler and of the timer. *)
Background(v) ==
    \/ TimerFire(v) \/ TimerWake(v) \/ TimerDrop(v)
    \/ Dispatch(v) \/ Preempted(v) \/ YieldRefused(v)

-----------------------------------------------------------------------------
WaitQueueTypeOK ==
    /\ tstate \in [Thread -> {"RUNNING", "READY", "PAUSED", "RESET"}]
    /\ resumed \in [Thread -> BOOLEAN]
    /\ sleep \in [Thread -> {"awake", "forever", "timed", "expired"}]
    /\ vcpu_list \in Seq(Thread)
    /\ late \in [Thread -> BOOLEAN]

(* The list holds exactly the threads that sleep, each once: no wake is    *)
(* spent on a thread that does not sleep and every sleeper can be found.   *)
SleepersLinked ==
    /\ \A v \in Thread : v \in InQueue <=> tstate[v] = "PAUSED"
    /\ Once(vcpu_list)
    /\ \A v \in Thread : tstate[v] = "PAUSED" => sleep[v] # "awake"

(* The threads on their way back from a sleep. *)
Woken == {v \in Thread : sleep[v] # "awake" /\ tstate[v] \in {"READY", "RUNNING"}}

(* A woken thread ends its sleep because its time is over, or is destroyed *)
(* before it runs.                                                         *)
WokenLeaves == \E v \in Woken : sleep'[v] = "awake" /\ (MayTimeOut(v) \/ tstate'[v] = "RESET")
=============================================================================
