----------------------------- MODULE Semaphore ------------------------------
(***************************************************************************)
(* The counting semaphore (core/vmm_semaphore.c) over its waitqueue.  What *)
(* a thread has taken is recorded in a resource that the semaphore and the *)
(* thread both list, and is given back when the thread is destroyed.       *)
(***************************************************************************)
EXTENDS WaitQueue, FiniteSets, Functions

CONSTANTS NoVcpu,
          limit, InitValue      \* sem->limit and the value it starts with

VARIABLES value,        \* sem->value
          res_list,     \* sem->res_list, one resource for each thread in it
          count,        \* sres->count
          res_head,     \* the threads whose list of resources has their sres
          flushed       \* the threads whose sres is off that list, to be freed
semVars == <<value, res_list, count, res_head, flushed>>
vars == <<wqVars, semVars>>

Init ==
    /\ WaitQueueInit
    /\ value = InitValue /\ res_list = << >>
    /\ count = [v \in Thread |-> 0]
    /\ res_head = {} /\ flushed = {}

Has(v) == v \in Linked(res_list)
FreeResource(v) == res_list' = Unlink(res_list, v)

(* semaphore_down_common with the value above zero *)
Take(v) ==
    /\ value # 0
    /\ value' = value - 1
    /\ count' = [count EXCEPT ![v] = @ + 1]
    /\ res_list' = IF Has(v) THEN res_list ELSE Append(res_list, v)
    /\ res_head' = res_head \cup {v}
    /\ UNCHANGED flushed

(* mutant: the sleeper does not look at the value again *)
SleepIfFirst(v, timeout) ==
    /\ value = 0 \/ sleep[v] # "awake"
    /\ SleepOn(v, timeout) /\ UNCHANGED semVars
(* It sleeps while the value is zero; with a resume pending and the time   *)
(* over it gives up instead.                                               *)
WaitTurn(v, timeout) ==
    /\ value = 0
    /\ \/ SleepOn(v, timeout)
       \/ /\ resumed[v] /\ timeout = "timed"
          /\ resumed' = [resumed EXCEPT ![v] = FALSE]
          /\ sleep' = [sleep EXCEPT ![v] = "awake"]
          /\ UNCHANGED <<tstate, vcpu_list, late>>
    /\ UNCHANGED semVars

(* vmm_semaphore_down and vmm_semaphore_down_timeout up to the first sleep *)
Down(v, timeout) ==
    /\ Running(v)
    /\ (Take(v) /\ UNCHANGED wqVars) \/ WaitTurn(v, timeout)
Retry(v) ==
    /\ Back(v)
    /\ \/ MaySucceed(v) /\ Take(v) /\ Leave(v)
       \/ MaySucceed(v) /\ WaitTurn(v, sleep[v])
       \/ MayTimeOut(v) /\ Leave(v) /\ UNCHANGED semVars

(* mutant: what is given back is not charged to anybody *)
ChargeNobody(u) == NoVcpu
(* The resource that up() charges: the caller's or else the first one. *)
Charged(u) == IF Has(u) THEN u ELSE IF res_list = << >> THEN NoVcpu ELSE Head(res_list)

(* vmm_semaphore_up, called with u the current VCPU: a thread, or NoVcpu   *)
(* for one that has taken nothing.  Assumed: nobody else gives back for a  *)
(* thread that is just flushed, whose resource would be freed twice.       *)
Up(u) ==
    LET s == Charged(u) IN
    /\ u # NoVcpu => Running(u)
    /\ s \notin flushed
    /\ value < limit
    /\ value' = value + 1
    /\ IF s = NoVcpu
       THEN UNCHANGED <<count, res_list, res_head>>
       ELSE /\ count' = [count EXCEPT ![s] = IF @ = 0 THEN 0 ELSE @ - 1]
            /\ IF count[s] > 1
               THEN UNCHANGED <<res_list, res_head>>
               ELSE FreeResource(s) /\ res_head' = res_head \ {s}
    /\ WakeFirst
    /\ UNCHANGED flushed

(* vmm_manager_vcpu_resource_flush of a thread that is destroyed takes the *)
(* resource off the list, then __vmm_semaphore_cleanup() gives back what   *)
(* the thread had taken and frees the resource.                            *)
Flush(v) ==
    /\ tstate[v] = "RESET" /\ v \in res_head
    /\ res_head' = res_head \ {v}
    /\ flushed' = flushed \cup {v}
    /\ UNCHANGED <<value, res_list, count, wqVars>>
(* mutant: what the thread had taken is lost *)
GivenBackLost(v) == value
GivenBack(v) == value + count[v]
Cleanup(v) ==
    LET back == GivenBack(v) IN
    /\ v \in flushed
    /\ flushed' = flushed \ {v}
    /\ value' = IF back > limit THEN limit ELSE back
    /\ count' = [count EXCEPT ![v] = 0]
    /\ FreeResource(v)
    /\ IF count[v] # 0 THEN WakeAll ELSE UNCHANGED wqVars
    /\ UNCHANGED res_head

Next ==
    \/ \E v \in Thread :
         \/ Retry(v) \/ Flush(v) \/ Cleanup(v)
         \/ \E timeout \in Timeouts : Down(v, timeout)
         \/ (Background(v) \/ Finish(v) \/ Destroy(v)) /\ UNCHANGED semVars
    \/ \E u \in Thread \cup {NoVcpu} : Up(u)

Spec == Init /\ [][Next]_vars

-----------------------------------------------------------------------------
(* value and the counts of the resources stay natural numbers. *)
TypeOK ==
    /\ WaitQueueTypeOK
    /\ value \in 0 .. limit
    /\ res_list \in Seq(Thread)
    /\ count \in [Thread -> 0 .. limit]
    /\ res_head \subseteq Thread /\ flushed \subseteq Thread

Total == value + FoldFunction(+, 0, count)

(* What is available and what threads have taken never exceed the limit    *)
(* together.  In particular the clamp to the limit in                      *)
(* __vmm_semaphore_cleanup() never takes anything away.                    *)
WithinLimit == Total <= limit

(* Nothing is lost, and gained only by up() when nobody has taken anything *)
(* that it could give back: down, time-outs and the end of a thread keep   *)
(* what is available and what is taken together.                           *)
Conserved == [][Total' = Total \/ (res_list = << >> /\ Total' = Total + 1)]_vars

(* Exactly the threads that have taken something have a resource, listed   *)
(* once by the semaphore and once by the thread until it is flushed; in    *)
(* particular the resource that is being cleaned up has not been freed.    *)
ResourcesAgree ==
    /\ \A v \in Thread : Has(v) <=> count[v] # 0
    /\ \A v \in Thread : Has(v) <=> v \in res_head \cup flushed
    /\ res_head \cap flushed = {}
    /\ Once(res_list)

(* As long as threads sleep, every unit of the value has a woken thread on *)
(* its way to take it.                                                     *)
NoLostWakeup == vcpu_list # << >> => value <= Cardinality(Woken)

(* That ceases to hold only by a woken thread that takes nothing: one      *)
(* whose time was over, or that was destroyed.                             *)
LostByLeaving == [][NoLostWakeup /\ ~NoLostWakeup' => WokenLeaves /\ value' = value]_vars
=============================================================================
