------------------------------- MODULE MCSync -------------------------------
(***************************************************************************)
(* Small instances of Mutex, Semaphore and Completion, one at a time: the  *)
(* variable part says which of them a behaviour is about, and the others   *)
(* stay as they are.  They share the variables of the waitqueue.  "mutex"  *)
(* has time-outs and threads destroyed at any time, "wake" has neither and *)
(* is fair.                                                                *)
(***************************************************************************)
EXTENDS Mutex, Integers

CONSTANTS limit, InitValue, Width, MaxDone

VARIABLES part, value, res_list, count, sres_head, flushed, done
ownVars == <<value, res_list, count, sres_head, flushed>>
allVars == <<vars, part, ownVars, done>>

Wake == INSTANCE Mutex WITH Timeouts <- {"forever"}, Destroyable <- {"PAUSED"}
Sem == INSTANCE Semaphore WITH Yields <- FALSE, res_head <- sres_head
Compl == INSTANCE Completion WITH Waiter <- Thread, Destroyable <- {"PAUSED"}

ASSUME SyncAssumption ==
    limit \in Nat \ {0} /\ InitValue \in 0 .. limit /\ Width \in Nat \ {0} /\ MaxDone \in Nat

MCInit ==
    /\ part \in {"mutex", "wake", "semaphore", "completion"}
    /\ Init /\ Sem!Init /\ Compl!Init

MCNext ==
    /\ \/ part = "mutex" /\ Next /\ UNCHANGED <<ownVars, done>>
       \/ part = "wake" /\ Wake!Next /\ UNCHANGED <<ownVars, done>>
       \/ part = "semaphore" /\ Sem!Next /\ UNCHANGED <<mutVars, done>>
       \/ part = "completion" /\ Compl!Next /\ UNCHANGED <<mutVars, ownVars>>
    /\ UNCHANGED part

(* The fairness of Mutex *)
Dispatched(v) == part = "wake" /\ Dispatch(v) /\ UNCHANGED <<mutVars, ownVars, done, part>>
Retried == part = "wake" /\ (\E v \in Thread : Wake!Retry(v)) /\ UNCHANGED <<ownVars, done, part>>
MCSpec ==
    /\ MCInit /\ [][MCNext]_allVars
    /\ \A v \in Thread : WF_allVars(Dispatched(v))
    /\ WF_allVars(Retried)

-----------------------------------------------------------------------------
(* No wake by vmm_mutex_unlock() is lost (NoLostWakeup of Mutex), except   *)
(* by the woken thread, when it times out or is destroyed; in the part     *)
(* "wake", where threads do neither, none is lost at all.                  *)
MutexLostByLeaving ==
    [][NoLostWakeup /\ ~NoLostWakeup' /\ part \in {"mutex", "wake"}
          => part = "mutex" /\ WokenLeaves /\ owner' = NoVcpu]_allVars

(* A free mutex that threads sleep for is taken, although the woken thread *)
(* may find it taken by another: FreeIsTaken of Mutex.                     *)
MutexIsTaken == part = "wake" /\ lock = 0 /\ vcpu_list # << >> ~> lock # 0 \/ vcpu_list = << >>

(* What vmm_semaphore_down() has given out and what is left never exceed   *)
(* the limit, also after threads that had taken some are destroyed, and    *)
(* exactly the threads that have taken something have a resource in the    *)
(* lists of the semaphore and of the VCPU: WithinLimit and ResourcesAgree  *)
(* of Semaphore.                                                           *)
SemAccounts == part = "semaphore" => Sem!TypeOK /\ Sem!WithinLimit /\ Sem!ResourcesAgree

(* Down, time-outs and the end of a thread neither lose nor gain what the  *)
(* semaphore counts: Conserved of Semaphore.                               *)
SemConserved == [][part = "semaphore" =>
                     Sem!Total' = Sem!Total \/ (res_list = << >> /\ Sem!Total' = Sem!Total + 1)]_allVars

(* A wake by vmm_semaphore_up() is lost only by the woken thread, when it  *)
(* times out or is destroyed: LostByLeaving of Semaphore.                  *)
SemLostByLeaving == [][part = "semaphore" /\ Sem!NoLostWakeup /\ ~Sem!NoLostWakeup'
                          => WokenLeaves /\ value' = value]_allVars

(* Every signal of a completion that is not used up has a woken thread on  *)
(* its way to use it, see Completion.                                      *)
NoLostSignal == part = "completion" => Compl!TypeOK /\ Compl!NoLostSignal
=============================================================================
