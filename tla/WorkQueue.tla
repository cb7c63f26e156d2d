----------------------------- MODULE WorkQueue ------------------------------
(***************************************************************************)
(* Work queues (core/vmm_workqueue.c): works are scheduled on a queue,     *)
(* whose thread takes them off its list in order and runs their functions. *)
(* A work has a lock of its own, under which a queue's lock is taken to    *)
(* change the list.  The completion work_avail counts the works announced. *)
(* What a function does is the business of the module that uses this one:  *)
(* it moves a worker from "run" to "ran".  A list_del of a work that is    *)
(* already off its list follows poisoned pointers: the hypervisor dies.    *)
(***************************************************************************)
EXTENDS Naturals, Sequences, SequencesExt

CONSTANTS Work, Queue, NoWork, NoQueue

VARIABLES flags, wq,            \* of each work
          work_list, work_avail, \* of each queue
          announce,             \* threads that will complete work_avail
          worker,               \* the thread of each queue
          faulted
queueVars == <<flags, wq, work_list, work_avail, announce, worker, faulted>>

QueueInit ==
    /\ flags = [w \in Work |-> {"CREATED"}] /\ wq = [w \in Work |-> NoQueue]
    /\ work_list = [q \in Queue |-> <<>>]
    /\ work_avail = [q \in Queue |-> 0] /\ announce = [q \in Queue |-> 0]
    /\ worker = [q \in Queue |-> [stage |-> "wait", work |-> NoWork]]
    /\ faulted = FALSE

Stage(q, stage) == worker' = [worker EXCEPT ![q].stage = stage]
Leave(q, stage) == worker' = [worker EXCEPT ![q] = [stage |-> stage, work |-> NoWork]]

(* vmm_workqueue_schedule_work up to the completion, and the completion; a *)
(* work that is already scheduled is left alone                            *)
(* mutant: only the first schedule of a work is announced *)
AnnounceCreated(w, q) ==
    /\ IF "SCHEDULED" \in flags[w]
       THEN UNCHANGED <<flags, wq, work_list, announce>>
       ELSE /\ flags' = [flags EXCEPT ![w] = (@ \ {"CREATED"}) \cup {"SCHEDULED"}]
            /\ wq' = [wq EXCEPT ![w] = q]
            /\ work_list' = [work_list EXCEPT ![q] = Append(@, w)]
            /\ announce' = [announce EXCEPT ![q] = IF "CREATED" \in flags[w] THEN @ + 1 ELSE @]
    /\ UNCHANGED <<work_avail, faulted>>
ScheduleWork(w, q) ==
    /\ IF "SCHEDULED" \in flags[w]
       THEN UNCHANGED <<flags, wq, work_list, announce>>
       ELSE /\ flags' = [flags EXCEPT ![w] = (@ \ {"CREATED"}) \cup {"SCHEDULED"}]
            /\ wq' = [wq EXCEPT ![w] = q]
            /\ work_list' = [work_list EXCEPT ![q] = Append(@, w)]
            /\ announce' = [announce EXCEPT ![q] = @ + 1]
    /\ UNCHANGED <<work_avail, faulted>>
Complete(q) ==
    /\ announce[q] > 0
    /\ announce' = [announce EXCEPT ![q] = @ - 1]
    /\ work_avail' = [work_avail EXCEPT ![q] = @ + 1]
    /\ UNCHANGED <<flags, wq, work_list, worker, faulted>>

(* workqueue_main: the wait, a look at the list, the claim of the work     *)
(* taken, and the end of its function                                      *)
Await(q) ==
    /\ worker[q].stage = "wait" /\ work_avail[q] > 0
    /\ work_avail' = [work_avail EXCEPT ![q] = @ - 1]
    /\ Stage(q, "look")
    /\ UNCHANGED <<flags, wq, work_list, announce, faulted>>
Take(q) ==
    /\ worker[q].stage = "look"
    /\ IF work_list[q] = <<>>
       THEN Stage(q, "wait") /\ UNCHANGED work_list
       ELSE /\ worker' = [worker EXCEPT ![q] = [stage |-> "taken", work |-> Head(work_list[q])]]
            /\ work_list' = [work_list EXCEPT ![q] = Tail(@)]
    /\ UNCHANGED <<flags, wq, work_avail, announce, faulted>>
Claim(q) ==
    LET w == worker[q].work IN
    /\ worker[q].stage = "taken"
    /\ IF "SCHEDULED" \in flags[w]
       THEN /\ flags' = [flags EXCEPT ![w] = (@ \ {"SCHEDULED"}) \cup {"INPROGRESS"}]
            /\ Stage(q, "run")
       ELSE Leave(q, "look") /\ UNCHANGED flags
    /\ UNCHANGED <<wq, work_list, work_avail, announce, faulted>>
Finish(q) ==
    /\ worker[q].stage = "ran"
    /\ flags' = [flags EXCEPT ![worker[q].work] = @ \ {"INPROGRESS"}]
    /\ Leave(q, "look")
    /\ UNCHANGED <<wq, work_list, work_avail, announce, faulted>>
WorkerStep(q) == Await(q) \/ Take(q) \/ Claim(q) \/ Finish(q)

(* vmm_workqueue_stop_work, once the work is not in progress *)
(* mutant: it does not wait for that *)
MayStopAnytime(w) == TRUE
MayStop(w) == "INPROGRESS" \notin flags[w]
StopWork(w) ==
    LET linked == \E q \in Queue : w \in ToSet(work_list[q])
        scheduled == "SCHEDULED" \in flags[w] /\ wq[w] # NoQueue IN
    /\ flags' = [flags EXCEPT ![w] = {}]
    /\ wq' = [wq EXCEPT ![w] = NoQueue]
    /\ work_list' = [q \in Queue |-> IF scheduled THEN Remove(work_list[q], w) ELSE work_list[q]]
    /\ faulted' = (scheduled /\ ~linked)
    /\ UNCHANGED <<work_avail, announce, worker>>

(* Whether a step of workqueue_main or a pending completion will look at   *)
(* the list of a queue                                                     *)
Attended(q) == worker[q].stage # "wait" \/ work_avail[q] > 0 \/ announce[q] > 0

(* No scheduled work is forgotten: a queue whose list is not empty has a   *)
(* thread that will look at the list, although the thread sleeps outside   *)
(* the lock of the list and completions come after works.                  *)
NoWorkStranded == \A q \in Queue : work_list[q] # <<>> => Attended(q)
=============================================================================
