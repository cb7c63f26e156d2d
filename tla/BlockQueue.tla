----------------------------- MODULE BlockQueue -----------------------------
(***************************************************************************)
(* The requests of a block device (core/block/vmm_blockdev.c) on the       *)
(* request queue of core/block/vmm_blockrq.c in its synchronous mode: up   *)
(* to max_pending requests occupy a work each, on the work queue of the    *)
(* device, the others wait in the backlog; the end of a request starts one *)
(* from the backlog.  A virtual disk (core/vio/vmm_vdisk.c) submits with   *)
(* r->priv = NULL, and aborts when its guest resets the device.            *)
(* rq->lock is held by the step that takes it, except by an abort, which   *)
(* waits under it for a work in progress.                                  *)
(***************************************************************************)
EXTENDS WorkQueue

CONSTANTS Request, NoRequest, TheQueue,
          max_pending,
          MaxAvail              \* bound on completions of work_avail under way

ASSUME BlockAssumption ==
    /\ Queue = {TheQueue} /\ NoWork \notin Work /\ NoRequest \notin Request
    /\ max_pending \in Nat \ {0} /\ MaxAvail \in Nat

VARIABLES bdev,                 \* the requests r with r->bdev set
          priv,                 \* r->priv: a work, or NULL as NoWork
          pending_count, backlog_list,
          rw_free_list, rw_r, is_free, \* rw_r: bwork->d.rw.r
          finishing,            \* the request whose callback the worker calls
          abort,                \* the abort: its stage, request and work
          ended                 \* history: callbacks of each request since its submit
requestVars == <<bdev, priv, pending_count, backlog_list, rw_free_list, rw_r, is_free>>
vars == <<queueVars, requestVars, finishing, abort, ended>>

NoAbort == [stage |-> "off", r |-> NoRequest, work |-> NoWork]
RequestsInit ==
    /\ bdev = {} /\ priv = [r \in Request |-> NoWork]
    /\ pending_count = 0 /\ backlog_list = <<>>
    /\ rw_free_list = SetToSeq(Work)
    /\ rw_r = [w \in Work |-> NoRequest] /\ is_free = [w \in Work |-> TRUE]
    /\ finishing = NoRequest /\ abort = NoAbort /\ ended = [r \in Request |-> 1]
Init == QueueInit /\ RequestsInit

Current == worker[TheQueue].work
Locked == abort.stage \in {"stop", "stopped"}    \* rq->lock, held for long
Quiet == work_avail[TheQueue] + announce[TheQueue] < MaxAvail

(* blockrq_queue_rw: a free work takes the request, if there is one *)
Queued(r) ==
    LET w == Head(rw_free_list) IN
    /\ rw_free_list' = Tail(rw_free_list)
    /\ rw_r' = [rw_r EXCEPT ![w] = r] /\ is_free' = [is_free EXCEPT ![w] = FALSE]
    /\ priv' = [priv EXCEPT ![r] = w]
    /\ ScheduleWork(w, TheQueue)
Full(pending) == pending >= max_pending
(* __blockdev_make_request with pending requests already counted, and the  *)
(* backlog it is put in when it must wait                                  *)
MakeRequest(r, pending, backlog, waiting) ==
    \/ /\ ~Full(pending) /\ rw_free_list # <<>>
       /\ Queued(r)
       /\ bdev' = bdev \cup {r} /\ pending_count' = pending + 1 /\ backlog_list' = backlog
    \/ /\ ~Full(pending) /\ rw_free_list = <<>>
       /\ bdev' = bdev \ {r} /\ pending_count' = pending /\ backlog_list' = backlog
       /\ UNCHANGED <<flags, wq, work_list, work_avail, announce, faulted, priv, rw_free_list, rw_r, is_free>>
    \/ /\ Full(pending)
       /\ bdev' = bdev \cup {r} /\ pending_count' = pending /\ backlog_list' = waiting
       /\ UNCHANGED <<flags, wq, work_list, work_avail, announce, faulted, priv, rw_free_list, rw_r, is_free>>

(* vmm_blockdev_submit_request of a request the driver's cache cannot      *)
(* answer; one the cache answers changes nothing                           *)
Submit(r) ==
    /\ ~Locked /\ r \notin bdev /\ ended[r] = 1 /\ Quiet
    /\ MakeRequest(r, pending_count, backlog_list, Append(backlog_list, r))
    /\ ended' = [ended EXCEPT ![r] = 0]
    /\ UNCHANGED <<finishing, worker, abort>>

(* mutant: the backlog waits for the next submit *)
DoneNoPop ==
    /\ pending_count' = pending_count - 1
    /\ UNCHANGED <<flags, wq, work_list, work_avail, announce, faulted,
                   bdev, priv, backlog_list, rw_free_list, rw_r, is_free>>
(* __blockdev_done_request *)
DoneRequest ==
    LET less == IF pending_count > 0 THEN pending_count - 1 ELSE 0 IN
    IF backlog_list = <<>>
    THEN /\ pending_count' = less
         /\ UNCHANGED <<flags, wq, work_list, work_avail, announce, faulted,
                        bdev, priv, backlog_list, rw_free_list, rw_r, is_free>>
    ELSE MakeRequest(Head(backlog_list), less, Tail(backlog_list), backlog_list)

(* mutant: the work is not put back in the list of free works *)
DequeueUnlisted(w) ==
    /\ is_free' = [is_free EXCEPT ![w] = TRUE]
    /\ priv' = IF rw_r[w] = NoRequest THEN priv ELSE [priv EXCEPT ![rw_r[w]] = NoWork]
    /\ rw_r' = [rw_r EXCEPT ![w] = NoRequest]
    /\ UNCHANGED rw_free_list
(* blockrq_dequeue_work *)
DequeueWork(w) ==
    /\ is_free' = [is_free EXCEPT ![w] = TRUE]
    /\ priv' = IF rw_r[w] = NoRequest THEN priv ELSE [priv EXCEPT ![rw_r[w]] = NoWork]
    /\ rw_r' = [rw_r EXCEPT ![w] = NoRequest]
    /\ rw_free_list' = Append(Remove(rw_free_list, w), w)

-----------------------------------------------------------------------------
(* blockrq_work_func: the driver's transfer, then blockrq_rw_done (the     *)
(* work is given back), the callback of vmm_blockdev_complete_request or   *)
(* of vmm_blockdev_fail_request, and what it does under rq->lock           *)
Transfer ==
    /\ worker[TheQueue].stage = "run"
    /\ Stage(TheQueue, "done")
    /\ UNCHANGED <<finishing, flags, wq, work_list, work_avail, announce, faulted, requestVars, abort, ended>>
RwDone ==
    LET w == Current IN
    /\ worker[TheQueue].stage = "done"
    /\ IF rw_r[w] = NoRequest
       THEN Stage(TheQueue, "ran") /\ UNCHANGED <<finishing, requestVars>>
       ELSE /\ DequeueWork(w)
            /\ finishing' = rw_r[w]
            /\ Stage(TheQueue, "callback")
            /\ UNCHANGED <<bdev, pending_count, backlog_list>>
    /\ UNCHANGED <<flags, wq, work_list, work_avail, announce, faulted, abort, ended>>
(* mutant: r->bdev stays set *)
CallbackAttached ==
    /\ worker[TheQueue].stage = "callback"
    /\ ended' = [ended EXCEPT ![finishing] = @ + 1]
    /\ finishing' = NoRequest
    /\ Stage(TheQueue, "pop")
    /\ UNCHANGED <<flags, wq, work_list, work_avail, announce, faulted, requestVars, abort>>
Callback ==
    /\ worker[TheQueue].stage = "callback"
    /\ IF finishing \in bdev
       THEN /\ bdev' = bdev \ {finishing} /\ ended' = [ended EXCEPT ![finishing] = @ + 1]
            /\ Stage(TheQueue, "pop")
       ELSE Stage(TheQueue, "ran") /\ UNCHANGED <<bdev, ended>>
    /\ finishing' = NoRequest
    /\ UNCHANGED <<flags, wq, work_list, work_avail, announce, faulted, priv, pending_count, backlog_list, rw_free_list, rw_r, is_free, abort>>
Pop ==
    /\ worker[TheQueue].stage = "pop" /\ ~Locked
    /\ DoneRequest
    /\ Stage(TheQueue, "ran")
    /\ UNCHANGED <<finishing, abort, ended>>

(* vmm_blockdev_abort_request: the check, blockrq_abort_rw under rq->lock, *)
(* and vmm_blockdev_fail_request.  A request without a work is refused.    *)
Abort(r) ==
    /\ abort.stage = "off" /\ r \in bdev
    /\ abort' = IF priv[r] = NoWork THEN abort
                ELSE [stage |-> "stop", r |-> r, work |-> priv[r]]
    /\ UNCHANGED <<finishing, queueVars, requestVars, ended>>
AbortStop ==
    /\ abort.stage = "stop" /\ MayStop(abort.work)
    /\ StopWork(abort.work)
    /\ abort' = [abort EXCEPT !.stage = "stopped"]
    /\ UNCHANGED <<finishing, requestVars, ended>>
AbortDequeue ==
    /\ abort.stage = "stopped"
    /\ IF is_free[abort.work] THEN UNCHANGED requestVars
       ELSE DequeueWork(abort.work) /\ UNCHANGED <<bdev, pending_count, backlog_list>>
    /\ abort' = [abort EXCEPT !.stage = "fail"]
    /\ UNCHANGED <<finishing, queueVars, ended>>
AbortFail ==
    /\ abort.stage = "fail"
    /\ IF abort.r \in bdev
       THEN /\ bdev' = bdev \ {abort.r} /\ ended' = [ended EXCEPT ![abort.r] = @ + 1]
            /\ abort' = [abort EXCEPT !.stage = "pop"]
       ELSE abort' = NoAbort /\ UNCHANGED <<bdev, ended>>
    /\ UNCHANGED <<finishing, queueVars, priv, pending_count, backlog_list, rw_free_list, rw_r, is_free>>
AbortPop ==
    /\ abort.stage = "pop"
    /\ DoneRequest
    /\ abort' = NoAbort
    /\ UNCHANGED <<finishing, worker, ended>>

-----------------------------------------------------------------------------
WorkFunc == Transfer \/ RwDone \/ Callback \/ Pop
AbortStep == ~faulted /\ (AbortStop \/ AbortDequeue \/ AbortFail \/ AbortPop)
WorkFuncStep ==
    ~faulted /\ (WorkFunc \/ (WorkerStep(TheQueue) /\ UNCHANGED <<requestVars, finishing, abort, ended>>))
CompleteStep ==
    ~faulted /\ Complete(TheQueue) /\ UNCHANGED <<requestVars, finishing, abort, ended>>
Next ==
    \/ ~faulted /\ \E r \in Request : Submit(r) \/ Abort(r)
    \/ WorkFuncStep \/ CompleteStep \/ AbortStep

(* The thread of the work queue, the caller of an abort and the threads    *)
(* that announce works go on while they can; nobody must submit or abort.  *)
Spec ==
    /\ Init /\ [][Next]_vars
    /\ WF_vars(WorkFuncStep) /\ WF_vars(CompleteStep) /\ WF_vars(AbortStep)

-----------------------------------------------------------------------------
TypeOK ==
    /\ flags \in [Work -> SUBSET {"CREATED", "SCHEDULED", "INPROGRESS"}]
    /\ wq \in [Work -> Queue \cup {NoQueue}]
    /\ bdev \subseteq Request /\ priv \in [Request -> Work \cup {NoWork}]
    /\ pending_count \in 0 .. max_pending
    /\ ToSet(backlog_list) \subseteq Request /\ ToSet(rw_free_list) \subseteq Work
    /\ rw_r \in [Work -> Request \cup {NoRequest}] /\ is_free \in [Work -> BOOLEAN]

(* The count of pending requests never promises a work there is not: while *)
(* it is below its limit a work is free, so that blockrq_queue_rw does not *)
(* fail, for a submit or for the request at the head of the backlog, which *)
(* __blockdev_done_request would then forget.                              *)
WorkForPending == pending_count < max_pending => rw_free_list # <<>>

(* Requests wait in the backlog only while the queue is full: the end of a *)
(* request never leaves a place empty and the backlog waiting.             *)
BacklogOnlyWhenFull == backlog_list # <<>> => pending_count = max_pending

(* A request ends once: its completion and its abort do not both call it   *)
(* back, and it is not called back once it has left the queue.             *)
EndsOnce == \A r \in Request : ended[r] <= 1 /\ (ended[r] = 1 => r \notin bdev)

(* A work and its request point to each other until the work is given      *)
(* back, so the worker never runs a work whose request was taken away by   *)
(* an abort, and no two works serve one request.                           *)
WorkHasRequest ==
    /\ \A w \in Work : rw_r[w] # NoRequest => priv[rw_r[w]] = w
    /\ worker[TheQueue].stage \in {"run", "done"} => rw_r[Current] # NoRequest

(* Every request ends, unless an abort meets the work of its request under *)
(* way, see StopReturns.                                                   *)
RequestEnds ==
    \A r \in Request : (r \in bdev) ~> (ended[r] = 1 \/ faulted \/ abort.stage = "stop")

(* "Stop a scheduled or in-progress work" (include/vmm_workqueue.h): the   *)
(* stop of a work that is in progress returns.  It does not:               *)
(* vmm_blockdev_abort_request waits for the work with rq->lock held, which *)
(* the work needs to end its request.                                      *)
StopReturns ==
    (abort.stage = "stop" /\ "INPROGRESS" \in flags[abort.work]) ~> abort.stage # "stop"
=============================================================================
