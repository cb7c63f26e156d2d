------------------------------ MODULE MCWorks -------------------------------
(***************************************************************************)
(* Small instances of the two users of WorkQueue, BlockQueue and           *)
(* GuestRequests, one at a time, for what must happen in the end: the      *)
(* variable part says which of them a behaviour is about, and the other    *)
(* stays as it is.  The guest requests are those of one host CPU and of    *)
(* two guests, one after the other, with the same id.                      *)
(***************************************************************************)
EXTENDS BlockQueue

VARIABLES part, guest, created, req_list, request, calls, req
reqVars == <<guest, created, req_list, request, calls, req>>
ownVars == <<requestVars, finishing, abort, ended>>
allVars == <<part, vars, reqVars>>

Guests == INSTANCE GuestRequests
    WITH Work <- {0, 1}, MaxGuest <- 2, Called <- {0}, MaxCreated <- 2, MaxAvail <- 2

MCInit ==
    /\ \/ part = "block" /\ Init /\ Guests!ReqInit
       \/ part = "requests" /\ RequestsInit /\ Guests!Init

Block(A) == part = "block" /\ A /\ UNCHANGED <<part, reqVars>>
Guest(A) == part = "requests" /\ A /\ UNCHANGED <<part, ownVars>>
MCNext == Block(Next) \/ Guest(Guests!Next)

(* The fairness of BlockQueue and of GuestRequests *)
MCSpec ==
    /\ MCInit /\ [][MCNext]_allVars
    /\ WF_allVars(Block(WorkFuncStep)) /\ WF_allVars(Block(CompleteStep)) /\ WF_allVars(Block(AbortStep))
    /\ WF_allVars(Guest(Guests!WorkStep(TheQueue))) /\ WF_allVars(Guest(Guests!CompleteStep(TheQueue)))
    /\ WF_allVars(Guest(Guests!Schedule(0, TheQueue)))

-----------------------------------------------------------------------------
(* pending_count never promises a work there is not, and requests wait in  *)
(* the backlog only while it is at its limit: WorkForPending and           *)
(* BacklogOnlyWhenFull of BlockQueue.                                      *)
BlockPending == part = "block" => TypeOK /\ WorkForPending /\ BacklogOnlyWhenFull

(* A work and its request point to each other until blockrq_rw_done() or   *)
(* an abort gives the work back, and no work runs without one:             *)
(* WorkHasRequest of BlockQueue.                                           *)
BlockWorkHasRequest == part = "block" => WorkHasRequest

(* Every request submitted to a block device is called back, also those    *)
(* that had to wait in the backlog, unless an abort waits for a work in    *)
(* progress or a work was unlinked twice: RequestEnds of BlockQueue.       *)
RequestsEnd ==
    \A r \in Request : (part = "block" /\ r \in bdev) ~> (ended[r] = 1 \/ faulted \/ abort.stage = "stop")

(* Every request for a guest is run by manager_req_work(), which serves    *)
(* one and schedules itself again, or is dropped with its guest:           *)
(* RequestServed of GuestRequests.                                         *)
RequestsServed ==
    \A r \in Request :
        (part = "requests" /\ Guests!Waits(r, Guests!Served)) ~> ~Guests!Waits(r, Guests!Served)

(* A request that vmm_manager_guest_request() queues while its guest is    *)
(* being destroyed is not left for the next guest of that id:              *)
(* QueuedWithItsGuest of GuestRequests.                                    *)
RequestsOfTheGuest == part = "requests" => Guests!TypeOK /\ Guests!QueuedWithItsGuest
=============================================================================
