--------------------------- MODULE GuestRequests ----------------------------
(***************************************************************************)
(* Requests for guests (core/vmm_manager.c): vmm_manager_guest_request     *)
(* queues a request with its guest and schedules the one work of the guest *)
(* on the system work queue of the calling host CPU; the work runs one     *)
(* request and schedules itself again while there are more.  A guest that  *)
(* is destroyed drops its requests, and its id is used again.  The work of *)
(* a guest is named by the id of the guest.                                *)
(***************************************************************************)
EXTENDS WorkQueue, FiniteSets, Functions

CONSTANTS MaxGuest,             \* CONFIG_MAX_GUEST_COUNT
          Request, NoRequest,
          Called,               \* the ids of the guests that are used
          MaxCreated,           \* bound on the guests created with one id
          MaxAvail              \* bound on completions of work_avail under way

Guest == 0 .. MaxGuest - 1

VARIABLES guest,                \* of each id: "avail", "used", or "ending"
          created,              \* history: how often the id was used
          req_list,             \* guest->req_list
          request,              \* history: state of each request, and its guest
          calls,                \* callers between enqueue and schedule: <<id, queue>>
          req                   \* the request a worker runs
reqVars == <<guest, created, req_list, request, calls, req>>
vars == <<queueVars, reqVars>>

Idle == [at |-> "idle", id |-> 0, incarnation |-> 0]
ReqInit ==
    /\ guest = [g \in Guest |-> "used"] /\ created = [g \in Guest |-> 1]
    /\ req_list = [g \in Guest |-> <<>>]
    /\ request = [r \in Request |-> Idle]
    /\ calls = {}
    /\ req = [q \in Queue |-> NoRequest]
Init == QueueInit /\ ReqInit

Quiet == Cardinality(calls) + FoldFunction(+, 0, work_avail) + FoldFunction(+, 0, announce) < MaxAvail
Gone(R) == request' = [r \in Request |-> IF r \in R THEN Idle ELSE request[r]]

(* vmm_manager_guest_request: manager_enqueue_req adds the request, then   *)
(* schedules the work; the emulators of a guest may call it until its      *)
(* address space is gone                                                   *)
GuestRequest(r, g, q) ==
    /\ guest[g] # "avail" /\ request[r] = Idle /\ Quiet /\ <<g, q>> \notin calls
    /\ req_list' = [req_list EXCEPT ![g] = Append(@, r)]
    /\ request' = [request EXCEPT ![r] = [at |-> "queued", id |-> g, incarnation |-> created[g]]]
    /\ calls' = calls \cup {<<g, q>>}
    /\ UNCHANGED <<queueVars, guest, created, req>>
Schedule(g, q) ==
    /\ <<g, q>> \in calls
    /\ calls' = calls \ {<<g, q>>}
    /\ ScheduleWork(g, q)
    /\ UNCHANGED <<worker, guest, created, req_list, request, req>>

(* manager_req_work: the guest of the work, one request, and another turn  *)
FindGuest(q) ==
    LET g == worker[q].work IN
    /\ worker[q].stage = "run"
    /\ Stage(q, IF g >= MaxGuest - 1 \/ guest[g] = "avail" THEN "ran" ELSE "dequeue")
    /\ UNCHANGED <<flags, wq, work_list, work_avail, announce, faulted, reqVars>>
DequeueReq(q) ==
    LET g == worker[q].work IN
    /\ worker[q].stage = "dequeue"
    /\ IF req_list[g] = <<>>
       THEN Stage(q, "ran") /\ UNCHANGED <<req_list, req, request>>
       ELSE /\ Stage(q, "func")
            /\ req' = [req EXCEPT ![q] = Head(req_list[g])]
            /\ request' = [request EXCEPT ![Head(req_list[g])].at = "taken"]
            /\ req_list' = [req_list EXCEPT ![g] = Tail(@)]
    /\ UNCHANGED <<flags, wq, work_list, work_avail, announce, faulted, guest, created, calls>>
Func(q) ==
    /\ worker[q].stage = "func"
    /\ Gone({req[q]})
    /\ req' = [req EXCEPT ![q] = NoRequest]
    /\ Stage(q, "more")
    /\ UNCHANGED <<flags, wq, work_list, work_avail, announce, faulted, guest, created, req_list, calls>>
HaveReq(q) ==
    /\ worker[q].stage = "more"
    /\ Stage(q, IF req_list[worker[q].work] = <<>> THEN "ran" ELSE "again")
    /\ UNCHANGED <<flags, wq, work_list, work_avail, announce, faulted, reqVars>>
(* mutant: the work does not schedule itself again *)
RescheduleNever(q) ==
    /\ worker[q].stage = "again"
    /\ Stage(q, "ran")
    /\ UNCHANGED <<flags, wq, work_list, work_avail, announce, faulted, reqVars>>
Reschedule(q) ==
    /\ worker[q].stage = "again"
    /\ ScheduleWork(worker[q].work, q)
    /\ Stage(q, "ran")
    /\ UNCHANGED reqVars
ReqWork(q) == FindGuest(q) \/ DequeueReq(q) \/ Func(q) \/ HaveReq(q) \/ Reschedule(q)

(* vmm_manager_guest_destroy: manager_flush_req, and later the id is free; *)
(* vmm_manager_guest_create finds the id and empties the list              *)
Flush(g) ==
    /\ guest[g] = "used"
    /\ guest' = [guest EXCEPT ![g] = "ending"]
    /\ Gone(ToSet(req_list[g]))
    /\ req_list' = [req_list EXCEPT ![g] = <<>>]
    /\ UNCHANGED <<queueVars, created, calls, req>>
Destroyed(g) ==
    /\ guest[g] = "ending"
    /\ guest' = [guest EXCEPT ![g] = "avail"]
    /\ UNCHANGED <<queueVars, created, req_list, request, calls, req>>
(* mutant: the next guest takes over the list as it is *)
CreateKeeps(g) ==
    /\ guest[g] = "avail" /\ created[g] < MaxCreated
    /\ guest' = [guest EXCEPT ![g] = "used"]
    /\ created' = [created EXCEPT ![g] = @ + 1]
    /\ UNCHANGED <<queueVars, req_list, request, calls, req>>
Create(g) ==
    /\ guest[g] = "avail" /\ created[g] < MaxCreated
    /\ guest' = [guest EXCEPT ![g] = "used"]
    /\ created' = [created EXCEPT ![g] = @ + 1]
    /\ Gone(ToSet(req_list[g]))
    /\ req_list' = [req_list EXCEPT ![g] = <<>>]
    /\ UNCHANGED <<queueVars, calls, req>>

WorkStep(q) == ReqWork(q) \/ (WorkerStep(q) /\ UNCHANGED reqVars)
CompleteStep(q) == Complete(q) /\ UNCHANGED reqVars
Next ==
    \/ \E r \in Request, g \in Called, q \in Queue : GuestRequest(r, g, q)
    \/ \E g \in Called : Flush(g) \/ Destroyed(g) \/ Create(g) \/ \E q \in Queue : Schedule(g, q)
    \/ \E q \in Queue : WorkStep(q) \/ CompleteStep(q)

(* Callers and the threads of the work queues go on. *)
Fairness ==
    /\ \A q \in Queue : WF_vars(WorkStep(q)) /\ WF_vars(CompleteStep(q))
    /\ \A g \in Called, q \in Queue : WF_vars(Schedule(g, q))
Spec == Init /\ [][Next]_vars /\ Fairness

-----------------------------------------------------------------------------
TypeOK ==
    /\ guest \in [Guest -> {"avail", "used", "ending"}]
    /\ \A g \in Guest : ToSet(req_list[g]) \subseteq Request
    /\ \A q \in Queue : req[q] \in Request \cup {NoRequest}
    /\ \A q \in Queue : worker[q].stage = "func" <=> req[q] # NoRequest

(* The guest ids that manager_req_work accepts *)
Served == 0 .. MaxGuest - 2

(* A queued request always has somebody who will look for it: the work of  *)
(* its guest is scheduled or about to be, or runs and has yet to look,     *)
(* although two host CPUs may run the work at once.                        *)
NoRequestStranded ==
    \A g \in Served : req_list[g] # <<>> /\ guest[g] # "avail" =>
        \/ "SCHEDULED" \in flags[g]
        \/ \E q \in Queue : <<g, q>> \in calls
        \/ \E q \in Queue : worker[q].work = g
                            /\ worker[q].stage \in {"run", "dequeue", "func", "more", "again"}

(* The requests of a guest wait in the list of that guest only: what was   *)
(* queued for a guest that is gone is not left for the next one of the id. *)
QueuedWithItsGuest ==
    \A g \in Guest : \A r \in ToSet(req_list[g]) :
        request[r] = [at |-> "queued", id |-> g, incarnation |-> created[g]]

Waits(r, G) ==
    request[r] # Idle /\ request[r].id \in G /\ (request[r].at = "queued" => guest[request[r].id] # "avail")
(* Every request for a guest is run or dropped, for every id accepted,     *)
(* unless its guest is destroyed.                                          *)
RequestServed == \A r \in Request : Waits(r, Served) ~> ~Waits(r, Served)

(* "we use one vmm_work per-Guest to process all Guest request"            *)
(* (include/vmm_manager.h): that goes for every guest.  It does not for    *)
(* the last id, whose work manager_req_work takes to be out of bounds.     *)
LastServed == \A r \in Request : Waits(r, Guest) ~> ~Waits(r, Guest)
=============================================================================
