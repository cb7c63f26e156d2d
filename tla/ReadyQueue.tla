----------------------------- MODULE ReadyQueue -----------------------------
(***************************************************************************)
(* The ready queue of one host CPU under the fixed-priority round-robin    *)
(* strategy (core/schedalgo/vmm_schedalgo_prr.c): struct vmm_schedalgo_rq  *)
(* is an array of lists, one for each priority.  A queue is modelled by a  *)
(* function from priorities to sequences of VCPUs.                         *)
(***************************************************************************)
EXTENDS List

CONSTANT MaxPriority        \* VMM_VCPU_MAX_PRIORITY

ASSUME MaxPriorityAssumption == MaxPriority \in Nat

Priorities == 0 .. MaxPriority

(* vmm_schedalgo_rq_create: every list is empty. *)
rq_create == [p \in Priorities |-> << >>]

(* The VCPUs linked in a queue. *)
Queued(q) == UNION {Linked(q[p]) : p \in Priorities}

(* mutant: list_add to the head of the list *)
rq_push(q, v, p) == [q EXCEPT ![p] = <<v>> \o @]
(* vmm_schedalgo_rq_enqueue: list_add_tail to the list of the priority. *)
rq_enqueue(q, v, p) == [q EXCEPT ![p] = Append(@, v)]

(* The scan for the highest priority whose list is not empty. *)
Occupied(q) == {p \in Priorities : q[p] # << >>}
TopPriority(q) == CHOOSE p \in Occupied(q) : \A o \in Occupied(q) : o <= p

(* vmm_schedalgo_rq_dequeue: the entry it returns and the queue it leaves. *)
rq_first(q) == Head(q[TopPriority(q)])
rq_dequeue(q) == [q EXCEPT ![TopPriority(q)] = Tail(@)]

(* vmm_schedalgo_rq_detach: list_del_init unlinks the entry from the list  *)
(* that holds it and does nothing to an entry that is not linked.          *)
rq_detach(q, v) == [p \in Priorities |-> Unlink(q[p], v)]

(* vmm_schedalgo_rq_prempt_needed: some list of a strictly higher priority *)
(* than the current VCPU's has an entry.                                   *)
rq_prempt_needed(q, p) == \E o \in Occupied(q) : o > p

(* vmm_schedalgo_rq_length *)
rq_length(q, p) == Len(q[p])
=============================================================================
