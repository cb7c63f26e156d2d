----------------------------- MODULE MCServices -----------------------------
(***************************************************************************)
(* Small instances of GuestRequests, Buddy, CpuHp, FifoRing and VcpuIrq,   *)
(* one at a time: the variable part says which of them a behaviour is      *)
(* about, and the others stay as they are.  "requests" has two host CPUs   *)
(* and one life of a guest id, "irq" a VCPU with two interrupt lines.      *)
(***************************************************************************)
EXTENDS VcpuIrq, TLC

CONSTANTS Queue, NoQueue, NoWork, Request, NoRequest, n1, n2, n3

VARIABLES part,
          flags, wq, work_list, work_avail, announce, worker, faulted,
          guest, created, req_list, request, req_calls, req,
          store, alloc, owned, cut,
          up, online, notify_list, registering, next, ipi, started, failed,
          fifo, queue
reqVars == <<flags, wq, work_list, work_avail, announce, worker, faulted,
             guest, created, req_list, request, req_calls, req>>
buddyVars == <<store, alloc, owned, cut>>
cpuhpVars == <<up, online, notify_list, registering, next, ipi, started, failed>>
fifoVars == <<fifo, queue>>
allVars == <<part, vars, reqVars, buddyVars, cpuhpVars, fifoVars>>

Guests == INSTANCE GuestRequests
    WITH MaxGuest <- 2, Work <- {0, 1}, Called <- {0}, MaxCreated <- 1, MaxAvail <- 2,
         calls <- req_calls
Heap == INSTANCE Buddy
    WITH MinBin <- 1, MaxBin <- 3, MemSize <- 10, HkTotal <- 5, Sizes <- {1, 3, 4, 6}
Hotplug == INSTANCE CpuHp
    WITH CpuCount <- 3, Notify <- {n1, n2, n3}, NoNotify <- NoWork, OnlineNotify <- n2,
         level <- n1 :> 1 @@ n2 :> 2 @@ n3 :> 3
Ring == INSTANCE FifoRing WITH Element <- {n1, n2}, Depth <- 3

ASSUME HotplugAssumption == Hotplug!ConstantsOK

MCInit ==
    /\ part \in {"irq", "requests", "heap", "hotplug", "ring"}
    /\ Init /\ Guests!Init /\ Heap!Init /\ Hotplug!Init /\ Ring!Init

MCNext ==
    \/ part = "irq" /\ Next /\ UNCHANGED <<part, reqVars, buddyVars, cpuhpVars, fifoVars>>
    \/ part = "requests" /\ Guests!Next /\ UNCHANGED <<part, vars, buddyVars, cpuhpVars, fifoVars>>
    \/ part = "heap" /\ Heap!Next /\ UNCHANGED <<part, vars, reqVars, cpuhpVars, fifoVars>>
    \/ part = "hotplug" /\ Hotplug!Next /\ UNCHANGED <<part, vars, reqVars, buddyVars, fifoVars>>
    \/ part = "ring" /\ Ring!Next /\ UNCHANGED <<part, vars, reqVars, buddyVars, cpuhpVars>>

MCSpec == MCInit /\ [][MCNext]_allVars

-----------------------------------------------------------------------------
(* No request for a guest is forgotten although its work may run on two    *)
(* host CPUs at once, and no work waits in the list of a workqueue whose   *)
(* thread sleeps: NoRequestStranded of GuestRequests, NoWorkStranded of    *)
(* WorkQueue.                                                              *)
RequestsAttended == part = "requests" => Guests!TypeOK /\ Guests!NoRequestStranded /\ Guests!NoWorkStranded

(* With two lines asserted, deasserted and cleared at any time, no         *)
(* asserted line is left uncounted by vcpu_irq_process_one() or lost on    *)
(* its way to the guest, and no VCPU sleeps in vmm_vcpu_irq_wait_timeout() *)
(* over an interrupt that came while it looked at the other line:          *)
(* LinesKept and SleeperWoken of VcpuIrq.                                  *)
TwoLinesKept == part = "irq" => LinesKept /\ SleeperWoken

(* Whatever is allocated, reserved and freed, and whichever operation runs *)
(* out of house-keeping areas: the free and the allocated areas are        *)
(* disjoint and cover the memory, every house-keeping area is in a bin, in *)
(* the tree of allocations or in the pool, a free block lies at a multiple *)
(* of its size, and nothing a caller holds is freed, until a partial free  *)
(* finds the pool empty: Tiles, HkConserved, BinsAligned and OwnedKept of  *)
(* Buddy.                                                                  *)
HeapSound ==
    part = "heap" =>
        Heap!TypeOK /\ Heap!Tiles /\ Heap!HkConserved /\ Heap!BinsAligned /\ Heap!OwnedKept

(* Until the pool runs dry, what trimming an allocation or a partial free  *)
(* leaves over goes back to the bins, and __buddy_bins_put() merges what   *)
(* is freed, in whatever order, to the areas the allocator began with:     *)
(* NothingKept and FreedIsMerged of Buddy.                                 *)
HeapGivenBack == part = "heap" => Heap!NothingKept /\ Heap!FreedIsMerged

(* A host CPU that comes up while vmm_cpuhp_register() runs starts the new *)
(* notifier itself or is called to do so, and the list stays sorted by the *)
(* states at which notifiers start: NoneMissed of CpuHp.                   *)
HotplugNoneMissed == part = "hotplug" => Hotplug!TypeOK /\ Hotplug!NoneMissed

(* The ring of fifo.c holds what was put in and not yet taken out or       *)
(* overwritten, in order, however often it has wrapped: HoldsQueue of      *)
(* FifoRing.                                                               *)
RingHoldsQueue == part = "ring" => Ring!HoldsQueue
=============================================================================
