------------------------------ MODULE FifoRing ------------------------------
(***************************************************************************)
(* Every sequence of calls of libs/common/fifo.c on one fifo, against the  *)
(* bounded queue that the functions promise.                               *)
(***************************************************************************)
EXTENDS Fifo, SequencesExt

CONSTANTS Element, Depth

VARIABLES fifo,
          queue         \* history: what the queue holds, oldest first
vars == <<fifo, queue>>

Init ==
    /\ fifo = fifo_alloc(Depth, CHOOSE e \in Element : TRUE)
    /\ queue = <<>>

Enqueue(e, overwrite) ==
    /\ fifo' = fifo_enqueue(fifo, e, overwrite)
    /\ queue' = IF Len(queue) < Depth THEN Append(queue, e)
                ELSE IF overwrite THEN Append(Tail(queue), e) ELSE queue
Dequeue == fifo' = fifo_dequeue(fifo) /\ queue' = IF queue = <<>> THEN queue ELSE Tail(queue)
Clear == fifo' = fifo_clear(fifo) /\ queue' = <<>>

Next ==
    \/ \E e \in Element, overwrite \in BOOLEAN : Enqueue(e, overwrite)
    \/ Dequeue \/ Clear

Spec == Init /\ [][Next]_vars

-----------------------------------------------------------------------------
(* The fifo holds what was put in and not yet taken out, in order, however *)
(* often its positions have wrapped and whether or not elements were       *)
(* overwritten; fifo_dequeue and fifo_getelement return the right ones.    *)
HoldsQueue ==
    /\ Contents(fifo) = queue
    /\ queue # <<>> => fifo_front(fifo) = Head(queue)
    /\ fifo_isempty(fifo) = (queue = <<>>) /\ fifo_isfull(fifo) = (Len(queue) = Depth)
=============================================================================
