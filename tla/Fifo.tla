-------------------------------- MODULE Fifo --------------------------------
(***************************************************************************)
(* The ring buffer of libs/common/fifo.c.  Every function is one critical  *)
(* section of f->lock, so a fifo is a record and the functions are         *)
(* operators on it.                                                        *)
(***************************************************************************)
EXTENDS Naturals, Sequences

(* fifo_alloc of n elements *)
fifo_alloc(n, zero) ==
    [elements |-> [i \in 0 .. n - 1 |-> zero], element_count |-> n,
     read_pos |-> 0, write_pos |-> 0, avail_count |-> 0]

fifo_isempty(f) == f.avail_count = 0
fifo_isfull(f) == f.avail_count >= f.element_count

(* mutant: a position wraps one element late *)
WrapLate(f, pos) == IF f.element_count < pos THEN 0 ELSE pos
(* A position that has reached the end goes back to the start. *)
Wrapped(f, pos) == IF f.element_count <= pos THEN 0 ELSE pos

(* The oldest element is dropped: by fifo_dequeue, and by fifo_enqueue     *)
(* with overwrite set when the fifo is full                                *)
Dropped(f) ==
    [f EXCEPT !.read_pos = Wrapped(f, f.read_pos + 1), !.avail_count = @ - 1]

(* fifo_enqueue, where it returns TRUE *)
Written(f, src) ==
    [f EXCEPT !.elements[f.write_pos] = src,
              !.write_pos = Wrapped(f, f.write_pos + 1),
              !.avail_count = @ + 1]
fifo_enqueue(f, src, overwrite) ==
    LET g == IF overwrite /\ fifo_isfull(f) THEN Dropped(f) ELSE f
    IN  IF fifo_isfull(g) THEN g ELSE Written(g, src)

(* fifo_dequeue: the element and the fifo that is left *)
fifo_front(f) == f.elements[f.read_pos]
fifo_dequeue(f) == IF fifo_isempty(f) THEN f ELSE Dropped(f)

fifo_clear(f) == [f EXCEPT !.read_pos = 0, !.write_pos = 0, !.avail_count = 0]

(* fifo_getelement: the element at a logical index below element_count *)
Place(n, at) == IF n <= at THEN at - n ELSE at
fifo_getelement(f, index) == f.elements[Place(f.element_count, f.read_pos + index)]

(* The queue a fifo stands for, oldest element first *)
Contents(f) == [i \in 1 .. f.avail_count |-> fifo_getelement(f, i - 1)]

(* The fifos of n elements of V in use: avail_count elements lie between   *)
(* the position of the next read and that of the next write.               *)
Fifos(n, V) ==
    {f \in [elements : [0 .. n - 1 -> V], element_count : {n}, read_pos : 0 .. n - 1,
            write_pos : 0 .. n - 1, avail_count : 0 .. n] :
        f.write_pos = Place(n, f.read_pos + f.avail_count)}
=============================================================================
