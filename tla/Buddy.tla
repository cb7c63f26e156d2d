------------------------------- MODULE Buddy --------------------------------
(***************************************************************************)
(* The buddy allocator (libs/common/buddy.c) behind the hypervisor's heap  *)
(* and its pool of virtual addresses.  A bin holds areas of contiguous     *)
(* free blocks of one size, sorted and merged; what is allocated is kept   *)
(* in a tree of areas.  Areas come from a fixed pool of house-keeping      *)
(* structures, and an operation that finds the pool empty gives up part of *)
(* its work.  A bin's list is modelled by the set of its areas, its order  *)
(* being that of the addresses.  Operations are taken one at a time: what  *)
(* one of them holds between two of its locks is in no bin and no tree.    *)
(***************************************************************************)
EXTENDS Integers, FiniteSets, FiniteSetsExt

CONSTANTS MinBin, MaxBin,       \* min_bin, max_bin
          MemSize,              \* mem_size, of a memory that starts at 0
          HkTotal,              \* hk_total_count
          Sizes                 \* the sizes callers ask for

VARIABLES store,                \* the bins, hk_free_count, and whether the pool
                                \* of areas was ever found empty (history)
          alloc,                \* the areas in the tree
          owned,                \* history: the addresses callers hold
          cut                   \* history: a partial free found the pool empty
vars == <<store, alloc, owned, cut>>

Bin == MinBin .. MaxBin
Memory == 0 .. MemSize - 1
BlockSize(bin) == 2^bin
(* mutant: a part of a block is forgotten *)
RoundDown(size, bin) == size \div BlockSize(bin)
RoundUp(size, bin) == (size + BlockSize(bin) - 1) \div BlockSize(bin)
Area(map, bin, count) == [map |-> map, bin |-> bin, count |-> count]
Start(a) == a.map
End(a) == a.map + a.count * BlockSize(a.bin)
Span(a) == Start(a) .. End(a) - 1
NoArea == Area(0, MinBin, 0)
Downgrade(a, bin) == Area(a.map, bin, a.count * 2^(a.bin - bin))

EstimateBin(size) == Min({MaxBin} \cup {b \in Bin : size <= BlockSize(b)})

(* A bin's areas, and the pool's, when `out' leaves the bin and `in' joins *)
Swap(s, bin, out, in) ==
    [s EXCEPT !.bins[bin] = (@ \ out) \cup in,
              !.hk = @ + Cardinality(out) - Cardinality(in)]
(* buddy_hk_alloc, buddy_hk_free *)
HkAlloc(s) == [s EXCEPT !.hk = @ - 1]
HkFree(s) == [s EXCEPT !.hk = @ + 1]
Short(s) == [s EXCEPT !.short = TRUE]

(* mutant: only the area before is merged *)
NearBefore(s, a) == {b \in s.bins[a.bin] : End(b) = Start(a)}
(* The neighbours of an area in its bin *)
Near(s, a) == {b \in s.bins[a.bin] : End(b) = Start(a) \/ End(a) = Start(b)}
(* Whether the first block is the second of its pair *)
Odd(a) == Start(a) % (2 * BlockSize(a.bin)) # 0

(* A result: the store, and an area or NoArea *)
Result(s, a) == [store |-> s, area |-> a]
(* F(v), where TLC computes v only once *)
Eager(v, F(_)) == CHOOSE r \in {F(x) : x \in {v}} : TRUE

(* The area a joins its bin, merged with its neighbours. *)
Merged(s, a) ==
    LET near == Near(s, a)
        merged == Area(Min({Start(b) : b \in near \cup {a}}), a.bin,
                       a.count + MapThenSumSet(LAMBDA b : b.count, near))
    IN  Result(Swap(HkFree(s), a.bin, near, {merged}), merged)

(* The first block of r's area becomes an area of its own if it is odd. *)
Evened(r) ==
    LET a == r.area
        head == Area(Start(a), a.bin, 1)
        body == Area(End(head), a.bin, a.count - 1)
    IN  IF Odd(a) THEN Result(Swap(r.store, a.bin, {a}, {head, body}), body) ELSE r

RECURSIVE BinsPut(_, _)
(* buddy_bins_put of an area in the caller's hands: merge it with its      *)
(* neighbours, then move the aligned pairs of blocks to the next bin.      *)
BinsPut(s, a) ==
    Eager(Merged(s, a), LAMBDA put :
        IF a.bin = MaxBin \/ put.area.count < (IF Odd(put.area) THEN 3 ELSE 2) THEN put.store
        ELSE IF Odd(put.area) /\ put.store.hk = 0 THEN Short(put.store)
        ELSE Eager(Evened(put), LAMBDA even :
            LET up == Area(Start(even.area), a.bin + 1, even.area.count \div 2)
                rest == IF even.area.count % 2 = 0 THEN {} ELSE {Area(End(up), a.bin, 1)}
            IN  IF even.store.hk = 0 THEN Short(even.store)
                ELSE BinsPut(HkAlloc(Swap(even.store, a.bin, {even.area}, rest)), up)))

RECURSIVE BinsGet(_, _, _)
(* buddy_bins_get: the first area with enough blocks, or half of a larger  *)
(* block and the rest put back                                             *)
BinsGet(s, bin, count) ==
    LET fit == {a \in s.bins[bin] : count <= a.count}
        a == CHOOSE a \in fit : \A b \in fit : Start(a) <= Start(b)
        left == IF a.count = count THEN {}
                ELSE {Area(Start(a) + count * BlockSize(bin), bin, a.count - count)}
    IN  IF bin \notin Bin THEN Result(s, NoArea)
        ELSE IF fit # {} /\ s.hk = 0 THEN Result(Short(s), NoArea)
        ELSE IF fit # {}
        THEN Result(HkAlloc(Swap(s, bin, {a}, left)), Area(Start(a), bin, count))
        ELSE Eager(BinsGet(s, bin + 1, (count + 1) \div 2), LAMBDA got :
            LET half == Downgrade(got.area, bin)
                residue == Area(Start(half) + count * BlockSize(bin), bin, half.count - count)
            IN  IF got.area = NoArea THEN got
                ELSE IF half.count = count THEN Result(got.store, half)
                ELSE IF got.store.hk = 0 THEN Result(Short(got.store), half)
                ELSE Result(BinsPut(HkAlloc(got.store), residue), Area(Start(half), bin, count)))

(* The blocks of r's area past the first `count' go back to the bins; the  *)
(* area keeps them when the pool is empty                                  *)
TrimEnd(r, count) ==
    LET a == r.area
    IN  IF count >= a.count THEN r
        ELSE IF r.store.hk = 0 THEN Result(Short(r.store), a)
        ELSE Result(BinsPut(HkAlloc(r.store),
                            Area(Start(a) + count * BlockSize(a.bin), a.bin, a.count - count)),
                    Area(Start(a), a.bin, count))

(* The same for the `count' blocks at its start *)
TrimStart(r, count) ==
    LET a == r.area
    IN  IF count = 0 THEN r
        ELSE IF r.store.hk = 0 THEN Result(Short(r.store), a)
        ELSE Result(BinsPut(HkAlloc(r.store), Area(Start(a), a.bin, count)),
                    Area(Start(a) + count * BlockSize(a.bin), a.bin, a.count - count))

ToMinBin(r) == [r EXCEPT !.area = Downgrade(@, MinBin)]
-----------------------------------------------------------------------------
(* The addresses of the smallest blocks that a region touches: the grain   *)
(* of what can be given back                                               *)
Touched(addr, size) ==
    {x \in Memory : x \div BlockSize(MinBin)
                        \in addr \div BlockSize(MinBin) .. (addr + size - 1) \div BlockSize(MinBin)}

RECURSIVE Fill(_, _, _)
(* buddy_allocator_init: areas of the largest bin, then what still fills a *)
(* block of its bin exactly                                                *)
Fill(s, start, size) ==
    LET bin == EstimateBin(size)
        count == size \div BlockSize(bin)
    IN  IF size < BlockSize(bin) \/ s.hk = 0 THEN s
        ELSE LET filled == BinsPut(HkAlloc(s), Area(start, bin, count))
                 done == count * BlockSize(bin)
             IN  IF size = done THEN filled ELSE Fill(filled, start + done, size - done)

Filled == Fill([bins |-> [b \in Bin |-> {}], hk |-> HkTotal, short |-> FALSE], 0, MemSize)

Init == store = Filled /\ alloc = {} /\ owned = {} /\ cut = FALSE

(* The caller receives r's area, of which it uses size bytes from addr *)
Hand(r, addr, size) ==
    /\ store' = r.store
    /\ alloc' = alloc \cup {r.area}
    /\ owned' = owned \cup (addr .. addr + size - 1)
    /\ UNCHANGED cut

NoMemory(r) == store' = r.store /\ UNCHANGED <<alloc, owned, cut>>

(* buddy_mem_alloc *)
MemAlloc(size) ==
    LET bin == EstimateBin(size)
        got == BinsGet(store, bin, RoundUp(size, bin))
        r == TrimEnd(ToMinBin(got), RoundUp(size, MinBin))
    IN  IF got.area = NoArea THEN NoMemory(got) ELSE Hand(r, Start(r.area), size)

(* buddy_mem_aligned_alloc *)
AlignedAlloc(order, size) ==
    LET bin == EstimateBin(size)
        from == IF order <= bin THEN bin ELSE order
        got == BinsGet(store, from, RoundUp(size, from))
        est == IF order <= bin THEN got
               ELSE TrimEnd([got EXCEPT !.area = Downgrade(@, bin)], RoundUp(size, bin))
        stuck == order > bin /\ est.area.count > RoundUp(size, bin)
        r == IF stuck THEN est ELSE TrimEnd(ToMinBin(est), RoundUp(size, MinBin))
    IN  IF got.area = NoArea THEN NoMemory(got) ELSE Hand(r, Start(r.area), size)

(* buddy_bins_reserve: blocks of one area of the bin around the region *)
BinsReserve(s, bin, addr, size) ==
    LET first == addr - (addr % BlockSize(bin))
        ret == Area(first, bin, RoundUp(addr + size - first, bin))
        around == {a \in s.bins[bin] : Start(a) <= Start(ret) /\ End(ret) <= End(a)}
        a == CHOOSE a \in around : TRUE
        before == Area(Start(a), bin, (Start(ret) - Start(a)) \div BlockSize(bin))
        after == Area(End(ret), bin, (End(a) - End(ret)) \div BlockSize(bin))
        left == {b \in {before, after} : b.count > 0}
    IN  IF around = {} THEN Result(s, NoArea)
        ELSE IF s.hk = 0 \/ (after.count > 0 /\ s.hk = 1) THEN Result(Short(s), NoArea)
        ELSE Result(HkAlloc(Swap(s, bin, {a}, left)), ret)

(* buddy_mem_reserve: from the smallest bin with such an area *)
MemReserve(addr, size) ==
    LET from == {b \in Bin : BinsReserve(store, b, addr, size).area # NoArea}
        got == BinsReserve(store, Min(from), addr, size)
        whole == ToMinBin(got)
        lead == (addr - Start(whole.area)) \div BlockSize(MinBin)
        headed == TrimStart(whole, lead)
        last == RoundUp(addr + size, MinBin) * BlockSize(MinBin)
        r == IF headed.area = whole.area /\ lead > 0 THEN headed
             ELSE TrimEnd(headed, (last - Start(headed.area)) \div BlockSize(MinBin))
    IN  IF from = {} THEN UNCHANGED vars ELSE Hand(r, addr, size)

(* buddy_mem_free of what an address belongs to *)
MemFree(a) ==
    /\ store' = BinsPut(store, a)
    /\ alloc' = alloc \ {a}
    /\ owned' = owned \ Span(a)
    /\ UNCHANGED cut

(* buddy_mem_partial_free of a region of a: the blocks of a on either side *)
(* stay allocated, as areas of their own                                   *)
PartialFree(a, addr, size) ==
    LET whole == Downgrade(a, MinBin)
        unit == BlockSize(MinBin)
        lead == (addr - Start(whole)) \div unit
        tail == (End(whole) - (addr + size)) \div unit
        head == {b \in {Area(Start(whole), MinBin, lead)} : b.count > 0}
        rear == {b \in {Area(addr + size, MinBin, tail)} : b.count > 0}
        kept == IF store.hk < Cardinality(head) THEN {}
                ELSE IF store.hk < Cardinality(head) + Cardinality(rear) THEN head
                ELSE head \cup rear
        first == IF head \subseteq kept THEN Start(whole) + lead * unit ELSE Start(whole)
        freed == Area(first, MinBin,
                      whole.count - MapThenSumSet(LAMBDA b : b.count, kept))
        empty == kept # head \cup rear
    IN  IF (lead > 0 /\ addr % unit # 0) \/ (tail > 0 /\ (addr + size) % unit # 0)
        THEN UNCHANGED vars
        ELSE /\ alloc' = (alloc \ {a}) \cup kept
             /\ store' = BinsPut([store EXCEPT !.hk = @ - Cardinality(kept)], freed)
             /\ owned' = owned \ Touched(addr, size)
             /\ cut' = (cut \/ empty)

Next ==
    \/ \E size \in Sizes :
         \/ MemAlloc(size)
         \/ \E order \in Bin : AlignedAlloc(order, size)
         \/ \E addr \in Memory : addr + size <= MemSize /\ MemReserve(addr, size)
    \/ \E a \in alloc :
         \/ MemFree(a)
         \/ \E addr \in Span(a), size \in Sizes :
              addr + size <= End(a) /\ PartialFree(a, addr, size)

Spec == Init /\ [][Next]_vars
-----------------------------------------------------------------------------
Free == UNION {store.bins[b] : b \in Bin}
Areas == Free \cup alloc

TypeOK ==
    /\ \A b \in Bin : \A a \in store.bins[b] : a.bin = b /\ a.count \in 1 .. MemSize
    /\ \A a \in Areas : Span(a) \subseteq Memory
    /\ store.hk \in 0 .. HkTotal
    /\ owned \subseteq Memory

(* The free areas and the allocated ones always tile the memory: no        *)
(* address is in two of them and none is lost, whichever operation ran out *)
(* of house-keeping areas on the way.                                      *)
Tiles ==
    /\ \A a, b \in Areas : a # b => Span(a) \cap Span(b) = {}
    /\ UNION {Span(a) : a \in Areas} = UNION {Span(a) : a \in UNION {Filled.bins[b] : b \in Bin}}

(* Every house-keeping area is free, in a bin or in the tree: none leaks.  *)
HkConserved ==
    store.hk + Cardinality(alloc) + MapThenSumSet(LAMBDA b : Cardinality(store.bins[b]), Bin) = HkTotal

(* Every free block lies at a multiple of its size: what aligned           *)
(* allocations and the merging of buddies rest on.                         *)
BinsAligned == \A a \in Free : Start(a) % BlockSize(a.bin) = 0

(* No address that a caller holds is free, unless a partial free found the *)
(* pool of areas empty and gave back what it was to keep.                  *)
OwnedKept == cut \/ owned \subseteq UNION {Span(a) : a \in alloc}

(* Until the pool of areas runs dry, only blocks of which a caller holds   *)
(* an address are allocated.                                               *)
NothingKept ==
    store.short \/ \A a \in alloc : \A x \in Span(a) : Touched(x, 1) \cap owned # {}

(* Until then, memory that was given back is merged to what it was: when   *)
(* nothing is allocated, the bins are those of the start.                  *)
FreedIsMerged == store.short \/ cut \/ alloc # {} \/ store = Filled
=============================================================================
