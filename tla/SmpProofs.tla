------------------------------ MODULE SmpProofs ------------------------------
(***************************************************************************)
(* What the ring buffer does to the queue it stands for, and from it that  *)
(* the calls between host CPUs are kept, run in order, attended and waited *)
(* for.                                                                    *)
(***************************************************************************)
EXTENDS SmpCalls, SequenceTheorems, TLAPS

(* A function on 1 .. n is a sequence. *)
LEMMA FunctionIsSeq ==
  ASSUME NEW n \in Nat, NEW V, NEW s \in [1 .. n -> V]
  PROVE  s \in Seq(V) /\ Len(s) = n
  OBVIOUS

(* Positions in the ring: every index below the size has its own, and a    *)
(* position that moves on and wraps is that of the next index.             *)
LEMMA Places ==
  ASSUME NEW n \in Nat \ {0}, NEW r \in 0 .. n - 1
  PROVE  /\ \A i \in 0 .. n : Place(n, r + i) \in 0 .. n - 1
         /\ \A i, j \in 0 .. n - 1 : Place(n, r + i) = Place(n, r + j) => i = j
         /\ Place(n, r) = r
         /\ \A i \in 0 .. n - 1 :
              Place(n, r + (i + 1)) = IF n <= Place(n, r + i) + 1 THEN 0 ELSE Place(n, r + i) + 1
         /\ \A i \in 0 .. n - 1 : Place(n, (IF n <= r + 1 THEN 0 ELSE r + 1) + i) = Place(n, r + (i + 1))
  BY DEF Place

(* A fifo in use is what its fields say. *)
LEMMA FifoFields ==
  ASSUME NEW n \in Nat \ {0}, NEW V, NEW elements \in [0 .. n - 1 -> V],
         NEW r \in 0 .. n - 1, NEW a \in 0 .. n
  PROVE  [elements |-> elements, element_count |-> n, read_pos |-> r,
          write_pos |-> Place(n, r + a), avail_count |-> a] \in Fifos(n, V)
<1>1. Place(n, r + a) \in 0 .. n - 1 BY Places, Zenon
<1> QED BY <1>1, Zenon DEF Fifos

(* Every fifo in use is of that form. *)
LEMMA FifoIs ==
  ASSUME NEW n \in Nat \ {0}, NEW V, NEW f \in Fifos(n, V)
  PROVE  \E elements \in [0 .. n - 1 -> V], r \in 0 .. n - 1, a \in 0 .. n :
           f = [elements |-> elements, element_count |-> n, read_pos |-> r,
                write_pos |-> Place(n, r + a), avail_count |-> a]
<1>1. /\ f.elements \in [0 .. n - 1 -> V] /\ f.element_count = n /\ f.read_pos \in 0 .. n - 1
      /\ f.avail_count \in 0 .. n /\ f.write_pos = Place(n, f.read_pos + f.avail_count)
  BY Zenon DEF Fifos
<1>2. f = [elements |-> f.elements, element_count |-> n, read_pos |-> f.read_pos,
           write_pos |-> Place(n, f.read_pos + f.avail_count), avail_count |-> f.avail_count]
  BY <1>1, Zenon DEF Fifos
<1> QED BY <1>1, <1>2, Zenon

(* The queue of a fifo has avail_count elements. *)
LEMMA ContentsType ==
  ASSUME NEW n \in Nat \ {0}, NEW V, NEW f \in Fifos(n, V)
  PROVE  /\ Contents(f) \in Seq(V) /\ Len(Contents(f)) = f.avail_count /\ f.avail_count \in 0 .. n
         /\ f.element_count = n
         /\ \A i \in 1 .. f.avail_count :
              Contents(f)[i] = f.elements[Place(n, f.read_pos + (i - 1))]
<1>1. /\ f.elements \in [0 .. n - 1 -> V] /\ f.element_count = n
      /\ f.read_pos \in 0 .. n - 1 /\ f.avail_count \in 0 .. n
  BY Zenon DEF Fifos
<1>2. ASSUME NEW i \in 1 .. f.avail_count
      PROVE  fifo_getelement(f, i - 1) = f.elements[Place(n, f.read_pos + (i - 1))]
             /\ fifo_getelement(f, i - 1) \in V
  <2>1. i - 1 \in 0 .. n BY <1>1
  <2>2. Place(n, f.read_pos + (i - 1)) \in 0 .. n - 1 BY <1>1, <2>1, Places, Zenon
  <2> QED BY <1>1, <2>2, Zenon DEF fifo_getelement
<1>3. Contents(f) \in [1 .. f.avail_count -> V] BY <1>2, Zenon DEF Contents
<1>4. f.avail_count \in Nat BY <1>1
<1>5. \A i \in 1 .. f.avail_count : Contents(f)[i] = fifo_getelement(f, i - 1)
  BY Zenon DEF Contents
<1> QED BY <1>1, <1>2, <1>3, <1>4, <1>5, FunctionIsSeq, Zenon

(* fifo_alloc(): a fifo whose queue is empty *)
LEMMA AllocEmpty ==
  ASSUME NEW n \in Nat \ {0}, NEW V, NEW zero \in V
  PROVE  fifo_alloc(n, zero) \in Fifos(n, V) /\ Contents(fifo_alloc(n, zero)) = << >>
<1>1. fifo_alloc(n, zero) \in Fifos(n, V)
  <2>1. Place(n, 0 + 0) = 0 /\ 0 \in 0 .. n - 1 BY DEF Place
  <2>2. [i \in 0 .. n - 1 |-> zero] \in [0 .. n - 1 -> V] BY Zenon
  <2> QED BY <2>1, <2>2, FifoFields DEF fifo_alloc
<1>2. Len(Contents(fifo_alloc(n, zero))) = 0 BY <1>1, ContentsType, Zenon DEF fifo_alloc
<1>3. Contents(fifo_alloc(n, zero)) \in Seq(V) BY <1>1, ContentsType, Zenon
<1> QED BY <1>1, <1>2, <1>3

(* fifo_enqueue() on a fifo that is not full puts the element at the end   *)
(* of the queue: the element it writes over is not one of the queue.       *)
LEMMA EnqueueAppends ==
  ASSUME NEW n \in Nat \ {0}, NEW V, NEW f \in Fifos(n, V), ~fifo_isfull(f),
         NEW e \in V
  PROVE  /\ fifo_enqueue(f, e, FALSE) \in Fifos(n, V)
         /\ Contents(fifo_enqueue(f, e, FALSE)) = Append(Contents(f), e)
<1>1. PICK elements \in [0 .. n - 1 -> V], r \in 0 .. n - 1, a \in 0 .. n :
           f = [elements |-> elements, element_count |-> n, read_pos |-> r,
                write_pos |-> Place(n, r + a), avail_count |-> a]
  BY FifoIs
<1> DEFINE w == Place(n, r + a)
           g == [elements |-> [elements EXCEPT ![w] = e], element_count |-> n, read_pos |-> r,
                 write_pos |-> Place(n, r + (a + 1)), avail_count |-> a + 1]
<1>2. a \in 0 .. n - 1 /\ a + 1 \in 0 .. n BY <1>1 DEF fifo_isfull
<1>3. w \in 0 .. n - 1 /\ Place(n, r + (a + 1)) = IF n <= w + 1 THEN 0 ELSE w + 1
  BY <1>2 DEF Place
<1>4. fifo_enqueue(f, e, FALSE) = g
  <2>1. fifo_enqueue(f, e, FALSE) = Written(f, e) BY Zenon DEF fifo_enqueue
  <2> HIDE DEF w
  <2> QED BY <1>1, <1>3, <2>1, Zenon DEF Written, Wrapped, w
<1>5. g \in Fifos(n, V)
  <2>1. [elements EXCEPT ![w] = e] \in [0 .. n - 1 -> V] BY <1>3, Zenon
  <2> QED BY <1>2, <2>1, FifoFields, Zenon
<1>6. /\ Contents(g) \in Seq(V) /\ Len(Contents(g)) = a + 1
      /\ \A i \in 1 .. a + 1 : Contents(g)[i] = [elements EXCEPT ![w] = e][Place(n, r + (i - 1))]
  <2>1. /\ g.avail_count = a + 1 /\ g.read_pos = r
        /\ g.elements = [elements EXCEPT ![w] = e]
    BY Zenon
  <2> HIDE DEF g, w
  <2>2. /\ Contents(g) \in Seq(V) /\ Len(Contents(g)) = g.avail_count
        /\ \A i \in 1 .. g.avail_count :
             Contents(g)[i] = g.elements[Place(n, g.read_pos + (i - 1))]
    BY <1>5, ContentsType, ZenonT(60)
  <2> QED BY <2>1, <2>2, Zenon
<1>7. /\ Contents(f) \in Seq(V) /\ Len(Contents(f)) = a
      /\ \A i \in 1 .. a : Contents(f)[i] = elements[Place(n, r + (i - 1))]
  <2>1. f.avail_count = a /\ f.read_pos = r /\ f.elements = elements BY <1>1, Zenon
  <2>2. /\ Contents(f) \in Seq(V) /\ Len(Contents(f)) = f.avail_count
        /\ \A i \in 1 .. f.avail_count :
             Contents(f)[i] = f.elements[Place(n, f.read_pos + (i - 1))]
    BY ContentsType, ZenonT(60)
  <2> QED BY <2>1, <2>2, Zenon
<1>8. /\ Append(Contents(f), e) \in Seq(V) /\ Len(Append(Contents(f), e)) = a + 1
      /\ \A i \in 1 .. a : Append(Contents(f), e)[i] = Contents(f)[i]
      /\ Append(Contents(f), e)[a + 1] = e
  BY <1>7, AppendProperties
<1> HIDE DEF g, w
<1>9. ASSUME NEW i \in 1 .. a + 1 PROVE Contents(g)[i] = Append(Contents(f), e)[i]
  <2>1. CASE i = a + 1
    <3>1. Place(n, r + (i - 1)) = w BY <1>2, <2>1 DEF w
    <3> QED BY <1>3, <1>6, <1>8, <2>1, <3>1, Zenon
  <2>2. CASE i # a + 1
    <3>1. i \in 1 .. a /\ i - 1 \in 0 .. n - 1 /\ i - 1 # a BY <1>2, <2>2
    <3>2. Place(n, r + (i - 1)) # w /\ Place(n, r + (i - 1)) \in 0 .. n - 1
      BY <1>2, <3>1 DEF w, Place
    <3> QED BY <1>3, <1>6, <1>7, <1>8, <3>1, <3>2, Zenon
  <2> QED BY <2>1, <2>2, Zenon
<1>10. Contents(g) = Append(Contents(f), e) BY <1>6, <1>8, <1>9, SeqEqual, Zenon
<1> QED BY <1>4, <1>5, <1>10, Zenon

(* fifo_dequeue() takes the first element of the queue. *)
LEMMA DequeueTakes ==
  ASSUME NEW n \in Nat \ {0}, NEW V, NEW f \in Fifos(n, V), ~fifo_isempty(f)
  PROVE  /\ fifo_dequeue(f) \in Fifos(n, V) /\ fifo_front(f) \in V
         /\ Contents(f) = <<fifo_front(f)>> \o Contents(fifo_dequeue(f))
<1>1. PICK elements \in [0 .. n - 1 -> V], r \in 0 .. n - 1, a \in 0 .. n :
           f = [elements |-> elements, element_count |-> n, read_pos |-> r,
                write_pos |-> Place(n, r + a), avail_count |-> a]
  BY FifoIs
<1> DEFINE next == IF n <= r + 1 THEN 0 ELSE r + 1
           g == [elements |-> elements, element_count |-> n, read_pos |-> next,
                 write_pos |-> Place(n, next + (a - 1)), avail_count |-> a - 1]
           s == <<elements[r]>>
<1>2. a \in 1 .. n /\ a - 1 \in 0 .. n - 1 /\ a - 1 \in 0 .. n BY <1>1 DEF fifo_isempty
<1>3. next \in 0 .. n - 1 /\ Place(n, next + (a - 1)) = Place(n, r + a)
  BY <1>2 DEF Place
<1>4. fifo_dequeue(f) = g
  <2>1. fifo_dequeue(f) = Dropped(f) BY Zenon DEF fifo_dequeue
  <2> QED BY <1>1, <1>3, <2>1, Zenon DEF Dropped, Wrapped
<1>5. g \in Fifos(n, V) BY <1>2, <1>3, FifoFields, Zenon
<1>6. /\ Contents(g) \in Seq(V) /\ Len(Contents(g)) = a - 1
      /\ \A i \in 1 .. a - 1 : Contents(g)[i] = elements[Place(n, next + (i - 1))]
  <2>1. g.avail_count = a - 1 /\ g.read_pos = next /\ g.elements = elements BY Zenon
  <2> HIDE DEF g, next
  <2>2. /\ Contents(g) \in Seq(V) /\ Len(Contents(g)) = g.avail_count
        /\ \A i \in 1 .. g.avail_count :
             Contents(g)[i] = g.elements[Place(n, g.read_pos + (i - 1))]
    BY <1>5, ContentsType, ZenonT(60)
  <2> QED BY <2>1, <2>2, Zenon
<1>7. /\ Contents(f) \in Seq(V) /\ Len(Contents(f)) = a
      /\ \A i \in 1 .. a : Contents(f)[i] = elements[Place(n, r + (i - 1))]
  <2>1. f.avail_count = a /\ f.read_pos = r /\ f.elements = elements BY <1>1, Zenon
  <2>2. /\ Contents(f) \in Seq(V) /\ Len(Contents(f)) = f.avail_count
        /\ \A i \in 1 .. f.avail_count :
             Contents(f)[i] = f.elements[Place(n, f.read_pos + (i - 1))]
    BY ContentsType, ZenonT(60)
  <2> QED BY <2>1, <2>2, Zenon
<1>8. fifo_front(f) = elements[r] /\ elements[r] \in V BY <1>1, Zenon DEF fifo_front
<1>9. s \in Seq(V) /\ Len(s) = 1 /\ s[1] = elements[r] BY <1>8
<1> HIDE DEF g, next, s
<1>10. /\ s \o Contents(g) \in Seq(V) /\ Len(s \o Contents(g)) = a
       /\ (s \o Contents(g))[1] = elements[r]
       /\ \A i \in 2 .. a : (s \o Contents(g))[i] = Contents(g)[i - 1]
  <2>1. /\ s \o Contents(g) \in Seq(V) /\ Len(s \o Contents(g)) = 1 + (a - 1)
        /\ \A i \in 1 .. 1 + (a - 1) :
             (s \o Contents(g))[i] = IF i <= 1 THEN s[i] ELSE Contents(g)[i - 1]
    <3>1. /\ s \o Contents(g) \in Seq(V) /\ Len(s \o Contents(g)) = Len(s) + Len(Contents(g))
          /\ \A i \in 1 .. Len(s) + Len(Contents(g)) :
               (s \o Contents(g))[i] = IF i <= Len(s) THEN s[i] ELSE Contents(g)[i - Len(s)]
      BY <1>6, <1>9, ConcatProperties, Zenon
    <3> QED BY <1>6, <1>9, <3>1, Zenon
  <2>2. 1 + (a - 1) = a /\ 1 \in 1 .. a /\ 1 <= 1 BY <1>2
  <2>3. ASSUME NEW i \in 2 .. a PROVE i \in 1 .. a /\ ~(i <= 1) BY <1>2
  <2> QED BY <1>9, <2>1, <2>2, <2>3, Zenon
<1>11. ASSUME NEW i \in 1 .. a PROVE Contents(f)[i] = (s \o Contents(g))[i]
  <2>1. CASE i = 1
    <3>1. Place(n, r + (i - 1)) = r BY <2>1 DEF Place
    <3> QED BY <1>7, <1>10, <2>1, <3>1, Zenon
  <2>2. CASE i # 1
    <3>1. i \in 2 .. a /\ i - 1 \in 1 .. a - 1 /\ i - 2 \in 0 .. n - 1 BY <1>2, <2>2
    <3>2. Place(n, next + (i - 2)) = Place(n, r + (i - 1)) BY <1>2, <3>1 DEF next, Place
    <3>3. (i - 1) - 1 = i - 2 BY <3>1
    <3>4. Contents(g)[i - 1] = elements[Place(n, next + (i - 2))] BY <1>6, <3>1, <3>3, Zenon
    <3> QED BY <1>7, <1>10, <3>1, <3>2, <3>4, Zenon
  <2> QED BY <2>1, <2>2, Zenon
<1>12. Contents(f) = s \o Contents(g) BY <1>7, <1>10, <1>11, SeqEqual, Zenon
<1> QED BY <1>4, <1>5, <1>8, <1>12, Zenon DEF s

-----------------------------------------------------------------------------
Id == 0 .. MaxCalls

(* Taking a call off the fifo leaves the calls in order. *)
LEMMA TakeInOrder ==
  ASSUME NEW r \in Seq(Id), NEW q \in Seq(Id), NEW x \in Id
  PROVE  (r \o << >>) \o (<<x>> \o q) = (r \o <<x>>) \o q
<1>1. << >> \in Seq(Id) /\ <<x>> \in Seq(Id) OBVIOUS
<1>2. r \o << >> = r BY ConcatEmptySeq, Zenon
<1>3. (r \o <<x>>) \o q = r \o (<<x>> \o q) BY <1>1, ConcatAssociative
<1> QED BY <1>2, <1>3, Zenon

(* So does the return of its function. *)
LEMMA ReturnInOrder ==
  ASSUME NEW V, NEW r \in Seq(V), NEW x \in V
  PROVE  r \o <<x>> = Append(r, x) \o << >> /\ Append(r, x) \in Seq(V)
<1>1. Append(r, x) = r \o <<x>> /\ Append(r, x) \in Seq(V)
  BY AppendIsConcat, AppendProperties, Zenon
<1> QED BY <1>1, ConcatEmptySeq, Zenon

(* So does a new call at the end of the fifo. *)
LEMMA PutInOrder ==
  ASSUME NEW a \in Seq(Id), NEW q \in Seq(Id), NEW x \in Id
  PROVE  Append(a \o q, x) = a \o Append(q, x)
<1>1. <<x>> \in Seq(Id) OBVIOUS
<1>2. a \o q \in Seq(Id) BY ConcatProperties, Zenon
<1>3. Append(a \o q, x) = (a \o q) \o <<x>> /\ Append(q, x) = q \o <<x>> BY <1>2, AppendIsConcat, Zenon
<1>4. (a \o q) \o <<x>> = a \o (q \o <<x>>) BY <1>1, ConcatAssociative
<1> QED BY <1>3, <1>4, Zenon

(* A call is among those of a sequence if it is among those of a part. *)
LEMMA AmongConcat ==
  ASSUME NEW V, NEW a \in Seq(V), NEW b \in Seq(V), NEW id
  PROVE  Among(id, a \o b) <=> Among(id, a) \/ Among(id, b)
<1>1. /\ DOMAIN a = 1 .. Len(a) /\ DOMAIN b = 1 .. Len(b) /\ Len(a) \in Nat /\ Len(b) \in Nat
      /\ DOMAIN (a \o b) = 1 .. Len(a) + Len(b)
      /\ \A i \in 1 .. Len(a) : (a \o b)[i] = a[i]
      /\ \A i \in 1 .. Len(b) : (a \o b)[Len(a) + i] = b[i]
  OBVIOUS
<1>2. ASSUME NEW i \in 1 .. Len(a), a[i] = id PROVE Among(id, a \o b)
  <2>1. i \in DOMAIN (a \o b) BY <1>1
  <2> QED BY <1>1, <1>2, <2>1, Zenon DEF Among
<1>3. ASSUME NEW i \in 1 .. Len(b), b[i] = id PROVE Among(id, a \o b)
  <2>1. Len(a) + i \in DOMAIN (a \o b) BY <1>1
  <2> QED BY <1>1, <1>3, <2>1, Zenon DEF Among
<1>4. ASSUME NEW i \in 1 .. Len(a) + Len(b), (a \o b)[i] = id PROVE Among(id, a) \/ Among(id, b)
  <2>1. CASE i <= Len(a)
    <3>1. i \in 1 .. Len(a) BY <1>1, <2>1
    <3> QED BY <1>1, <1>4, <3>1, Zenon DEF Among
  <2>2. CASE ~(i <= Len(a))
    <3>1. i - Len(a) \in 1 .. Len(b) /\ Len(a) + (i - Len(a)) = i BY <1>1, <2>2
    <3> QED BY <1>1, <1>4, <3>1, Zenon DEF Among
  <2> QED BY <2>1, <2>2, Zenon
<1> QED BY <1>1, <1>2, <1>3, <1>4, Zenon DEF Among

-----------------------------------------------------------------------------
(* What TypeOK says of one fifo and of what goes through it. *)
LEMMA FifoTypes ==
  ASSUME TypeOK, NEW c \in Cpu, NEW k \in Kind
  PROVE  /\ fifo[c][k] \in Fifos(FifoSize, Id) /\ FifoSize \in Nat \ {0}
         /\ Contents(fifo[c][k]) \in Seq(Id)
         /\ current[c][k] \in Id /\ InHand(current[c][k]) \in Seq(Id)
         /\ submitted[c][k] \in Seq(1 .. MaxCalls) /\ submitted[c][k] \in Seq(Id)
         /\ ran[c][k] \in Seq(1 .. MaxCalls) /\ ran[c][k] \in Seq(Id)
<1>1. /\ fifo[c][k] \in Fifos(FifoSize, Id) /\ FifoSize \in Nat \ {0} /\ current[c][k] \in Id
      /\ submitted[c][k] \in Seq(1 .. MaxCalls) /\ ran[c][k] \in Seq(1 .. MaxCalls)
  BY SmpAssumption DEF TypeOK, Id
<1>2. Contents(fifo[c][k]) \in Seq(Id) BY <1>1, ContentsType, Zenon
<1>3. InHand(current[c][k]) \in Seq(Id) BY <1>1 DEF InHand
<1>4. 1 .. MaxCalls \subseteq Id BY SmpAssumption DEF Id
<1>5. submitted[c][k] \in Seq(Id) /\ ran[c][k] \in Seq(Id) BY <1>1, <1>4, SeqMonotonic, Zenon
<1> QED BY <1>1, <1>2, <1>3, <1>5, Zenon

(* What is in a fifo is a call: NoCall is in none of them. *)
LEMMA FrontIsCall ==
  ASSUME TypeOK, Ordered, NEW c \in Cpu, NEW k \in Kind, ~fifo_isempty(fifo[c][k])
  PROVE  fifo_front(fifo[c][k]) \in 1 .. MaxCalls
<1> DEFINE f == fifo[c][k]
           pre == ran[c][k] \o InHand(current[c][k])
           front == fifo_front(f)
<1>1. /\ f \in Fifos(FifoSize, Id) /\ FifoSize \in Nat \ {0} /\ Contents(f) \in Seq(Id)
      /\ submitted[c][k] \in Seq(1 .. MaxCalls)
      /\ InHand(current[c][k]) \in Seq(Id) /\ ran[c][k] \in Seq(Id)
  BY FifoTypes, Zenon
<1>2. /\ fifo_dequeue(f) \in Fifos(FifoSize, Id) /\ front \in Id
      /\ Contents(f) = <<front>> \o Contents(fifo_dequeue(f))
  BY <1>1, DequeueTakes, Zenon
<1>3. Contents(fifo_dequeue(f)) \in Seq(Id) BY <1>1, <1>2, ContentsType, Zenon
<1>4. pre \in Seq(Id) /\ submitted[c][k] = pre \o Contents(f)
  BY <1>1, ConcatProperties, Zenon DEF Ordered
<1> HIDE DEF f, pre, front
<1>5. <<front>> \in Seq(Id) /\ Among(front, <<front>>) BY <1>2 DEF Among
<1>6. Among(front, Contents(f))
  <2>1. Among(front, <<front>> \o Contents(fifo_dequeue(f))) BY <1>3, <1>5, AmongConcat, Zenon
  <2> QED BY <1>2, <2>1, Zenon
<1>7. Among(front, submitted[c][k])
  <2>1. Among(front, pre \o Contents(f)) BY <1>1, <1>4, <1>6, AmongConcat, Zenon
  <2> QED BY <1>4, <2>1, Zenon
<1>8. front \in 1 .. MaxCalls
  <2>1. DOMAIN submitted[c][k] = 1 .. Len(submitted[c][k]) BY <1>1
  <2>2. PICK i \in 1 .. Len(submitted[c][k]) : submitted[c][k][i] = front BY <1>7, <2>1, Zenon DEF Among
  <2> QED BY <1>1, <2>2, ElementOfSeq, Zenon
<1> QED BY <1>8, Zenon DEF front, f

(* A step by which vmm_smp_ipi_exec() or smp_ipi_main() serves a fifo: the *)
(* calls stay in order, an empty fifo stays empty, and what was taken      *)
(* stays so.                                                               *)
LEMMA ServeStep ==
  ASSUME TypeOK, Ordered, NEW c \in Cpu, NEW k \in Kind, Serve(c, k), UNCHANGED submitted
  PROVE  /\ fifo' \in [Cpu -> [Kind -> Fifos(FifoSize, Id)]]
         /\ current' \in [Cpu -> [Kind -> Id]]
         /\ ran' \in [Cpu -> [Kind -> Seq(1 .. MaxCalls)]]
         /\ Ordered'
         /\ \A d \in Cpu, j \in Kind : fifo_isempty(fifo[d][j]) => fifo_isempty(fifo'[d][j])
         /\ \A d \in Cpu, id \in 1 .. MaxCalls : Taken(d, id) => Taken(d, id)'
<1>1. /\ fifo \in [Cpu -> [Kind -> Fifos(FifoSize, Id)]]
      /\ current \in [Cpu -> [Kind -> Id]]
      /\ ran \in [Cpu -> [Kind -> Seq(1 .. MaxCalls)]]
  BY Zenon DEF TypeOK, Id
<1>2. /\ FifoSize \in Nat \ {0} /\ Contents(fifo[c][k]) \in Seq(Id)
      /\ fifo[c][k] \in Fifos(FifoSize, Id)
      /\ ran[c][k] \in Seq(Id) /\ ran[c][k] \in Seq(1 .. MaxCalls) /\ current[c][k] \in Id
      /\ submitted[c][k] = (ran[c][k] \o InHand(current[c][k])) \o Contents(fifo[c][k])
  BY FifoTypes, Zenon DEF Ordered
<1>3. NoCall \in Id /\ 1 .. MaxCalls \subseteq Id /\ \A id \in Id : id # NoCall <=> id \in 1 .. MaxCalls
  BY SmpAssumption DEF Id, NoCall
<1>4. CASE /\ current[c][k] # NoCall
           /\ ran' = [ran EXCEPT ![c][k] = Append(@, current[c][k])]
           /\ current' = [current EXCEPT ![c][k] = NoCall]
           /\ UNCHANGED fifo
  <2> DEFINE x == current[c][k]
             r == Append(ran[c][k], x)
  <2>1. x \in 1 .. MaxCalls BY <1>2, <1>3, <1>4, Zenon
  <2>2. /\ ran[c][k] \o <<x>> = r \o << >>
        /\ r \in Seq(1 .. MaxCalls)
    BY <1>2, <2>1, ReturnInOrder, Zenon
  <2> HIDE DEF r
  <2>3. /\ ran'[c][k] = r /\ current'[c][k] = NoCall
        /\ ran' = [ran EXCEPT ![c][k] = r]
        /\ \A d \in Cpu, j \in Kind : d # c \/ j # k => ran'[d][j] = ran[d][j] /\ current'[d][j] = current[d][j]
    BY <1>1, <1>4, Zenon DEF r
  <2>4. current' \in [Cpu -> [Kind -> Id]] /\ ran' \in [Cpu -> [Kind -> Seq(1 .. MaxCalls)]]
    BY <1>1, <1>3, <1>4, <2>2, <2>3
  <2>5. Ordered'
    <3> SUFFICES ASSUME NEW d \in Cpu, NEW j \in Kind
                 PROVE  submitted'[d][j] = ran'[d][j] \o InHand(current'[d][j]) \o Contents(fifo'[d][j])
      BY Zenon DEF Ordered, InHand, Contents, fifo_getelement
    <3>1. CASE d = c /\ j = k
      <4>1. InHand(current[c][k]) = <<x>> /\ InHand(current'[c][k]) = << >>
        BY <1>4, <2>3, Zenon DEF InHand
      <4>2. submitted[c][k] = (ran[c][k] \o <<x>>) \o Contents(fifo[c][k]) BY <1>2, <4>1, Zenon
      <4>3. submitted[c][k] = (r \o << >>) \o Contents(fifo[c][k]) BY <2>2, <4>2, Zenon
      <4>4. /\ submitted'[d][j] = submitted[c][k] /\ ran'[d][j] = r /\ fifo'[d][j] = fifo[c][k]
            /\ InHand(current'[d][j]) = << >>
        BY <1>4, <2>3, <3>1, <4>1, Zenon
      <4> QED BY <4>3, <4>4, Zenon
    <3>2. CASE ~(d = c /\ j = k)
      <4>1. submitted[d][j] = ran[d][j] \o InHand(current[d][j]) \o Contents(fifo[d][j])
        BY Zenon DEF Ordered
      <4> QED BY <1>4, <2>3, <3>2, <4>1, Zenon
    <3> QED BY <3>1, <3>2, Zenon
  <2>6. ASSUME NEW d \in Cpu, NEW id \in 1 .. MaxCalls, Taken(d, id) PROVE Taken(d, id)'
    <3>1. CASE d = c /\ k = "sync"
      <4>1. <<x>> \in Seq(1 .. MaxCalls) /\ Among(x, <<x>>) BY <2>1 DEF Among
      <4>2. r = ran[c][k] \o <<x>> BY <1>2, <2>1, AppendIsConcat, Zenon DEF r
      <4>3. Among(id, r)
        <5>1. Among(id, ran[c][k] \o <<x>>) <=> Among(id, ran[c][k]) \/ Among(id, <<x>>)
          BY <1>2, <4>1, AmongConcat, Zenon
        <5>2. id = x \/ Among(id, ran[c][k]) BY <2>6, <3>1, Zenon DEF Taken
        <5> QED BY <4>1, <4>2, <5>1, <5>2, Zenon
      <4> QED BY <2>3, <3>1, <4>3, Zenon DEF Taken, Among
    <3>2. CASE ~(d = c /\ k = "sync")
      <4>1. "sync" \in Kind BY Zenon DEF Kind
      <4>2. ran'[d]["sync"] = ran[d]["sync"] /\ current'[d]["sync"] = current[d]["sync"]
        BY <2>3, <3>2, <4>1, Zenon
      <4> QED BY <2>6, <4>2, Zenon DEF Taken, Among
    <3> QED BY <3>1, <3>2, Zenon
  <2> QED BY <1>1, <1>4, <2>4, <2>5, <2>6, Zenon
<1>5. CASE /\ current[c][k] = NoCall /\ ~fifo_isempty(fifo[c][k])
           /\ current' = [current EXCEPT ![c][k] = fifo_front(fifo[c][k])]
           /\ fifo' = [fifo EXCEPT ![c][k] = fifo_dequeue(@)]
           /\ UNCHANGED ran
  <2> DEFINE x == fifo_front(fifo[c][k])
             g == fifo_dequeue(fifo[c][k])
  <2>1. x \in 1 .. MaxCalls /\ x \in Id /\ x # NoCall BY <1>3, <1>5, FrontIsCall, Zenon
  <2>2. g \in Fifos(FifoSize, Id) /\ Contents(fifo[c][k]) = <<x>> \o Contents(g)
    BY <1>2, <1>5, DequeueTakes, Zenon
  <2>3. Contents(g) \in Seq(Id) BY <1>2, <2>2, ContentsType, Zenon
  <2> HIDE DEF x, g
  <2>4. /\ fifo'[c][k] = g /\ current'[c][k] = x
        /\ fifo' = [fifo EXCEPT ![c][k] = g] /\ current' = [current EXCEPT ![c][k] = x]
        /\ \A d \in Cpu, j \in Kind : d # c \/ j # k => fifo'[d][j] = fifo[d][j] /\ current'[d][j] = current[d][j]
    BY <1>1, <1>5, Zenon DEF x, g
  <2>5. fifo' \in [Cpu -> [Kind -> Fifos(FifoSize, Id)]] /\ current' \in [Cpu -> [Kind -> Id]]
    BY <1>1, <2>1, <2>2, <2>4
  <2>6. Ordered'
    <3> SUFFICES ASSUME NEW d \in Cpu, NEW j \in Kind
                 PROVE  submitted'[d][j] = ran'[d][j] \o InHand(current'[d][j]) \o Contents(fifo'[d][j])
      BY Zenon DEF Ordered, InHand, Contents, fifo_getelement
    <3>1. CASE d = c /\ j = k
      <4>1. InHand(current[c][k]) = << >> /\ InHand(current'[c][k]) = <<x>>
        BY <1>5, <2>1, <2>4, Zenon DEF InHand
      <4>2. (ran[c][k] \o << >>) \o (<<x>> \o Contents(g)) = (ran[c][k] \o <<x>>) \o Contents(g)
        <5>1. ran[c][k] \in Seq(Id) /\ Contents(g) \in Seq(Id) /\ x \in Id BY <1>2, <2>1, <2>3, Zenon
        <5> QED BY <5>1, TakeInOrder, Zenon
      <4> QED BY <1>2, <1>5, <2>2, <2>4, <3>1, <4>1, <4>2, Zenon
    <3>2. CASE ~(d = c /\ j = k)
      <4>1. submitted[d][j] = ran[d][j] \o InHand(current[d][j]) \o Contents(fifo[d][j])
        BY Zenon DEF Ordered
      <4> QED BY <1>5, <2>4, <3>2, <4>1, Zenon
    <3> QED BY <3>1, <3>2, Zenon
  <2>7. ASSUME NEW d \in Cpu, NEW id \in 1 .. MaxCalls, Taken(d, id) PROVE Taken(d, id)'
    <3>1. id # NoCall BY <1>3, Zenon
    <3>2. "sync" \in Kind BY Zenon DEF Kind
    <3> QED BY <1>5, <2>4, <2>7, <3>1, <3>2, Zenon DEF Taken, Among
  <2>8. ASSUME NEW d \in Cpu, NEW j \in Kind, fifo_isempty(fifo[d][j]) PROVE fifo_isempty(fifo'[d][j])
    BY <1>5, <2>4, <2>8, Zenon
  <2> QED BY <1>1, <1>5, <2>5, <2>6, <2>7, <2>8, Zenon
<1> QED BY <1>4, <1>5, Zenon DEF Serve

(* smp_ipi_sync_submit() and smp_ipi_async_submit() put the call behind    *)
(* the others of its fifo, and touch no other fifo.                        *)
LEMMA EnqueueStep ==
  ASSUME TypeOK, Ordered, NEW s \in Caller, call[s].id \in 1 .. MaxCalls, SubmitEnqueue(s)
  PROVE  /\ fifo' \in [Cpu -> [Kind -> Fifos(FifoSize, Id)]]
         /\ submitted' \in [Cpu -> [Kind -> Seq(1 .. MaxCalls)]]
         /\ Ordered'
         /\ Among(call[s].id, submitted'[Target(s)][call[s].kind])
         /\ \A d \in Cpu, j \in Kind :
              /\ d # Target(s) \/ j # call[s].kind => fifo'[d][j] = fifo[d][j]
              /\ \A id : Among(id, submitted[d][j]) => Among(id, submitted'[d][j])
<1> DEFINE c == Target(s)
           k == call[s].kind
           x == call[s].id
           g == fifo_enqueue(fifo[c][k], x, FALSE)
           u == Append(submitted[c][k], x)
<1>1. /\ ~fifo_isfull(fifo[c][k]) /\ c \in Online
      /\ fifo' = [fifo EXCEPT ![c][k] = fifo_enqueue(@, x, FALSE)]
      /\ submitted' = [submitted EXCEPT ![c][k] = Append(@, x)]
      /\ UNCHANGED <<current, ran>>
  BY Zenon DEF SubmitEnqueue, Remote
<1>2. c \in Cpu /\ k \in Kind /\ x \in Id
  <2>1. call[s] \in CallState BY Zenon DEF TypeOK
  <2> QED BY <1>1, <2>1, SmpAssumption, Zenon DEF CallState, Id
<1>3. /\ fifo \in [Cpu -> [Kind -> Fifos(FifoSize, Id)]]
      /\ submitted \in [Cpu -> [Kind -> Seq(1 .. MaxCalls)]]
  BY Zenon DEF TypeOK, Id
<1> HIDE DEF c, k, x
<1>4. /\ FifoSize \in Nat \ {0} /\ Contents(fifo[c][k]) \in Seq(Id)
      /\ fifo[c][k] \in Fifos(FifoSize, Id) /\ ran[c][k] \in Seq(Id)
      /\ InHand(current[c][k]) \in Seq(Id) /\ submitted[c][k] \in Seq(1 .. MaxCalls)
      /\ submitted[c][k] = (ran[c][k] \o InHand(current[c][k])) \o Contents(fifo[c][k])
  BY <1>2, FifoTypes, Zenon DEF Ordered
<1>5. g \in Fifos(FifoSize, Id) /\ Contents(g) = Append(Contents(fifo[c][k]), x)
  <2>1. FifoSize \in Nat \ {0} /\ fifo[c][k] \in Fifos(FifoSize, Id) /\ ~fifo_isfull(fifo[c][k])
    BY <1>1, <1>4, Zenon
  <2>2. \A f \in Fifos(FifoSize, Id) : ~fifo_isfull(f) => \A e \in Id :
             /\ fifo_enqueue(f, e, FALSE) \in Fifos(FifoSize, Id)
             /\ Contents(fifo_enqueue(f, e, FALSE)) = Append(Contents(f), e)
    BY <2>1, EnqueueAppends, Zenon
  <2> QED BY <1>2, <2>1, <2>2, Zenon
<1>6. x \in 1 .. MaxCalls BY Zenon DEF x
<1>7. u \in Seq(1 .. MaxCalls) /\ u = submitted[c][k] \o <<x>> /\ <<x>> \in Seq(1 .. MaxCalls)
  <2>1. <<x>> \in Seq(1 .. MaxCalls) BY <1>6
  <2>2. submitted[c][k] \in Seq(1 .. MaxCalls) BY <1>4, Zenon
  <2>3. u \in Seq(1 .. MaxCalls) BY <1>6, <2>2, AppendProperties, Zenon
  <2>4. u = submitted[c][k] \o <<x>> BY <1>6, <2>2, AppendIsConcat, Zenon
  <2> QED BY <2>1, <2>3, <2>4, Zenon
<1> HIDE DEF g, u
<1>8. /\ fifo'[c][k] = g /\ submitted'[c][k] = u
      /\ fifo' = [fifo EXCEPT ![c][k] = g] /\ submitted' = [submitted EXCEPT ![c][k] = u]
      /\ \A d \in Cpu, j \in Kind : d # c \/ j # k => fifo'[d][j] = fifo[d][j] /\ submitted'[d][j] = submitted[d][j]
  BY <1>1, <1>2, <1>3, Zenon DEF g, u
<1>9. /\ fifo' \in [Cpu -> [Kind -> Fifos(FifoSize, Id)]]
      /\ submitted' \in [Cpu -> [Kind -> Seq(1 .. MaxCalls)]]
  BY <1>2, <1>3, <1>5, <1>7, <1>8
<1>10. Ordered'
  <2> SUFFICES ASSUME NEW d \in Cpu, NEW j \in Kind
               PROVE  submitted'[d][j] = ran'[d][j] \o InHand(current'[d][j]) \o Contents(fifo'[d][j])
    BY Zenon DEF Ordered, InHand, Contents, fifo_getelement
  <2>1. CASE d = c /\ j = k
    <3> DEFINE pre == ran[c][k] \o InHand(current[c][k])
    <3>1. pre \in Seq(Id) BY <1>4, ConcatProperties, Zenon
    <3>2. Append(pre \o Contents(fifo[c][k]), x) = pre \o Append(Contents(fifo[c][k]), x)
      <4> HIDE DEF pre
      <4>1. Contents(fifo[c][k]) \in Seq(Id) BY <1>4, Zenon
      <4> QED BY <1>2, <3>1, <4>1, PutInOrder, Zenon
    <3>3. u = pre \o Contents(g) BY <1>4, <1>5, <3>2, Zenon DEF u
    <3> QED BY <1>1, <1>8, <2>1, <3>3, Zenon
  <2>2. CASE ~(d = c /\ j = k)
    <3>1. submitted[d][j] = ran[d][j] \o InHand(current[d][j]) \o Contents(fifo[d][j])
      BY Zenon DEF Ordered
    <3> QED BY <1>1, <1>8, <2>2, <3>1, Zenon
  <2> QED BY <2>1, <2>2, Zenon
<1>11. \A id : Among(id, u) <=> Among(id, submitted[c][k]) \/ Among(id, <<x>>)
  <2> SUFFICES ASSUME NEW id PROVE Among(id, u) <=> Among(id, submitted[c][k]) \/ Among(id, <<x>>)
    BY Zenon
  <2>1. Among(id, submitted[c][k] \o <<x>>) <=> Among(id, submitted[c][k]) \/ Among(id, <<x>>)
    BY <1>4, <1>7, AmongConcat, Zenon
  <2> QED BY <1>7, <2>1, Zenon
<1>12. Among(x, <<x>>) BY DEF Among
<1>13. Among(x, submitted'[c][k]) BY <1>8, <1>11, <1>12, Zenon
<1>14. ASSUME NEW d \in Cpu, NEW j \in Kind, NEW id, Among(id, submitted[d][j])
       PROVE  Among(id, submitted'[d][j])
  BY <1>8, <1>11, <1>14, Zenon
<1> QED BY <1>8, <1>9, <1>10, <1>13, <1>14, Zenon DEF c, k, x

-----------------------------------------------------------------------------
IndInv == RunInOrder /\ NoCallStranded /\ ReturnedTaken

(* The calls in order depend on the fifos and on what went through them. *)
LEMMA SameOrder ==
  ASSUME Ordered, UNCHANGED <<fifo, current, submitted, ran>>
  PROVE  Ordered'
  BY Zenon DEF Ordered, InHand, Contents, fifo_getelement

(* What was put in a fifo was put there for good, what was taken stays so. *)
Kept ==
    /\ \A d \in Cpu, id \in 1 .. MaxCalls : Taken(d, id) => Taken(d, id)'
    /\ \A d \in Cpu, j \in Kind : \A id : Among(id, submitted[d][j]) => Among(id, submitted'[d][j])

(* So a thread that does nothing stays tracked. *)
LEMMA OthersTracked ==
  ASSUME TypeOK, ReturnedTaken, Kept, NEW t \in Caller, call'[t] = call[t], returned'[t] = returned[t]
  PROVE  CallTracked(t)' /\ ReturnTracked(t)'
<1>1. call[t] \in CallState /\ returned[t] \in [id : Id, targets : SUBSET Online] BY Zenon DEF TypeOK, Id
<1>2. /\ call[t].kind \in Kind /\ call[t].id \in Id /\ call[t].sent \subseteq Online
      /\ returned[t].id \in Id /\ returned[t].targets \subseteq Online
  BY <1>1, Zenon DEF CallState, Id
<1>3. Online \subseteq Cpu /\ \A id \in Id : id # NoCall => id \in 1 .. MaxCalls
  BY SmpAssumption DEF Id, NoCall
<1>4. CallTracked(t) /\ ReturnTracked(t) BY Zenon DEF ReturnedTaken
<1>5. ReturnTracked(t)'
  <2>1. ASSUME NEW c \in returned[t].targets
        PROVE  /\ returned[t].id # NoCall
               /\ current'[c]["sync"] = returned[t].id \/ Among(returned[t].id, ran'[c]["sync"])
    <3>1. PICK id \in 1 .. MaxCalls : id = returned[t].id BY <1>2, <1>3, <1>4, Zenon DEF ReturnTracked
    <3>2. Taken(c, id) BY <1>4, <3>1, Zenon DEF ReturnTracked
    <3>3. Taken(c, id)' BY <1>2, <1>3, <3>2, Zenon DEF Kept
    <3>4. current'[c]["sync"] = id \/ Among(id, ran'[c]["sync"]) BY <3>3, Zenon DEF Taken, Among
    <3> QED BY <1>4, <3>1, <3>4, Zenon DEF ReturnTracked
  <2> QED BY <2>1, Zenon DEF ReturnTracked, Taken, Among
<1>6. CallTracked(t)'
  <2>1. PICK q : q = call[t] BY Zenon
  <2>2. PICK c0 : c0 = Target(t) BY Zenon
  <2>3. Target(t)' = c0 BY <2>2, Zenon DEF Target, Min
  <2>4. /\ q.stage # "idle" => q.id # NoCall
        /\ q.stage = "wait" => q.wait
        /\ q.wait => q.kind = "sync"
        /\ q.stage # "wait" => q.trig = q.sent
    BY <1>4, <2>1, Zenon DEF CallTracked
  <2>5. ASSUME NEW c \in q.sent \cup (IF q.stage = "trigger" THEN {c0} ELSE {})
        PROVE  c \in Online \ {t} /\ Among(q.id, submitted'[c][q.kind])
    <3>1. c \in Online \ {t} /\ Among(q.id, submitted[c][q.kind])
      BY <1>4, <2>1, <2>2, Zenon DEF CallTracked
    <3> QED BY <1>2, <1>3, <2>1, <3>1, Zenon DEF Kept
  <2>6. ASSUME NEW c \in q.sent \ q.trig
        PROVE  current'[c]["sync"] = q.id \/ Among(q.id, ran'[c]["sync"])
    <3>1. q.id # NoCall BY <2>4, Zenon
    <3>2. q.id \in 1 .. MaxCalls /\ c \in Cpu BY <1>2, <1>3, <2>1, <3>1, Zenon
    <3>3. Taken(c, q.id) BY <1>4, <2>1, Zenon DEF CallTracked
    <3>4. Taken(c, q.id)' BY <3>2, <3>3, Zenon DEF Kept
    <3> QED BY <3>4, Zenon DEF Taken, Among
  <2>7. call'[t] = q BY <2>1, Zenon
  <2>8. \A c \in q.sent \cup (IF q.stage = "trigger" THEN {Target(t)'} ELSE {}) :
           c \in Online \ {t} /\ Among(q.id, submitted'[c][q.kind])
    BY <2>3, <2>5, Zenon
  <2>9. \A c \in q.sent \ q.trig : Taken(c, q.id)' BY <2>6, Zenon DEF Taken, Among
  <2> QED BY <2>4, <2>7, <2>8, <2>9 DEF CallTracked, Among, Taken
<1> QED BY <1>5, <1>6, Zenon

(* A step of one thread: the others stay tracked. *)
LEMMA OneTracked ==
  ASSUME TypeOK, ReturnedTaken, Kept, NEW s \in Caller,
         \A t \in Caller : t # s => call'[t] = call[t] /\ returned'[t] = returned[t],
         CallTracked(s)', ReturnTracked(s)'
  PROVE  ReturnedTaken'
<1>1. ASSUME NEW t \in Caller PROVE CallTracked(t)' /\ ReturnTracked(t)'
  BY OthersTracked, Zenon
<1> QED BY <1>1, Zenon DEF ReturnedTaken

(* With the calls that went through the fifos unchanged, all is kept. *)
LEMMA SameKept ==
  ASSUME UNCHANGED <<submitted, ran, current>>
  PROVE  Kept
  BY Zenon DEF Kept, Taken, Among

(* A fifo that somebody is on the way to stays attended while nobody takes *)
(* an interrupt, a trigger or a wakeup away.                               *)
LEMMA AttendedKept ==
  ASSUME NEW c, NEW k, Attended(c, k), ipi[c] => ipi'[c], handler'[c] = handler[c],
         worker'[c] = worker[c], async_avail'[c] = async_avail[c],
         \A t \in Caller : call[t].stage = "trigger" /\ Target(t) = c
                           => ipi'[c] \/ (call'[t].stage = "trigger" /\ Target(t)' = c)
  PROVE  Attended(c, k)'
  BY Zenon DEF Attended

-----------------------------------------------------------------------------
(* The records of a thread's call after its steps                          *)
LEMMA CallUpdates ==
  ASSUME NEW p \in CallState
  PROVE  /\ \A c : [p EXCEPT !.todo = @ \ {c}] \in CallState
         /\ \A st \in {"idle", "submit", "trigger", "wait"} : [p EXCEPT !.stage = st] \in CallState
         /\ \A n \in 0 .. Tries : [p EXCEPT !.try = n] \in CallState
         /\ \A m \in SUBSET Online : [p EXCEPT !.sent = m] \in CallState /\ [p EXCEPT !.trig = m] \in CallState
<1>1. ASSUME NEW c PROVE [p EXCEPT !.todo = @ \ {c}] \in CallState
  <2>1. p.todo \ {c} \in SUBSET Cpu BY Zenon DEF CallState
  <2> QED BY <2>1, Zenon DEF CallState
<1>2. ASSUME NEW st \in {"idle", "submit", "trigger", "wait"} PROVE [p EXCEPT !.stage = st] \in CallState
  BY Zenon DEF CallState
<1>3. ASSUME NEW n \in 0 .. Tries PROVE [p EXCEPT !.try = n] \in CallState BY Zenon DEF CallState
<1>4. ASSUME NEW m \in SUBSET Online PROVE [p EXCEPT !.sent = m] \in CallState BY Zenon DEF CallState
<1>5. ASSUME NEW m \in SUBSET Online PROVE [p EXCEPT !.trig = m] \in CallState BY Zenon DEF CallState
<1> QED BY <1>1, <1>2, <1>3, <1>4, <1>5, Zenon

(* for_each_cpu() goes on to the next target. *)
LEMMA DoneIs ==
  ASSUME TypeOK, NEW s \in Caller
  PROVE  /\ Done(s) \in [Caller -> CallState]
         /\ \A t \in Caller : t # s => Done(s)[t] = call[t]
         /\ Done(s)[s].stage = "submit" /\ Done(s)[s].kind = call[s].kind /\ Done(s)[s].id = call[s].id
         /\ Done(s)[s].sent = call[s].sent /\ Done(s)[s].trig = call[s].trig
         /\ Done(s)[s].wait = call[s].wait
<1>1. call \in [Caller -> CallState] /\ call[s] \in CallState BY Zenon DEF TypeOK
<1>2. Tries \in 0 .. Tries BY SmpAssumption
<1>3. PICK p : p = [call[s] EXCEPT !.todo = @ \ {Target(s)}] BY Zenon
<1>4. PICK q : q = [p EXCEPT !.stage = "submit"] BY Zenon
<1>5. PICK r : r = [q EXCEPT !.try = Tries] BY Zenon
<1>6. Done(s) = [call EXCEPT ![s] = r] BY <1>1, <1>3, <1>4, <1>5, Zenon DEF Done
<1>7. p \in CallState BY <1>1, <1>3, CallUpdates, Zenon
<1>8. q \in CallState
  <2>1. "submit" \in {"idle", "submit", "trigger", "wait"} BY Zenon
  <2> QED BY <1>4, <1>7, <2>1, CallUpdates, Zenon
<1>9. r \in CallState BY <1>2, <1>5, <1>8, CallUpdates, Zenon
<1>10. /\ p.kind = call[s].kind /\ p.id = call[s].id /\ p.sent = call[s].sent
       /\ p.trig = call[s].trig /\ p.wait = call[s].wait
  BY <1>1, <1>3, Zenon DEF CallState
<1>11. /\ q.kind = p.kind /\ q.id = p.id /\ q.sent = p.sent
       /\ q.trig = p.trig /\ q.wait = p.wait /\ q.stage = "submit"
  BY <1>4, <1>7, Zenon DEF CallState
<1>12. /\ r.kind = q.kind /\ r.id = q.id /\ r.sent = q.sent
       /\ r.trig = q.trig /\ r.wait = q.wait /\ r.stage = q.stage
  BY <1>5, <1>8, Zenon DEF CallState
<1>13. Done(s)[s] = r /\ Done(s) \in [Caller -> CallState] /\ \A t \in Caller : t # s => Done(s)[t] = call[t]
  BY <1>1, <1>6, <1>9, Zenon
<1> QED BY <1>10, <1>11, <1>12, <1>13, Zenon

-----------------------------------------------------------------------------
(* The types after a step of a thread that calls. *)
LEMMA CallerTypes ==
  ASSUME TypeOK, calls' \in 0 .. MaxCalls, call' \in [Caller -> CallState],
         fifo' \in [Cpu -> [Kind -> Fifos(FifoSize, Id)]],
         submitted' \in [Cpu -> [Kind -> Seq(1 .. MaxCalls)]],
         ipi' \in [Cpu -> BOOLEAN], panicked' \in BOOLEAN,
         returned' \in [Caller -> [id : Id, targets : SUBSET Online]],
         UNCHANGED <<handler, worker, current, async_avail, ran>>
  PROVE  TypeOK'
  BY Zenon DEF TypeOK, Id

(* The types after a step of the handler or of the thread of a host CPU. *)
LEMMA CpuTypes ==
  ASSUME TypeOK, fifo' \in [Cpu -> [Kind -> Fifos(FifoSize, Id)]],
         current' \in [Cpu -> [Kind -> Id]], ran' \in [Cpu -> [Kind -> Seq(1 .. MaxCalls)]],
         ipi' \in [Cpu -> BOOLEAN], handler' \in [Cpu -> {"off", "sync", "signal"}],
         worker' \in [Cpu -> {"wait", "run"}], async_avail' \in [Cpu -> Nat],
         UNCHANGED <<calls, call, panicked, submitted, returned>>
  PROVE  TypeOK'
  BY Zenon DEF TypeOK, Id

(* What IndInv says of one thread. *)
LEMMA CallerFacts ==
  ASSUME IndInv, NEW s \in Caller
  PROVE  /\ TypeOK /\ Ordered /\ ReturnedTaken /\ NoCallStranded
         /\ call \in [Caller -> CallState] /\ call[s] \in CallState
         /\ call[s].id \in Id /\ call[s].kind \in Kind /\ call[s].sent \subseteq Online
         /\ CallTracked(s) /\ ReturnTracked(s)
         /\ call[s].stage # "idle" => call[s].id \in 1 .. MaxCalls
         /\ calls \in 0 .. MaxCalls /\ ipi \in [Cpu -> BOOLEAN] /\ panicked \in BOOLEAN
         /\ fifo \in [Cpu -> [Kind -> Fifos(FifoSize, Id)]]
         /\ submitted \in [Cpu -> [Kind -> Seq(1 .. MaxCalls)]]
         /\ returned \in [Caller -> [id : Id, targets : SUBSET Online]]
<1>1. TypeOK /\ Ordered /\ ReturnedTaken /\ NoCallStranded BY Zenon DEF IndInv, RunInOrder
<1>2. /\ call \in [Caller -> CallState] /\ call[s] \in CallState
      /\ calls \in 0 .. MaxCalls /\ ipi \in [Cpu -> BOOLEAN] /\ panicked \in BOOLEAN
      /\ fifo \in [Cpu -> [Kind -> Fifos(FifoSize, Id)]]
      /\ submitted \in [Cpu -> [Kind -> Seq(1 .. MaxCalls)]]
      /\ returned \in [Caller -> [id : Id, targets : SUBSET Online]]
  BY <1>1, Zenon DEF TypeOK, Id
<1>3. call[s].id \in Id /\ call[s].kind \in Kind /\ call[s].sent \subseteq Online
  BY <1>2, Zenon DEF CallState, Id
<1>4. CallTracked(s) /\ ReturnTracked(s) BY <1>1, Zenon DEF ReturnedTaken
<1>5. ASSUME call[s].stage # "idle" PROVE call[s].id \in 1 .. MaxCalls
  <2>1. call[s].id # NoCall BY <1>4, <1>5, Zenon DEF CallTracked
  <2> QED BY <1>3, <2>1 DEF Id, NoCall
<1> QED BY <1>1, <1>2, <1>3, <1>4, <1>5, Zenon

(* A thread that is not about to trigger takes nobody off the way to a     *)
(* fifo.                                                                   *)
LEMMA CallerAttends ==
  ASSUME NoCallStranded, NEW s \in Caller, call[s].stage # "trigger",
         \A t \in Caller : t # s => call'[t] = call[t],
         ~panicked, \A c \in Cpu : ipi[c] => ipi'[c], UNCHANGED <<fifo, handler, worker, async_avail>>
  PROVE  NoCallStranded'
<1>1. ASSUME NEW c \in Online, NEW k \in Kind, ~fifo_isempty(fifo'[c][k]) PROVE Attended(c, k)'
  <2>1. Attended(c, k) BY <1>1, Zenon DEF NoCallStranded
  <2>2. c \in Cpu BY SmpAssumption, Zenon
  <2>3. ASSUME NEW t \in Caller, call[t].stage = "trigger", Target(t) = c
        PROVE  call'[t].stage = "trigger" /\ Target(t)' = c
    BY <2>3, Zenon DEF Target, Min
  <2> QED BY <2>1, <2>2, <2>3, AttendedKept, Zenon
<1> QED BY <1>1, Zenon DEF NoCallStranded, fifo_isempty

(* vmm_smp_ipi_sync_call() and vmm_smp_ipi_async_call() *)
LEMMA CallInv ==
  ASSUME IndInv, NEW s \in Caller, NEW kind \in Kind, NEW dest \in Dest, NEW wait \in BOOLEAN,
         Call(s, kind, dest, wait)
  PROVE  IndInv'
<1>1. PICK q : q = [Idle EXCEPT !.stage = "submit", !.kind = kind,
                      !.id = calls + 1, !.todo = dest, !.wait = wait, !.try = Tries]
  BY Zenon
<1>2. /\ ~panicked /\ call[s].stage = "idle" /\ calls < MaxCalls /\ (wait => kind = "sync")
      /\ calls' = calls + 1 /\ call' = [call EXCEPT ![s] = q]
      /\ UNCHANGED <<fifo, ipi, handler, worker, current, async_avail, panicked, submitted, ran, returned>>
  BY <1>1, Zenon DEF Call, Free, history
<1>3. calls' \in 0 .. MaxCalls /\ calls + 1 # NoCall BY <1>2, CallerFacts, SmpAssumption DEF NoCall
<1>4. /\ q.stage = "submit" /\ q.kind = kind /\ q.id = calls + 1 /\ q.sent = {} /\ q.trig = {}
      /\ q.wait = wait
  BY <1>1, Zenon DEF Idle
<1>5. q \in CallState
  <2>1. dest \in SUBSET Cpu /\ Tries \in 0 .. Tries BY SmpAssumption
  <2> QED BY <1>1, <1>2, <1>3, <2>1, Zenon DEF Idle, CallState
<1>6. call' \in [Caller -> CallState] /\ call'[s] = q /\ \A t \in Caller : t # s => call'[t] = call[t]
  BY <1>2, <1>5, CallerFacts, Zenon
<1>7. TypeOK' BY <1>2, <1>3, <1>6, CallerFacts, CallerTypes, Zenon
<1>8. NoCallStranded' BY <1>2, <1>6, CallerFacts, CallerAttends, Zenon
<1>9. ReturnedTaken'
  <2>1. CallTracked(s)' BY <1>2, <1>3, <1>4, <1>6, Zenon DEF CallTracked
  <2>2. ReturnTracked(s)' BY <1>2, CallerFacts, Zenon DEF ReturnTracked, Taken, Among
  <2> QED BY <1>2, <1>6, <2>1, <2>2, CallerFacts, SameKept, OneTracked, Zenon
<1>10. Ordered' BY <1>2, CallerFacts, SameOrder, Zenon
<1> QED BY <1>7, <1>8, <1>9, <1>10, Zenon DEF IndInv, RunInOrder

(* A step that puts the call on no more targets *)
LEMMA OwnTracked ==
  ASSUME NEW s \in Caller, CallTracked(s), UNCHANGED <<submitted, ran, current>>,
         call[s].stage # "idle", call'[s].stage \in {"submit", "wait"},
         call'[s].kind = call[s].kind, call'[s].id = call[s].id, call'[s].wait = call[s].wait,
         call'[s].sent = call[s].sent, call'[s].stage = "wait" => call[s].wait,
         call'[s].stage # "wait" => call'[s].trig = call[s].sent,
         \A c \in call[s].sent \ call'[s].trig : Taken(c, call[s].id)
  PROVE  CallTracked(s)'
<1>1. PICK p : p = call[s] BY Zenon
<1>2. PICK q : q = call'[s] BY Zenon
<1>3. /\ q.id # NoCall /\ (q.stage = "wait" => q.wait) /\ (q.wait => q.kind = "sync")
      /\ (q.stage # "wait" => q.trig = q.sent) /\ q.stage # "trigger"
  BY <1>1, <1>2, Zenon DEF CallTracked
<1>4. ASSUME NEW c \in q.sent PROVE c \in Online \ {s} /\ Among(q.id, submitted'[c][q.kind])
  <2>1. c \in p.sent /\ q.id = p.id /\ q.kind = p.kind BY <1>1, <1>2, Zenon
  <2>2. c \in Online \ {s} /\ Among(p.id, submitted[c][p.kind]) BY <1>1, <2>1, Zenon DEF CallTracked
  <2> QED BY <2>1, <2>2, Zenon
<1>5. ASSUME NEW c \in q.sent \ q.trig PROVE current'[c]["sync"] = q.id \/ Among(q.id, ran'[c]["sync"])
  BY <1>1, <1>2, Zenon DEF Taken
<1> QED BY <1>2, <1>3, <1>4, <1>5 DEF CallTracked, Taken, Among

(* The caller itself, or a target that is offline *)
LEMMA SubmitSkipInv ==
  ASSUME IndInv, NEW s \in Caller, SubmitSkip(s)
  PROVE  IndInv'
<1>1. /\ ~panicked /\ call[s].stage = "submit" /\ call' = Done(s)
      /\ UNCHANGED <<calls, fifo, ipi, handler, worker, current, async_avail, panicked, submitted, ran, returned>>
  BY Zenon DEF SubmitSkip, Submits, Free, history
<1>2. /\ call' \in [Caller -> CallState] /\ \A t \in Caller : t # s => call'[t] = call[t]
      /\ call'[s].stage = "submit" /\ call'[s].kind = call[s].kind /\ call'[s].id = call[s].id
      /\ call'[s].sent = call[s].sent /\ call'[s].trig = call[s].trig /\ call'[s].wait = call[s].wait
  BY <1>1, CallerFacts, DoneIs, Zenon
<1>3. TypeOK' BY <1>1, <1>2, CallerFacts, CallerTypes, Zenon
<1>4. NoCallStranded' BY <1>1, <1>2, CallerFacts, CallerAttends, Zenon
<1>5. ReturnedTaken'
  <2>1. CallTracked(s) /\ call[s].trig = call[s].sent BY <1>1, CallerFacts, Zenon DEF CallTracked
  <2>2. CallTracked(s)' BY <1>1, <1>2, <2>1, OwnTracked, Zenon
  <2>3. ReturnTracked(s)' BY <1>1, CallerFacts, Zenon DEF ReturnTracked, Taken, Among
  <2> QED BY <1>1, <1>2, <2>2, <2>3, CallerFacts, SameKept, OneTracked, Zenon
<1>6. Ordered' BY <1>1, CallerFacts, SameOrder, Zenon
<1> QED BY <1>3, <1>4, <1>5, <1>6, Zenon DEF IndInv, RunInOrder

(* The call is put in the fifo of the target. *)
LEMMA SubmitEnqueueInv ==
  ASSUME IndInv, NEW s \in Caller, SubmitEnqueue(s)
  PROVE  IndInv'
<1>1. PICK q : q = [call[s] EXCEPT !.stage = "trigger"] BY Zenon
<1>2. /\ ~panicked /\ call[s].stage = "submit" /\ Target(s) \in Online /\ Target(s) # s
      /\ call' = [call EXCEPT ![s].stage = "trigger"] /\ panicked' = (call[s].try = 0)
      /\ UNCHANGED <<calls, ipi, handler, worker, current, async_avail, ran, returned>>
  BY Zenon DEF SubmitEnqueue, Remote, Submits, Free
<1>3. call' = [call EXCEPT ![s] = q] BY <1>1, <1>2, CallerFacts, Zenon
<1>4. /\ q \in CallState /\ q.stage = "trigger" /\ q.kind = call[s].kind /\ q.id = call[s].id
      /\ q.sent = call[s].sent /\ q.trig = call[s].trig /\ q.wait = call[s].wait /\ q.todo = call[s].todo
  <2>1. call[s] \in CallState BY CallerFacts, Zenon
  <2>2. "trigger" \in {"idle", "submit", "trigger", "wait"} BY Zenon
  <2>3. q \in CallState BY <1>1, <2>1, <2>2, CallUpdates, Zenon
  <2> QED BY <1>1, <2>1, <2>3, Zenon DEF CallState
<1>5. call' \in [Caller -> CallState] /\ call'[s] = q /\ \A t \in Caller : t # s => call'[t] = call[t]
  BY <1>3, <1>4, CallerFacts, Zenon
<1>6. call[s].stage # "idle" BY <1>2, Zenon
<1>7. /\ fifo' \in [Cpu -> [Kind -> Fifos(FifoSize, Id)]]
      /\ submitted' \in [Cpu -> [Kind -> Seq(1 .. MaxCalls)]]
      /\ Ordered'
      /\ Among(call[s].id, submitted'[Target(s)][call[s].kind])
      /\ \A d \in Cpu, j \in Kind :
           /\ d # Target(s) \/ j # call[s].kind => fifo'[d][j] = fifo[d][j]
           /\ \A id : Among(id, submitted[d][j]) => Among(id, submitted'[d][j])
  BY <1>6, CallerFacts, EnqueueStep, Zenon
<1>8. TypeOK'
  <2>1. panicked' \in BOOLEAN BY <1>2, Zenon
  <2> QED BY <1>2, <1>5, <1>7, <2>1, CallerFacts, CallerTypes, Zenon
<1>9. Target(s)' = Target(s) BY <1>4, <1>5, Zenon DEF Target, Min
<1>10. NoCallStranded'
  <2>1. ASSUME NEW c \in Online, NEW k \in Kind, ~fifo_isempty(fifo'[c][k]) PROVE Attended(c, k)'
    <3>1. CASE c = Target(s) BY <1>4, <1>5, <1>9, <3>1, Zenon DEF Attended
    <3>2. CASE c # Target(s)
      <4>1. c \in Cpu BY SmpAssumption, Zenon
      <4>2. fifo'[c][k] = fifo[c][k] BY <1>7, <3>2, <4>1, Zenon
      <4>3. Attended(c, k) BY <1>2, <2>1, <4>2, CallerFacts, Zenon DEF NoCallStranded
      <4>4. ASSUME NEW t \in Caller, call[t].stage = "trigger", Target(t) = c
            PROVE  call'[t].stage = "trigger" /\ Target(t)' = c
        BY <1>2, <1>5, <4>4, Zenon DEF Target, Min
      <4> QED BY <1>2, <4>3, <4>4, AttendedKept, Zenon
    <3> QED BY <3>1, <3>2, Zenon
  <2> QED BY <2>1, Zenon DEF NoCallStranded, fifo_isempty
<1>11. ReturnedTaken'
  <2>1. Kept BY <1>2, <1>7, Zenon DEF Kept, Taken, Among
  <2>2. CallTracked(s)'
    <3>1. CallTracked(s) BY CallerFacts, Zenon
    <3>2. /\ q.id # NoCall /\ q.trig = q.sent /\ (q.wait => q.kind = "sync") /\ q.stage = "trigger"
      BY <1>2, <1>4, <3>1, Zenon DEF CallTracked
    <3>3. ASSUME NEW c \in q.sent \cup {Target(s)'}
          PROVE  c \in Online \ {s} /\ Among(q.id, submitted'[c][q.kind])
      <4>1. CASE c \in q.sent
        <5>1. c \in Online \ {s} /\ Among(q.id, submitted[c][q.kind])
          BY <1>4, <3>1, <4>1, Zenon DEF CallTracked
        <5>2. c \in Cpu /\ q.kind \in Kind BY <1>4, <5>1, SmpAssumption, CallerFacts, Zenon
        <5> QED BY <1>7, <5>1, <5>2, Zenon
      <4>2. CASE c = Target(s)' BY <1>2, <1>4, <1>7, <1>9, <4>2, Zenon
      <4> QED BY <4>1, <4>2, Zenon
    <3>4. call'[s] = q BY <1>5, Zenon
    <3> QED BY <3>2, <3>3, <3>4, Zenon DEF CallTracked, Among
  <2>3. ReturnTracked(s)' BY <1>2, CallerFacts, Zenon DEF ReturnTracked, Taken, Among
  <2> QED BY <1>2, <1>5, <2>1, <2>2, <2>3, CallerFacts, OneTracked, Zenon
<1> QED BY <1>7, <1>8, <1>10, <1>11, Zenon DEF IndInv, RunInOrder

(* With the fifo full: another try, or the panic *)
LEMMA SubmitFullInv ==
  ASSUME IndInv, NEW s \in Caller, SubmitFull(s)
  PROVE  IndInv'
<1>1. /\ ~panicked /\ call[s].stage = "submit" /\ Target(s) \in Online
      /\ UNCHANGED <<calls, fifo, handler, worker, current, async_avail, submitted, ran, returned>>
  BY Zenon DEF SubmitFull, Remote, Submits, Free, history
<1>2. Ordered' BY <1>1, CallerFacts, SameOrder, Zenon
<1>3. CASE panicked' = TRUE /\ UNCHANGED <<call, ipi>>
  <2>1. TypeOK' BY <1>1, <1>3, CallerFacts, CallerTypes, Zenon
  <2>2. NoCallStranded' BY <1>3, Zenon DEF NoCallStranded
  <2>3. ReturnedTaken'
    <3>1. CallTracked(s)' /\ ReturnTracked(s)'
      BY <1>1, <1>3, CallerFacts, SameKept, OthersTracked, Zenon
    <3> QED BY <1>1, <1>3, <3>1, CallerFacts, SameKept, OneTracked, Zenon
  <2> QED BY <1>2, <2>1, <2>2, <2>3, Zenon DEF IndInv, RunInOrder
<1>4. CASE /\ call[s].try # 0 /\ ipi' = [ipi EXCEPT ![Target(s)] = TRUE]
           /\ call' = [call EXCEPT ![s].try = @ - 1]
           /\ UNCHANGED panicked
  <2>1. PICK q : q = [call[s] EXCEPT !.try = call[s].try - 1] BY Zenon
  <2>2. call' = [call EXCEPT ![s] = q] BY <1>4, <2>1, CallerFacts, Zenon
  <2>3. /\ q \in CallState /\ q.stage = call[s].stage /\ q.kind = call[s].kind /\ q.id = call[s].id
        /\ q.sent = call[s].sent /\ q.trig = call[s].trig /\ q.wait = call[s].wait
    <3>1. call[s] \in CallState BY CallerFacts, Zenon
    <3>2. call[s].try - 1 \in 0 .. Tries BY <1>4, <3>1, SmpAssumption DEF CallState
    <3>3. q \in CallState BY <2>1, <3>1, <3>2, CallUpdates, Zenon
    <3> QED BY <2>1, <3>1, <3>3, Zenon DEF CallState
  <2>4. call' \in [Caller -> CallState] /\ call'[s] = q /\ \A t \in Caller : t # s => call'[t] = call[t]
    BY <2>2, <2>3, CallerFacts, Zenon
  <2>5. ipi' \in [Cpu -> BOOLEAN] /\ \A c \in Cpu : ipi[c] => ipi'[c] BY <1>4, CallerFacts, Zenon
  <2>6. TypeOK' BY <1>1, <1>4, <2>4, <2>5, CallerFacts, CallerTypes, Zenon
  <2>7. NoCallStranded' BY <1>1, <2>4, <2>5, CallerFacts, CallerAttends, Zenon
  <2>8. ReturnedTaken'
    <3>1. CallTracked(s) /\ call[s].trig = call[s].sent BY <1>1, CallerFacts, Zenon DEF CallTracked
    <3>2. CallTracked(s)' BY <1>1, <2>3, <2>4, <3>1, OwnTracked, Zenon
    <3>3. ReturnTracked(s)' BY <1>1, CallerFacts, Zenon DEF ReturnTracked, Taken, Among
    <3> QED BY <1>1, <2>4, <3>2, <3>3, CallerFacts, SameKept, OneTracked, Zenon
  <2> QED BY <1>2, <2>6, <2>7, <2>8, Zenon DEF IndInv, RunInOrder
<1> QED BY <1>3, <1>4, Zenon DEF SubmitFull

(* The interrupt of the target is triggered. *)
LEMMA SubmitTriggerInv ==
  ASSUME IndInv, NEW s \in Caller, SubmitTrigger(s)
  PROVE  IndInv'
<1>1. /\ ~panicked /\ call[s].stage = "trigger" /\ ipi' = [ipi EXCEPT ![Target(s)] = TRUE]
      /\ call' = [Done(s) EXCEPT ![s].sent = @ \cup {Target(s)}, ![s].trig = @ \cup {Target(s)}]
      /\ UNCHANGED <<calls, fifo, handler, worker, current, async_avail, panicked, submitted, ran, returned>>
  BY Zenon DEF SubmitTrigger, Free, history
<1>2. /\ Done(s) \in [Caller -> CallState] /\ \A t \in Caller : t # s => Done(s)[t] = call[t]
      /\ Done(s)[s].stage = "submit" /\ Done(s)[s].kind = call[s].kind /\ Done(s)[s].id = call[s].id
      /\ Done(s)[s].sent = call[s].sent /\ Done(s)[s].trig = call[s].trig
      /\ Done(s)[s].wait = call[s].wait
  BY CallerFacts, DoneIs, Zenon
<1>3. PICK d : d = Done(s)[s] BY Zenon
<1>4. /\ call[s].trig = call[s].sent /\ call[s].id # NoCall /\ (call[s].wait => call[s].kind = "sync")
      /\ \A c \in call[s].sent \cup {Target(s)} :
           c \in Online \ {s} /\ Among(call[s].id, submitted[c][call[s].kind])
  BY <1>1, CallerFacts, Zenon DEF CallTracked
<1>5. PICK m : m = call[s].sent \cup {Target(s)} BY Zenon
<1>6. m \in SUBSET Online BY <1>4, <1>5, Zenon
<1>7. PICK p : p = [d EXCEPT !.sent = m] BY Zenon
<1>8. PICK q : q = [p EXCEPT !.trig = m] BY Zenon
<1>9. /\ d \in CallState /\ d.stage = "submit" /\ d.kind = call[s].kind /\ d.id = call[s].id
      /\ d.wait = call[s].wait /\ d.sent = call[s].sent /\ d.trig = call[s].sent
  BY <1>2, <1>3, <1>4, Zenon
<1>10. p \in CallState /\ q \in CallState BY <1>6, <1>7, <1>8, <1>9, CallUpdates, Zenon
<1>11. /\ p.stage = d.stage /\ p.kind = d.kind /\ p.id = d.id /\ p.wait = d.wait
       /\ p.sent = m /\ p.trig = d.trig
  BY <1>7, <1>9, Zenon DEF CallState
<1>12. /\ q.stage = p.stage /\ q.kind = p.kind /\ q.id = p.id /\ q.wait = p.wait
       /\ q.sent = p.sent /\ q.trig = m
  BY <1>8, <1>10, Zenon DEF CallState
<1>13. call' = [Done(s) EXCEPT ![s] = q]
  BY <1>1, <1>2, <1>3, <1>5, <1>7, <1>8, <1>9, Zenon
<1>14. call' \in [Caller -> CallState] /\ call'[s] = q /\ \A t \in Caller : t # s => call'[t] = call[t]
  BY <1>2, <1>10, <1>13, Zenon
<1>15. ipi' \in [Cpu -> BOOLEAN] /\ ipi'[Target(s)] /\ \A c \in Cpu : ipi[c] => ipi'[c]
  BY <1>1, <1>4, CallerFacts, SmpAssumption, Zenon
<1>16. TypeOK' BY <1>1, <1>14, <1>15, CallerFacts, CallerTypes, Zenon
<1>17. Ordered' BY <1>1, CallerFacts, SameOrder, Zenon
<1>18. NoCallStranded'
  <2>1. ASSUME NEW c \in Online, NEW k \in Kind, ~fifo_isempty(fifo'[c][k]) PROVE Attended(c, k)'
    <3>1. Attended(c, k) BY <1>1, <2>1, CallerFacts, Zenon DEF NoCallStranded
    <3>2. c \in Cpu BY SmpAssumption, Zenon
    <3>3. ASSUME NEW t \in Caller, call[t].stage = "trigger", Target(t) = c
          PROVE  ipi'[c] \/ (call'[t].stage = "trigger" /\ Target(t)' = c)
      BY <1>14, <1>15, <3>3, Zenon DEF Target, Min
    <3> QED BY <1>1, <1>15, <3>1, <3>2, <3>3, AttendedKept, Zenon
  <2> QED BY <2>1, Zenon DEF NoCallStranded, fifo_isempty
<1>19. ReturnedTaken'
  <2>1. CallTracked(s)'
    <3>1. /\ q.stage = "submit" /\ q.id # NoCall /\ q.trig = q.sent /\ (q.wait => q.kind = "sync")
      BY <1>4, <1>9, <1>11, <1>12, Zenon
    <3>2. ASSUME NEW c \in q.sent PROVE c \in Online \ {s} /\ Among(q.id, submitted'[c][q.kind])
      BY <1>1, <1>4, <1>5, <1>9, <1>11, <1>12, Zenon
    <3>3. call'[s] = q BY <1>14, Zenon
    <3> QED BY <3>1, <3>2, <3>3, Zenon DEF CallTracked, Among
  <2>2. ReturnTracked(s)' BY <1>1, CallerFacts, Zenon DEF ReturnTracked, Taken, Among
  <2> QED BY <1>1, <1>14, <2>1, <2>2, CallerFacts, SameKept, OneTracked, Zenon
<1> QED BY <1>16, <1>17, <1>18, <1>19, Zenon DEF IndInv, RunInOrder

(* The call is over for its thread. *)
LEMMA FinishInv ==
  ASSUME IndInv, NEW s \in Caller, NEW waited \in BOOLEAN, Finish(s, waited), ~panicked,
         call[s].stage # "idle", call[s].stage # "trigger", waited => call[s].trig = {}
  PROVE  IndInv'
<1>1. PICK r : r = [id |-> call[s].id, targets |-> call[s].sent] BY Zenon
<1>2. /\ call' = [call EXCEPT ![s] = Idle]
      /\ returned' = [returned EXCEPT ![s] = IF waited THEN r ELSE returned[s]]
      /\ UNCHANGED <<calls, fifo, ipi, handler, worker, current, async_avail, panicked, submitted, ran>>
  BY <1>1, Zenon DEF Finish
<1>3. Idle \in CallState BY SmpAssumption DEF Idle, CallState, Kind, NoCall
<1>4. call' \in [Caller -> CallState] /\ call'[s] = Idle /\ \A t \in Caller : t # s => call'[t] = call[t]
  BY <1>2, <1>3, CallerFacts, Zenon
<1>5. r \in [id : Id, targets : SUBSET Online] /\ r.id = call[s].id /\ r.targets = call[s].sent
  BY <1>1, CallerFacts, Zenon
<1>6. /\ returned' \in [Caller -> [id : Id, targets : SUBSET Online]]
      /\ returned'[s] = IF waited THEN r ELSE returned[s]
      /\ \A t \in Caller : t # s => returned'[t] = returned[t]
  BY <1>2, <1>5, CallerFacts, Zenon
<1>7. TypeOK' BY <1>2, <1>4, <1>6, CallerFacts, CallerTypes, Zenon
<1>8. Ordered' BY <1>2, CallerFacts, SameOrder, Zenon
<1>9. NoCallStranded' BY <1>2, <1>4, CallerFacts, CallerAttends, Zenon
<1>10. ReturnedTaken'
  <2>1. CallTracked(s)' BY <1>4 DEF CallTracked, Idle
  <2>2. ReturnTracked(s)'
    <3>1. CASE waited
      <4>1. ASSUME NEW c \in r.targets
            PROVE  r.id # NoCall /\ (current[c]["sync"] = r.id \/ Among(r.id, ran[c]["sync"]))
        <5>1. c \in call[s].sent \ call[s].trig /\ r.id = call[s].id BY <1>5, <3>1, Zenon
        <5> QED BY <5>1, CallerFacts, Zenon DEF CallTracked, Taken
      <4>2. returned'[s] = r BY <1>6, <3>1, Zenon
      <4> QED BY <1>2, <4>1, <4>2, Zenon DEF ReturnTracked, Taken, Among
    <3>2. CASE ~waited
      <4>1. returned'[s] = returned[s] BY <1>6, <3>2, Zenon
      <4>2. ReturnTracked(s) BY CallerFacts, Zenon
      <4> QED BY <1>2, <4>1, <4>2, Zenon DEF ReturnTracked, Taken, Among
    <3> QED BY <3>1, <3>2, Zenon
  <2> QED BY <1>2, <1>4, <1>6, <2>1, <2>2, CallerFacts, SameKept, OneTracked, Zenon
<1> QED BY <1>7, <1>8, <1>9, <1>10, Zenon DEF IndInv, RunInOrder

(* The last target is done. *)
LEMMA SubmitDoneInv ==
  ASSUME IndInv, NEW s \in Caller, SubmitDone(s)
  PROVE  IndInv'
<1>1. ~panicked /\ call[s].stage = "submit" BY Zenon DEF SubmitDone, Free
<1>2. CASE Finish(s, FALSE) BY <1>1, <1>2, FinishInv, Zenon
<1>3. CASE /\ Waits(s) /\ call' = [call EXCEPT ![s].stage = "wait"]
           /\ UNCHANGED <<calls, fifo, ipi, handler, worker, current, async_avail, panicked,
                          submitted, ran, returned>>
  <2>1. PICK q : q = [call[s] EXCEPT !.stage = "wait"] BY Zenon
  <2>2. call' = [call EXCEPT ![s] = q] BY <1>3, <2>1, CallerFacts, Zenon
  <2>3. /\ q \in CallState /\ q.stage = "wait" /\ q.kind = call[s].kind /\ q.id = call[s].id
        /\ q.sent = call[s].sent /\ q.trig = call[s].trig /\ q.wait = call[s].wait
    <3>1. call[s] \in CallState BY CallerFacts, Zenon
    <3>2. "wait" \in {"idle", "submit", "trigger", "wait"} BY Zenon
    <3>3. q \in CallState BY <2>1, <3>1, <3>2, CallUpdates, Zenon
    <3> QED BY <2>1, <3>1, <3>3, Zenon DEF CallState
  <2>4. call' \in [Caller -> CallState] /\ call'[s] = q /\ \A t \in Caller : t # s => call'[t] = call[t]
    BY <2>2, <2>3, CallerFacts, Zenon
  <2>5. TypeOK' BY <1>3, <2>4, CallerFacts, CallerTypes, Zenon
  <2>6. Ordered' BY <1>3, CallerFacts, SameOrder, Zenon
  <2>7. NoCallStranded' BY <1>1, <1>3, <2>4, CallerFacts, CallerAttends, Zenon
  <2>8. ReturnedTaken'
    <3>1. CallTracked(s) /\ call[s].trig = call[s].sent /\ call[s].wait
      BY <1>1, <1>3, CallerFacts, Zenon DEF CallTracked, Waits
    <3>2. CallTracked(s)' BY <1>1, <1>3, <2>3, <2>4, <3>1, OwnTracked, Zenon
    <3>3. ReturnTracked(s)' BY <1>3, CallerFacts, Zenon DEF ReturnTracked, Taken, Among
    <3> QED BY <1>3, <2>4, <3>2, <3>3, CallerFacts, SameKept, OneTracked, Zenon
  <2> QED BY <2>5, <2>6, <2>7, <2>8, Zenon DEF IndInv, RunInOrder
<1> QED BY <1>2, <1>3, Zenon DEF SubmitDone, history

(* The wait sees the fifo of a target empty: the target has taken every    *)
(* call that was put there, this one among them.                           *)
LEMMA WaitLookInv ==
  ASSUME IndInv, NEW s \in Caller, NEW c \in Cpu, WaitLook(s, c)
  PROVE  IndInv'
<1>1. /\ ~panicked /\ call[s].stage = "wait" /\ c \in call[s].trig
      /\ fifo_isempty(fifo[c]["sync"]) /\ call' = [call EXCEPT ![s].trig = @ \ {c}]
      /\ UNCHANGED <<calls, fifo, ipi, handler, worker, current, async_avail, panicked,
                     submitted, ran, returned>>
  BY Zenon DEF WaitLook, Free, history
<1>2. PICK q : q = [call[s] EXCEPT !.trig = call[s].trig \ {c}] BY Zenon
<1>3. call' = [call EXCEPT ![s] = q] BY <1>1, <1>2, CallerFacts, Zenon
<1>4. /\ q \in CallState /\ q.stage = "wait" /\ q.kind = call[s].kind /\ q.id = call[s].id
      /\ q.sent = call[s].sent /\ q.trig = call[s].trig \ {c} /\ q.wait = call[s].wait
  <2>1. call[s] \in CallState BY CallerFacts, Zenon
  <2>2. call[s].trig \ {c} \in SUBSET Online BY <2>1, Zenon DEF CallState
  <2>3. q \in CallState BY <1>2, <2>1, <2>2, CallUpdates, Zenon
  <2> QED BY <1>1, <1>2, <2>1, <2>3, Zenon DEF CallState
<1>5. call' \in [Caller -> CallState] /\ call'[s] = q /\ \A t \in Caller : t # s => call'[t] = call[t]
  BY <1>3, <1>4, CallerFacts, Zenon
<1>6. TypeOK' BY <1>1, <1>5, CallerFacts, CallerTypes, Zenon
<1>7. Ordered' BY <1>1, CallerFacts, SameOrder, Zenon
<1>8. NoCallStranded' BY <1>1, <1>5, CallerFacts, CallerAttends, Zenon
<1>9. /\ CallTracked(s) /\ call[s].wait /\ call[s].kind = "sync" /\ call[s].id # NoCall
      /\ \A d \in call[s].sent : Among(call[s].id, submitted[d]["sync"])
      /\ \A d \in call[s].sent \ call[s].trig : Taken(d, call[s].id)
  BY <1>1, CallerFacts, Zenon DEF CallTracked
<1>10. Among(call[s].id, submitted[c]["sync"]) => Taken(c, call[s].id)
  <2> DEFINE r == ran[c]["sync"]
             h == InHand(current[c]["sync"])
             f == fifo[c]["sync"]
  <2>1. TypeOK /\ Ordered /\ "sync" \in Kind BY CallerFacts, Zenon DEF Kind
  <2>2. /\ f \in Fifos(FifoSize, Id) /\ FifoSize \in Nat \ {0} /\ Contents(f) \in Seq(Id)
        /\ r \in Seq(Id) /\ h \in Seq(Id) /\ submitted[c]["sync"] = (r \o h) \o Contents(f)
    BY <2>1, FifoTypes, Zenon DEF Ordered
  <2>3. Contents(f) = << >>
    <3>1. Len(Contents(f)) = f.avail_count BY <2>2, ContentsType, SMTT(60)
    <3>2. Len(Contents(f)) = 0 BY <1>1, <3>1, Zenon DEF fifo_isempty
    <3> QED BY <2>2, <3>2, SMTT(60)
  <2>4. r \o h \in Seq(Id) BY <2>2, ConcatProperties, Zenon
  <2>5. submitted[c]["sync"] = r \o h
    <3> HIDE DEF r, h, f
    <3> QED BY <2>2, <2>3, <2>4, ConcatEmptySeq, Zenon
  <2>6. Among(call[s].id, r \o h) <=> Among(call[s].id, r) \/ Among(call[s].id, h)
    <3> HIDE DEF r, h
    <3> QED BY <2>2, AmongConcat, Zenon
  <2>7. Among(call[s].id, h) => current[c]["sync"] = call[s].id BY DEF Among, InHand
  <2> QED BY <2>5, <2>6, <2>7, Zenon DEF Taken
<1>11. ReturnedTaken'
  <2>1. ASSUME NEW d \in call[s].sent \ q.trig PROVE Taken(d, call[s].id)
    <3>1. d = c \/ d \in call[s].sent \ call[s].trig BY <1>4, Zenon
    <3> QED BY <1>9, <1>10, <3>1, Zenon
  <2>2. CallTracked(s)' BY <1>1, <1>4, <1>5, <1>9, <2>1, OwnTracked, Zenon
  <2>3. ReturnTracked(s)' BY <1>1, CallerFacts, Zenon DEF ReturnTracked, Taken, Among
  <2> QED BY <1>1, <1>5, <2>2, <2>3, CallerFacts, SameKept, OneTracked, Zenon
<1> QED BY <1>6, <1>7, <1>8, <1>11, Zenon DEF IndInv, RunInOrder

(* The wait is over, because every target is done or for the time. *)
LEMMA WaitEndInv ==
  ASSUME IndInv, NEW s \in Caller, WaitEnd(s)
  PROVE  IndInv'
<1>1. ~panicked /\ call[s].stage = "wait" /\ Finish(s, call[s].trig = {}) BY Zenon DEF WaitEnd, Free
<1>2. CASE call[s].trig = {}
  <2>1. Finish(s, TRUE) BY <1>1, <1>2, Zenon DEF Finish
  <2> QED BY <1>1, <1>2, <2>1, FinishInv, Zenon
<1>3. CASE call[s].trig # {}
  <2>1. Finish(s, FALSE) BY <1>1, <1>3, Zenon DEF Finish
  <2> QED BY <1>1, <2>1, FinishInv, Zenon
<1> QED BY <1>2, <1>3, Zenon

-----------------------------------------------------------------------------
(* What IndInv says of the host CPUs. *)
LEMMA CpuFacts ==
  ASSUME IndInv
  PROVE  /\ TypeOK /\ Ordered /\ ReturnedTaken /\ NoCallStranded
         /\ fifo \in [Cpu -> [Kind -> Fifos(FifoSize, Id)]]
         /\ current \in [Cpu -> [Kind -> Id]] /\ ran \in [Cpu -> [Kind -> Seq(1 .. MaxCalls)]]
         /\ ipi \in [Cpu -> BOOLEAN] /\ handler \in [Cpu -> {"off", "sync", "signal"}]
         /\ worker \in [Cpu -> {"wait", "run"}] /\ async_avail \in [Cpu -> Nat]
  BY Zenon DEF IndInv, RunInOrder, TypeOK, Id

(* The threads stay tracked in a step of a host CPU. *)
LEMMA CpuTracked ==
  ASSUME TypeOK, ReturnedTaken, Kept, UNCHANGED <<call, returned>>
  PROVE  ReturnedTaken'
<1>1. ASSUME NEW t \in Caller PROVE CallTracked(t)' /\ ReturnTracked(t)' BY OthersTracked, Zenon
<1> QED BY <1>1, Zenon DEF ReturnedTaken

(* The fifos of the other host CPUs stay attended in a step of one. *)
LEMMA CpuAttends ==
  ASSUME NoCallStranded, ~panicked, NEW a \in Cpu, UNCHANGED call,
         \A c \in Cpu, k \in Kind : fifo_isempty(fifo[c][k]) => fifo_isempty(fifo'[c][k]),
         \A c \in Cpu : c # a => /\ ipi'[c] = ipi[c] /\ handler'[c] = handler[c]
                                 /\ worker'[c] = worker[c] /\ async_avail'[c] = async_avail[c],
         \A k \in Kind : Attended(a, k) /\ ~fifo_isempty(fifo'[a][k]) => Attended(a, k)'
  PROVE  NoCallStranded'
<1>1. ASSUME NEW c \in Online, NEW k \in Kind, ~fifo_isempty(fifo'[c][k]) PROVE Attended(c, k)'
  <2>1. c \in Cpu BY SmpAssumption, Zenon
  <2>2. Attended(c, k) BY <1>1, <2>1, Zenon DEF NoCallStranded
  <2>3. CASE c = a BY <1>1, <2>2, <2>3, Zenon
  <2>4. CASE c # a
    <3>1. ASSUME NEW t \in Caller PROVE call'[t] = call[t] /\ Target(t)' = Target(t)
      BY Zenon DEF Target, Min
    <3> QED BY <2>1, <2>2, <2>4, <3>1, AttendedKept, Zenon
  <2> QED BY <2>3, <2>4, Zenon
<1> QED BY <1>1, Zenon DEF NoCallStranded, fifo_isempty

(* The interrupt is taken. *)
LEMMA InterruptInv ==
  ASSUME IndInv, NEW c \in Cpu, Interrupt(c)
  PROVE  IndInv'
<1>1. /\ ~panicked /\ ipi' = [ipi EXCEPT ![c] = FALSE] /\ handler' = [handler EXCEPT ![c] = "sync"]
      /\ UNCHANGED <<calls, call, fifo, worker, current, async_avail, panicked, submitted, ran, returned>>
  BY Zenon DEF Interrupt, Free, history
<1>2. /\ ipi' \in [Cpu -> BOOLEAN] /\ handler' \in [Cpu -> {"off", "sync", "signal"}]
      /\ handler'[c] = "sync"
      /\ \A d \in Cpu : d # c => ipi'[d] = ipi[d] /\ handler'[d] = handler[d]
  BY <1>1, CpuFacts, Zenon
<1>3. TypeOK' BY <1>1, <1>2, CpuFacts, CpuTypes, Zenon
<1>4. \A k \in Kind : Attended(c, k)' BY <1>2, Zenon DEF Attended
<1>5. NoCallStranded' BY <1>1, <1>2, <1>4, CpuFacts, CpuAttends, Zenon
<1>6. ReturnedTaken' BY <1>1, CpuFacts, SameKept, CpuTracked, Zenon
<1>7. Ordered' BY <1>1, CpuFacts, SameOrder, Zenon
<1> QED BY <1>3, <1>5, <1>6, <1>7, Zenon DEF IndInv, RunInOrder

(* A step of the loop that empties a fifo, of the handler or of the thread *)
LEMMA ServeInv ==
  ASSUME IndInv, NEW c \in Cpu, NEW k \in Kind, Serve(c, k), ~panicked,
         UNCHANGED <<calls, call, ipi, handler, worker, async_avail, panicked, submitted, returned>>
  PROVE  IndInv'
<1>1. /\ fifo' \in [Cpu -> [Kind -> Fifos(FifoSize, Id)]]
      /\ current' \in [Cpu -> [Kind -> Id]]
      /\ ran' \in [Cpu -> [Kind -> Seq(1 .. MaxCalls)]]
      /\ Ordered'
      /\ \A d \in Cpu, j \in Kind : fifo_isempty(fifo[d][j]) => fifo_isempty(fifo'[d][j])
      /\ \A d \in Cpu, id \in 1 .. MaxCalls : Taken(d, id) => Taken(d, id)'
  BY CpuFacts, ServeStep, Zenon
<1>2. TypeOK' BY <1>1, CpuFacts, CpuTypes, Zenon
<1>3. Kept BY <1>1, Zenon DEF Kept
<1>4. ReturnedTaken' BY <1>3, CpuFacts, CpuTracked, Zenon
<1>5. ASSUME NEW j \in Kind, Attended(c, j) PROVE Attended(c, j)'
  <2>1. ASSUME NEW t \in Caller PROVE call'[t] = call[t] /\ Target(t)' = Target(t)
    BY Zenon DEF Target, Min
  <2> QED BY <1>5, <2>1, AttendedKept, Zenon
<1>6. NoCallStranded' BY <1>1, <1>5, CpuFacts, CpuAttends, Zenon
<1> QED BY <1>1, <1>2, <1>4, <1>6, Zenon DEF IndInv, RunInOrder

(* The handler has seen the sync fifo empty. *)
LEMMA HandlerServedInv ==
  ASSUME IndInv, NEW c \in Cpu, HandlerServed(c)
  PROVE  IndInv'
<1>1. /\ ~panicked /\ handler' = [handler EXCEPT ![c] = "signal"] /\ fifo_isempty(fifo[c]["sync"])
      /\ UNCHANGED <<calls, call, fifo, ipi, worker, current, async_avail, panicked, submitted, ran, returned>>
  BY Zenon DEF HandlerServed, Served, history
<1>2. /\ handler' \in [Cpu -> {"off", "sync", "signal"}] /\ handler'[c] = "signal"
      /\ \A d \in Cpu : d # c => handler'[d] = handler[d]
  BY <1>1, CpuFacts, Zenon
<1>3. TypeOK' BY <1>1, <1>2, CpuFacts, CpuTypes, Zenon
<1>4. ASSUME NEW k \in Kind, ~fifo_isempty(fifo'[c][k]) PROVE Attended(c, k)'
  <2>1. k = "async" BY <1>1, <1>4, Zenon DEF Kind
  <2> QED BY <1>2, <2>1, Zenon DEF Attended
<1>5. NoCallStranded' BY <1>1, <1>2, <1>4, CpuFacts, CpuAttends, Zenon
<1>6. ReturnedTaken' BY <1>1, CpuFacts, SameKept, CpuTracked, Zenon
<1>7. Ordered' BY <1>1, CpuFacts, SameOrder, Zenon
<1> QED BY <1>3, <1>5, <1>6, <1>7, Zenon DEF IndInv, RunInOrder

(* The handler wakes the thread if the async fifo is not empty. *)
LEMMA HandlerSignalInv ==
  ASSUME IndInv, NEW c \in Cpu, HandlerSignal(c)
  PROVE  IndInv'
<1>1. /\ ~panicked /\ handler[c] = "signal" /\ handler' = [handler EXCEPT ![c] = "off"]
      /\ async_avail' = [async_avail EXCEPT ![c] =
                            IF fifo_isempty(fifo[c]["async"]) THEN async_avail[c] ELSE async_avail[c] + 1]
      /\ UNCHANGED <<calls, call, fifo, ipi, worker, current, panicked, submitted, ran, returned>>
  BY Zenon DEF HandlerSignal, history
<1>2. /\ handler' \in [Cpu -> {"off", "sync", "signal"}] /\ async_avail' \in [Cpu -> Nat]
      /\ async_avail[c] \in Nat
      /\ async_avail'[c] = IF fifo_isempty(fifo[c]["async"]) THEN async_avail[c] ELSE async_avail[c] + 1
      /\ \A d \in Cpu : d # c => handler'[d] = handler[d] /\ async_avail'[d] = async_avail[d]
  BY <1>1, CpuFacts
<1>3. TypeOK' BY <1>1, <1>2, CpuFacts, CpuTypes, Zenon
<1>4. ASSUME NEW k \in Kind, Attended(c, k), ~fifo_isempty(fifo'[c][k]) PROVE Attended(c, k)'
  <2>1. CASE k = "async"
    <3>1. async_avail'[c] > 0 BY <1>1, <1>2, <1>4, <2>1
    <3> QED BY <2>1, <3>1, Zenon DEF Attended
  <2>2. CASE k # "async"
    <3>1. \/ ipi[c] \/ \E s \in Caller : call[s].stage = "trigger" /\ Target(s) = c
      BY <1>1, <1>4, <2>2, Zenon DEF Attended
    <3>2. ASSUME NEW t \in Caller PROVE call'[t] = call[t] /\ Target(t)' = Target(t)
      BY <1>1, Zenon DEF Target, Min
    <3> QED BY <1>1, <3>1, <3>2, Zenon DEF Attended
  <2> QED BY <2>1, <2>2, Zenon
<1>5. NoCallStranded' BY <1>1, <1>2, <1>4, CpuFacts, CpuAttends, Zenon
<1>6. ReturnedTaken' BY <1>1, CpuFacts, SameKept, CpuTracked, Zenon
<1>7. Ordered' BY <1>1, CpuFacts, SameOrder, Zenon
<1> QED BY <1>3, <1>5, <1>6, <1>7, Zenon DEF IndInv, RunInOrder

(* smp_ipi_main() is woken. *)
LEMMA WorkerWakeInv ==
  ASSUME IndInv, NEW c \in Cpu, WorkerWake(c)
  PROVE  IndInv'
<1>1. /\ ~panicked /\ async_avail[c] > 0 /\ async_avail' = [async_avail EXCEPT ![c] = @ - 1]
      /\ worker' = [worker EXCEPT ![c] = "run"]
      /\ UNCHANGED <<calls, call, fifo, ipi, handler, current, panicked, submitted, ran, returned>>
  BY Zenon DEF WorkerWake, Free, history
<1>2. /\ worker' \in [Cpu -> {"wait", "run"}] /\ worker'[c] = "run" /\ async_avail' \in [Cpu -> Nat]
      /\ \A d \in Cpu : d # c => worker'[d] = worker[d] /\ async_avail'[d] = async_avail[d]
  BY <1>1, CpuFacts
<1>3. TypeOK' BY <1>1, <1>2, CpuFacts, CpuTypes, Zenon
<1>4. ASSUME NEW k \in Kind, Attended(c, k) PROVE Attended(c, k)'
  <2>1. ASSUME NEW t \in Caller PROVE call'[t] = call[t] /\ Target(t)' = Target(t)
    BY <1>1, Zenon DEF Target, Min
  <2> QED BY <1>1, <1>2, <1>4, <2>1, Zenon DEF Attended
<1>5. NoCallStranded' BY <1>1, <1>2, <1>4, CpuFacts, CpuAttends, Zenon
<1>6. ReturnedTaken' BY <1>1, CpuFacts, SameKept, CpuTracked, Zenon
<1>7. Ordered' BY <1>1, CpuFacts, SameOrder, Zenon
<1> QED BY <1>3, <1>5, <1>6, <1>7, Zenon DEF IndInv, RunInOrder

(* The thread has seen the async fifo empty and goes to sleep. *)
LEMMA WorkerServedInv ==
  ASSUME IndInv, NEW c \in Cpu, WorkerServed(c)
  PROVE  IndInv'
<1>1. /\ ~panicked /\ worker' = [worker EXCEPT ![c] = "wait"] /\ fifo_isempty(fifo[c]["async"])
      /\ UNCHANGED <<calls, call, fifo, ipi, handler, current, async_avail, panicked, submitted, ran, returned>>
  BY Zenon DEF WorkerServed, Free, Served, history
<1>2. /\ worker' \in [Cpu -> {"wait", "run"}] /\ \A d \in Cpu : d # c => worker'[d] = worker[d]
  BY <1>1, CpuFacts, Zenon
<1>3. TypeOK' BY <1>1, <1>2, CpuFacts, CpuTypes, Zenon
<1>4. ASSUME NEW k \in Kind, Attended(c, k), ~fifo_isempty(fifo'[c][k]) PROVE Attended(c, k)'
  <2>1. k # "async" BY <1>1, <1>4, Zenon
  <2>2. ASSUME NEW t \in Caller PROVE call'[t] = call[t] /\ Target(t)' = Target(t)
    BY <1>1, Zenon DEF Target, Min
  <2> QED BY <1>1, <1>4, <2>1, <2>2, Zenon DEF Attended
<1>5. NoCallStranded' BY <1>1, <1>2, <1>4, CpuFacts, CpuAttends, Zenon
<1>6. ReturnedTaken' BY <1>1, CpuFacts, SameKept, CpuTracked, Zenon
<1>7. Ordered' BY <1>1, CpuFacts, SameOrder, Zenon
<1> QED BY <1>3, <1>5, <1>6, <1>7, Zenon DEF IndInv, RunInOrder

-----------------------------------------------------------------------------
(* At the start nothing was called. *)
LEMMA InitInv ==
  ASSUME Init
  PROVE  IndInv
<1>1. 0 \in Id /\ MaxCalls \in Nat /\ FifoSize \in Nat \ {0} BY SmpAssumption DEF Id
<1>2. /\ fifo_alloc(FifoSize, NoCall) \in Fifos(FifoSize, Id)
      /\ Contents(fifo_alloc(FifoSize, NoCall)) = << >>
  BY <1>1, AllocEmpty, Zenon DEF NoCall
<1>3. TypeOK
  <2>1. Idle \in CallState BY SmpAssumption DEF Idle, CallState, Kind, NoCall
  <2>2. call \in [Caller -> CallState] BY <2>1, Zenon DEF Init
  <2>3. fifo \in [Cpu -> [Kind -> Fifos(FifoSize, Id)]] BY <1>2, Zenon DEF Init
  <2>4. /\ current \in [Cpu -> [Kind -> Id]] /\ calls \in 0 .. MaxCalls
        /\ ipi \in [Cpu -> BOOLEAN] /\ panicked \in BOOLEAN
        /\ handler \in [Cpu -> {"off", "sync", "signal"}] /\ worker \in [Cpu -> {"wait", "run"}]
        /\ async_avail \in [Cpu -> Nat]
    <3>1. /\ 0 \in Nat /\ 0 \in 0 .. MaxCalls /\ FALSE \in BOOLEAN /\ "wait" \in {"wait", "run"}
          /\ "off" \in {"off", "sync", "signal"} /\ NoCall \in Id
      BY <1>1 DEF NoCall
    <3>2. calls \in 0 .. MaxCalls /\ panicked \in BOOLEAN BY <3>1, Zenon DEF Init
    <3>3. current \in [Cpu -> [Kind -> Id]] BY <3>1, Zenon DEF Init
    <3>4. ipi \in [Cpu -> BOOLEAN] BY Zenon DEF Init
    <3>5. handler \in [Cpu -> {"off", "sync", "signal"}] BY <3>1, Zenon DEF Init
    <3>6. worker \in [Cpu -> {"wait", "run"}] /\ async_avail \in [Cpu -> Nat] BY <3>1, Zenon DEF Init
    <3> QED BY <3>2, <3>3, <3>4, <3>5, <3>6, Zenon
  <2>5. << >> \in Seq(1 .. MaxCalls) OBVIOUS
  <2>6. /\ submitted \in [Cpu -> [Kind -> Seq(1 .. MaxCalls)]]
        /\ ran \in [Cpu -> [Kind -> Seq(1 .. MaxCalls)]]
    BY <2>5, Zenon DEF Init
  <2>7. returned \in [Caller -> [id : Id, targets : SUBSET Online]]
    BY <1>1, Zenon DEF Init, NoCall
  <2> QED BY <2>2, <2>3, <2>4, <2>6, <2>7, Zenon DEF TypeOK, Id
<1>4. Ordered
  <2> SUFFICES ASSUME NEW c \in Cpu, NEW k \in Kind
               PROVE  submitted[c][k] = ran[c][k] \o InHand(current[c][k]) \o Contents(fifo[c][k])
    BY Zenon DEF Ordered
  <2>1. submitted[c][k] = << >> /\ ran[c][k] = << >> /\ current[c][k] = NoCall BY Zenon DEF Init
  <2>2. fifo[c][k] = fifo_alloc(FifoSize, NoCall) BY Zenon DEF Init
  <2>3. InHand(current[c][k]) = << >> /\ Contents(fifo[c][k]) = << >> BY <1>2, <2>1, <2>2, Zenon DEF InHand
  <2>4. << >> \o << >> \o << >> = << >>
    <3>1. << >> \in Seq(Id) OBVIOUS
    <3> QED BY <3>1, ConcatEmptySeq, Zenon
  <2> QED BY <2>1, <2>3, <2>4, Zenon
<1>5. NoCallStranded
  <2>1. fifo_isempty(fifo_alloc(FifoSize, NoCall)) BY Zenon DEF fifo_isempty, fifo_alloc
  <2>2. Online \subseteq Cpu BY SmpAssumption, Zenon
  <2>3. \A c \in Cpu, k \in Kind : fifo[c][k] = fifo_alloc(FifoSize, NoCall) BY Zenon DEF Init
  <2> QED BY <2>1, <2>2, <2>3, Zenon DEF NoCallStranded
<1>6. ReturnedTaken
  <2>1. ASSUME NEW s \in Caller PROVE CallTracked(s) /\ ReturnTracked(s)
    <3>1. call[s] = Idle /\ returned[s] = [id |-> NoCall, targets |-> {}] BY Zenon DEF Init
    <3>2. CallTracked(s) BY <3>1, SMTT(60) DEF CallTracked, Idle
    <3>3. ReturnTracked(s) BY <3>1 DEF ReturnTracked
    <3> QED BY <3>2, <3>3, Zenon
  <2> QED BY <2>1, Zenon DEF ReturnedTaken
<1> QED BY <1>3, <1>4, <1>5, <1>6, Zenon DEF IndInv, RunInOrder

(* Every step keeps the three invariants together. *)
LEMMA NextInv ==
  ASSUME IndInv, [Next]_vars
  PROVE  IndInv'
<1>1. ASSUME NEW s \in Caller, NEW kind \in Kind, NEW dest \in Dest, NEW wait \in BOOLEAN,
             Call(s, kind, dest, wait)
      PROVE  IndInv'
  BY <1>1, CallInv, Zenon
<1>2. ASSUME NEW s \in Caller, Submit(s) PROVE IndInv'
  BY <1>2, SubmitSkipInv, SubmitEnqueueInv, SubmitFullInv, SubmitTriggerInv, SubmitDoneInv, Zenon DEF Submit
<1>3. ASSUME NEW s \in Caller, Wait(s) PROVE IndInv' BY <1>3, WaitLookInv, WaitEndInv, Zenon DEF Wait
<1>4. ASSUME NEW c \in Online, Interrupt(c) \/ Handler(c) \/ Worker(c) PROVE IndInv'
  <2>1. c \in Cpu /\ "sync" \in Kind /\ "async" \in Kind BY SmpAssumption, Zenon DEF Kind
  <2>2. CASE Interrupt(c) BY <2>1, <2>2, InterruptInv, Zenon
  <2>3. CASE HandlerServe(c)
    <3>1. /\ Serve(c, "sync") /\ ~panicked
          /\ UNCHANGED <<calls, call, ipi, handler, worker, async_avail, panicked, submitted, returned>>
      BY <2>3, Zenon DEF HandlerServe
    <3> QED BY <2>1, <3>1, ServeInv, Zenon
  <2>4. CASE HandlerServed(c) BY <2>1, <2>4, HandlerServedInv, Zenon
  <2>5. CASE HandlerSignal(c) BY <2>1, <2>5, HandlerSignalInv, Zenon
  <2>6. CASE WorkerWake(c) BY <2>1, <2>6, WorkerWakeInv, Zenon
  <2>7. CASE WorkerServe(c)
    <3>1. /\ Serve(c, "async") /\ ~panicked
          /\ UNCHANGED <<calls, call, ipi, handler, worker, async_avail, panicked, submitted, returned>>
      BY <2>7, Zenon DEF WorkerServe, Free
    <3> QED BY <2>1, <3>1, ServeInv, Zenon
  <2>8. CASE WorkerServed(c) BY <2>1, <2>8, WorkerServedInv, Zenon
  <2> QED BY <1>4, <2>2, <2>3, <2>4, <2>5, <2>6, <2>7, <2>8, Zenon DEF Handler, Worker
<1>5. ASSUME UNCHANGED vars PROVE IndInv'
  <2>1. UNCHANGED <<calls, call, fifo, ipi, handler, worker, current, async_avail,
                    panicked, submitted, ran, returned>>
    BY <1>5, Zenon DEF vars
  <2>2. TypeOK' BY <2>1, CpuFacts, CpuTypes, Zenon
  <2>3. Ordered' BY <2>1, CpuFacts, SameOrder, Zenon
  <2>4. ReturnedTaken' BY <2>1, CpuFacts, SameKept, CpuTracked, Zenon
  <2>5. NoCallStranded'
    <3>1. ASSUME NEW t \in Caller PROVE call'[t] = call[t] /\ Target(t)' = Target(t)
      BY <2>1, Zenon DEF Target, Min
    <3>2. ASSUME NEW c \in Online, NEW k \in Kind, Attended(c, k) PROVE Attended(c, k)'
      BY <2>1, <3>1, <3>2, AttendedKept, Zenon
    <3> QED BY <2>1, <3>2, CpuFacts, Zenon DEF NoCallStranded, fifo_isempty
  <2> QED BY <2>2, <2>3, <2>4, <2>5, Zenon DEF IndInv, RunInOrder
<1> QED BY <1>1, <1>2, <1>3, <1>4, <1>5, Zenon DEF Next

(* The calls put on a host CPU run once each and in order, for any number  *)
(* of host CPUs and callers and any size of the fifos: smp_ipi_sync_submit *)
(* and smp_ipi_async_submit lose, repeat and reorder none.                 *)
THEOREM CallsInOrder == Spec => []RunInOrder
<1>1. IndInv => RunInOrder BY Zenon DEF IndInv
<1> QED BY InitInv, NextInv, <1>1, PTL DEF Spec

(* No call is left in a fifo with no interrupt pending, no handler and no  *)
(* thread that will still look, and no caller about to trigger.            *)
THEOREM CallsAttended == Spec => []NoCallStranded
<1>1. IndInv => NoCallStranded BY Zenon DEF IndInv
<1> QED BY InitInv, NextInv, <1>1, PTL DEF Spec

(* vmm_smp_ipi_sync_call() returns VMM_OK only when every target has taken *)
(* the call.                                                               *)
THEOREM WaitSound == Spec => []ReturnedTaken
<1>1. IndInv => ReturnedTaken BY Zenon DEF IndInv
<1> QED BY InitInv, NextInv, <1>1, PTL DEF Spec
=============================================================================
