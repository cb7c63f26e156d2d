----------------------------- MODULE ListProofs -----------------------------
(***************************************************************************)
(* What the operations on lists do to the entries linked in them.          *)
(***************************************************************************)
EXTENDS List, Integers, TLAPS

(* Part of a list. *)
LEMMA SubSeqProperties ==
  ASSUME NEW V, NEW list, NEW m \in Int, NEW n \in Int, \A i \in m .. n : list[i] \in V
  PROVE  /\ SubSeq(list, m, n) \in Seq(V)
         /\ Len(SubSeq(list, m, n)) = IF m <= n THEN n - m + 1 ELSE 0
         /\ \A i \in 1 .. n - m + 1 : SubSeq(list, m, n)[i] = list[m + i - 1]
  OBVIOUS

(* A list after another. *)
LEMMA ConcatProperties ==
  ASSUME NEW V, NEW a \in Seq(V), NEW b \in Seq(V)
  PROVE  /\ a \o b \in Seq(V) /\ Len(a \o b) = Len(a) + Len(b)
         /\ \A i \in 1 .. Len(a) + Len(b) : (a \o b)[i] = IF i <= Len(a) THEN a[i] ELSE b[i - Len(a)]
  OBVIOUS

(* list_add_tail() links one more entry, and links none twice if the entry *)
(* was not linked in the list.                                             *)
LEMMA AppendLinked ==
  ASSUME NEW V, NEW list \in Seq(V), NEW v \in V
  PROVE  /\ Append(list, v) \in Seq(V)
         /\ Linked(Append(list, v)) = Linked(list) \cup {v}
         /\ Once(list) /\ v \notin Linked(list) => Once(Append(list, v))
<1>1. /\ Append(list, v) \in Seq(V)
      /\ Len(Append(list, v)) = Len(list) + 1
      /\ DOMAIN list = 1 .. Len(list) /\ Len(list) \in Nat
      /\ DOMAIN Append(list, v) = 1 .. Len(list) + 1
      /\ \A i \in 1 .. Len(list) : Append(list, v)[i] = list[i]
      /\ Append(list, v)[Len(list) + 1] = v
  OBVIOUS
<1>2. Linked(Append(list, v)) = Linked(list) \cup {v}
  <2>1. ASSUME NEW x \in Linked(Append(list, v)) PROVE x \in Linked(list) \cup {v}
    BY <1>1 DEF Linked
  <2>2. ASSUME NEW x \in Linked(list) PROVE x \in Linked(Append(list, v))
    <3>1. PICK i \in 1 .. Len(list) : x = list[i] BY <1>1, Zenon DEF Linked
    <3>2. i \in 1 .. Len(list) + 1 /\ Append(list, v)[i] = x BY <1>1, <3>1
    <3> QED BY <1>1, <3>2, Zenon DEF Linked
  <2>3. v \in Linked(Append(list, v))
    <3>1. Len(list) + 1 \in 1 .. Len(list) + 1 BY <1>1
    <3> QED BY <1>1, <3>1, Zenon DEF Linked
  <2> QED BY <2>1, <2>2, <2>3, Zenon
<1>3. ASSUME Once(list), v \notin Linked(list) PROVE Once(Append(list, v))
  <2>1. \A i \in 1 .. Len(list) : list[i] # v BY <1>1, <1>3, Zenon DEF Linked
  <2> QED BY <1>1, <1>3, <2>1 DEF Once
<1> QED BY <1>1, <1>2, <1>3, Zenon

(* Taking the first entry unlinks it, and only it. *)
LEMMA TailLinked ==
  ASSUME NEW V, NEW list \in Seq(V), list # << >>
  PROVE  /\ Tail(list) \in Seq(V) /\ Head(list) \in Linked(list) /\ Head(list) \in V
         /\ Linked(list) = Linked(Tail(list)) \cup {Head(list)}
         /\ Once(list) => Once(Tail(list)) /\ Head(list) \notin Linked(Tail(list))
<1>1. /\ Tail(list) \in Seq(V) /\ Len(list) \in Nat /\ Len(list) >= 1
      /\ DOMAIN list = 1 .. Len(list)
      /\ DOMAIN Tail(list) = 1 .. Len(list) - 1
      /\ \A i \in 1 .. Len(list) - 1 : Tail(list)[i] = list[i + 1]
      /\ Head(list) = list[1] /\ list[1] \in V
  OBVIOUS
<1>2. Head(list) \in Linked(list)
  <2>1. 1 \in 1 .. Len(list) BY <1>1
  <2> QED BY <1>1, <2>1, Zenon DEF Linked
<1>3. Linked(list) = Linked(Tail(list)) \cup {Head(list)}
  <2>1. ASSUME NEW x \in Linked(list), x # Head(list) PROVE x \in Linked(Tail(list))
    <3>1. PICK i \in 1 .. Len(list) : x = list[i] BY <1>1, Zenon DEF Linked
    <3>2. i # 1 BY <1>1, <2>1, <3>1, Zenon
    <3>3. i - 1 \in 1 .. Len(list) - 1 /\ Tail(list)[i - 1] = x BY <1>1, <3>1, <3>2
    <3> QED BY <1>1, <3>3, Zenon DEF Linked
  <2>2. ASSUME NEW x \in Linked(Tail(list)) PROVE x \in Linked(list)
    <3>1. PICK i \in 1 .. Len(list) - 1 : x = Tail(list)[i] BY <1>1, Zenon DEF Linked
    <3>2. i + 1 \in 1 .. Len(list) /\ list[i + 1] = x BY <1>1, <3>1
    <3> QED BY <1>1, <3>2, Zenon DEF Linked
  <2> QED BY <1>2, <2>1, <2>2, Zenon
<1>4. ASSUME Once(list) PROVE Once(Tail(list)) /\ Head(list) \notin Linked(Tail(list))
  <2>1. Once(Tail(list))
    <3> SUFFICES ASSUME NEW i \in 1 .. Len(list) - 1, NEW j \in 1 .. Len(list) - 1,
                        Tail(list)[i] = Tail(list)[j]
                 PROVE  i = j
      BY <1>1, Zenon DEF Once
    <3>1. i + 1 \in 1 .. Len(list) /\ j + 1 \in 1 .. Len(list) /\ list[i + 1] = list[j + 1]
      BY <1>1
    <3>2. i + 1 = j + 1 BY <1>1, <1>4, <3>1, Zenon DEF Once
    <3> QED BY <3>2
  <2>2. ASSUME NEW i \in 1 .. Len(list) - 1, Tail(list)[i] = Head(list) PROVE FALSE
    <3>1. i + 1 \in 1 .. Len(list) /\ 1 \in 1 .. Len(list) /\ list[i + 1] = list[1]
      BY <1>1, <2>2
    <3>2. i + 1 = 1 BY <1>1, <1>4, <3>1, Zenon DEF Once
    <3> QED BY <3>2
  <2> QED BY <1>1, <2>1, <2>2, Zenon DEF Linked
<1> QED BY <1>1, <1>2, <1>3, <1>4, Zenon

(* The list without its entry at place k. *)
GapClosed(V, list, k, new) ==
    /\ new \in Seq(V) /\ DOMAIN new = 1 .. Len(list) - 1
    /\ \A i \in 1 .. Len(list) - 1 : new[i] = IF i < k THEN list[i] ELSE list[i + 1]

(* list_del() closes the gap that the entry leaves. *)
LEMMA UnlinkAt ==
  ASSUME NEW V, NEW list \in Seq(V), NEW v \in Linked(list)
  PROVE  \E k \in 1 .. Len(list) : list[k] = v /\ GapClosed(V, list, k, Unlink(list, v))
<1> DEFINE k == CHOOSE i \in DOMAIN list : list[i] = v
           n == Len(list)
           a == SubSeq(list, 1, k - 1)
           b == SubSeq(list, k + 1, n)
           new == a \o b
<1>1. n \in Nat /\ DOMAIN list = 1 .. n
  OBVIOUS
<1>2. k \in 1 .. n /\ list[k] = v
  <2>1. \E i \in DOMAIN list : list[i] = v BY Zenon DEF Linked
  <2> QED BY <1>1, <2>1, Zenon
<1>3. Unlink(list, v) = new BY Zenon DEF Unlink
<1> HIDE DEF k
<1>4. a \in Seq(V) /\ Len(a) = k - 1 /\ \A i \in 1 .. k - 1 : a[i] = list[i]
  <2>1. k - 1 \in Int /\ \A i \in 1 .. k - 1 : list[i] \in V BY <1>1, <1>2
  <2> QED BY <1>1, <1>2, <2>1, SubSeqProperties
<1>5. b \in Seq(V) /\ Len(b) = n - k /\ \A i \in 1 .. n - k : b[i] = list[k + i]
  <2>1. k + 1 \in Int /\ n \in Int /\ \A i \in k + 1 .. n : list[i] \in V BY <1>1, <1>2
  <2>2. /\ b \in Seq(V) /\ Len(b) = IF k + 1 <= n THEN n - (k + 1) + 1 ELSE 0
        /\ \A i \in 1 .. n - (k + 1) + 1 : b[i] = list[k + 1 + i - 1]
    BY <2>1, SubSeqProperties
  <2> QED BY <1>1, <1>2, <2>2
<1> HIDE DEF a, b
<1>6a. /\ new \in Seq(V) /\ Len(new) = Len(a) + Len(b)
       /\ \A i \in 1 .. Len(a) + Len(b) : new[i] = IF i <= Len(a) THEN a[i] ELSE b[i - Len(a)]
  BY <1>4, <1>5, ConcatProperties, Zenon
<1> HIDE DEF new
<1>6. /\ new \in Seq(V) /\ Len(new) = n - 1 /\ DOMAIN new = 1 .. n - 1
      /\ \A i \in 1 .. n - 1 : new[i] = IF i < k THEN list[i] ELSE list[i + 1]
  <2> HIDE DEF n
  <2>2. Len(new) = n - 1 BY <1>1, <1>2, <1>4, <1>5, <1>6a
  <2>4. DOMAIN new = 1 .. Len(new) BY <1>6a
  <2>3. ASSUME NEW i \in 1 .. n - 1
        PROVE  new[i] = IF i < k THEN list[i] ELSE list[i + 1]
    <3>1. CASE i < k BY <1>1, <1>2, <1>4, <1>5, <1>6a, <3>1
    <3>2. CASE ~(i < k)
      <4>1. i - (k - 1) \in 1 .. n - k /\ k + (i - (k - 1)) = i + 1 BY <1>1, <1>2, <3>2
      <4>2. new[i] = b[i - (k - 1)] BY <1>1, <1>2, <1>4, <1>5, <1>6a, <3>2
      <4>3. b[i - (k - 1)] = list[k + (i - (k - 1))] BY <1>5, <4>1, Zenon
      <4> QED BY <3>2, <4>1, <4>2, <4>3, Zenon
    <3> QED BY <3>1, <3>2, Zenon
  <2> QED BY <1>6a, <2>2, <2>3, <2>4, Zenon
<1>7. GapClosed(V, list, k, Unlink(list, v)) BY <1>3, <1>6, Zenon DEF GapClosed
<1> QED BY <1>2, <1>7, Zenon

(* list_del_init() unlinks the entry and no other. *)
LEMMA UnlinkLinked ==
  ASSUME NEW V, NEW list \in Seq(V), NEW v \in V, Once(list)
  PROVE  /\ Unlink(list, v) \in Seq(V)
         /\ Linked(Unlink(list, v)) = Linked(list) \ {v}
         /\ Once(Unlink(list, v))
<1>1. CASE v \notin Linked(list)
  BY <1>1, Zenon DEF Unlink
<1>2. CASE v \in Linked(list)
  <2> DEFINE n == Len(list)
             new == Unlink(list, v)
  <2>1. n \in Nat /\ DOMAIN list = 1 .. n
    OBVIOUS
  <2>3. PICK k \in 1 .. n : list[k] = v /\ GapClosed(V, list, k, new)
    BY <1>2, UnlinkAt, Zenon
  <2>2. k \in 1 .. n /\ list[k] = v BY <2>3, Zenon
  <2> HIDE DEF n, new
  <2>6. /\ new \in Seq(V) /\ DOMAIN new = 1 .. n - 1
        /\ \A i \in 1 .. n - 1 : new[i] = IF i < k THEN list[i] ELSE list[i + 1]
    BY <2>3, Zenon DEF GapClosed, n
  <2>7. ASSUME NEW x \in Linked(new) PROVE x \in Linked(list) \ {v}
    <3>1. PICK i \in 1 .. n - 1 : x = new[i] BY <2>6, <2>7, Zenon DEF Linked
    <3>2. CASE i < k
      <4>1. i \in 1 .. n /\ x = list[i] /\ i # k BY <2>1, <2>2, <2>6, <3>1, <3>2
      <4> QED BY <2>1, <2>2, <4>1, Zenon DEF Linked, Once
    <3>3. CASE ~(i < k)
      <4>1. i + 1 \in 1 .. n /\ x = list[i + 1] /\ i + 1 # k BY <2>1, <2>2, <2>6, <3>1, <3>3
      <4> QED BY <2>1, <2>2, <4>1, Zenon DEF Linked, Once
    <3> QED BY <3>2, <3>3, Zenon
  <2>8. ASSUME NEW x \in Linked(list), x # v PROVE x \in Linked(new)
    <3>1. PICK i \in 1 .. n : x = list[i] BY <2>1, <2>8, Zenon DEF Linked
    <3>2. CASE i < k
      <4>1. i \in 1 .. n - 1 /\ x = new[i] BY <2>1, <2>2, <2>6, <3>1, <3>2
      <4> QED BY <2>6, <4>1, Zenon DEF Linked
    <3>3. CASE i > k
      <4>1. i - 1 \in 1 .. n - 1 /\ x = new[i - 1] BY <2>1, <2>2, <2>6, <3>1, <3>3
      <4> QED BY <2>6, <4>1, Zenon DEF Linked
    <3>4. i # k BY <2>2, <2>8, <3>1, Zenon
    <3> QED BY <2>1, <2>2, <3>1, <3>2, <3>3, <3>4
  <2>9. Once(new)
    <3> SUFFICES ASSUME NEW i \in 1 .. n - 1, NEW j \in 1 .. n - 1, new[i] = new[j]
                 PROVE  i = j
      BY <2>6, Zenon DEF Once
    <3> DEFINE f(m) == IF m < k THEN m ELSE m + 1
    <3>1. f(i) \in 1 .. n /\ f(j) \in 1 .. n BY <2>1, <2>2
    <3>2. list[f(i)] = new[i] /\ list[f(j)] = new[j] BY <2>6, Zenon
    <3>3. f(i) = f(j) BY <2>1, <3>1, <3>2, Zenon DEF Once
    <3> QED BY <2>1, <2>2, <3>3
  <2> QED BY <2>6, <2>7, <2>8, <2>9, Zenon DEF new
<1> QED BY <1>1, <1>2, Zenon

(* A set of numbers has a least one, if it has any.                        *)
HasLeast(S) == S # {} => \E i \in S : \A j \in S : i <= j

(* The scan for the first entry of a larger key puts an entry behind those *)
(* whose key is no larger and before the others.                           *)
LEMMA AddSortedAt ==
  ASSUME NEW V, NEW list \in Seq(V), NEW v \in V, NEW key \in [V -> Nat], Sorted(list, key),
         HasLeast({i \in DOMAIN list : key[v] < key[list[i]]})
  PROVE  \E k \in 1 .. Len(list) + 1 :
           /\ AddSorted(list, v, key) \in Seq(V) /\ DOMAIN AddSorted(list, v, key) = 1 .. Len(list) + 1
           /\ \A i \in 1 .. Len(list) + 1 :
                AddSorted(list, v, key)[i] = IF i < k THEN list[i] ELSE IF i = k THEN v ELSE list[i - 1]
           /\ \A i \in 1 .. Len(list) : IF i < k THEN key[list[i]] <= key[v]
                                        ELSE key[v] <= key[list[i]]
<1> DEFINE n == Len(list)
           later == {i \in DOMAIN list : key[v] < key[list[i]]}
           m == CHOOSE i \in later : \A j \in later : i <= j
           at == IF later = {} THEN n ELSE m - 1
           a == SubSeq(list, 1, at)
           b == SubSeq(list, at + 1, n)
           new == a \o <<v>> \o b
<1>1. n \in Nat /\ DOMAIN list = 1 .. n /\ \A i \in 1 .. n : list[i] \in V OBVIOUS
<1>2. \A i \in 1 .. n : key[list[i]] \in Nat BY <1>1, Zenon
<1>3. /\ at \in 0 .. n
      /\ \A i \in 1 .. n : IF i < at + 1 THEN key[list[i]] <= key[v] ELSE key[v] <= key[list[i]]
  <2>1. CASE later = {} BY <1>1, <1>2, <2>1
  <2>2. CASE later # {}
    <3>1. \E i \in later : \A j \in later : i <= j BY <2>2, Zenon DEF HasLeast
    <3>2. m \in later /\ \A i \in later : m <= i BY <3>1, Zenon
    <3>3. m \in 1 .. n /\ key[v] < key[list[m]] BY <1>1, <3>2, Zenon
    <3>4. \A i \in 1 .. n : i < m => ~(key[v] < key[list[i]])
      <4> SUFFICES ASSUME NEW i \in 1 .. n, i < m, key[v] < key[list[i]] PROVE FALSE BY Zenon
      <4>1. i \in later BY <1>1, Zenon
      <4>2. m <= i BY <3>2, <4>1, Zenon
      <4> QED BY <3>3, <4>2
    <3>5. \A i \in 1 .. n : m < i => key[list[m]] <= key[list[i]] BY <1>1, <3>3, Zenon DEF Sorted
    <3>6. at = m - 1 BY <2>2, Zenon
    <3> HIDE DEF at, m, later
    <3>7. at \in 0 .. n BY <1>1, <3>3, <3>6
    <3>8. ASSUME NEW i \in 1 .. n
          PROVE  IF i < at + 1 THEN key[list[i]] <= key[v] ELSE key[v] <= key[list[i]]
      <4>1. CASE i < m BY <1>2, <3>3, <3>4, <3>6, <4>1
      <4>2. CASE i = m BY <1>2, <3>3, <3>6, <4>2
      <4>3. CASE m < i BY <1>2, <3>3, <3>5, <3>6, <4>3
      <4> QED BY <3>3, <4>1, <4>2, <4>3
    <3> QED BY <3>7, <3>8, Zenon
  <2> QED BY <2>1, <2>2, Zenon
<1>4. AddSorted(list, v, key) = new BY Zenon DEF AddSorted
<1> HIDE DEF at, n
<1>5. a \in Seq(V) /\ Len(a) = at /\ \A i \in 1 .. at : a[i] = list[i]
  <2>1. at \in Int /\ \A i \in 1 .. at : list[i] \in V BY <1>1, <1>3
  <2> QED BY <1>1, <1>3, <2>1, SubSeqProperties
<1>6. b \in Seq(V) /\ Len(b) = n - at /\ \A i \in 1 .. n - at : b[i] = list[at + i]
  <2>1. at + 1 \in Int /\ n \in Int /\ \A i \in at + 1 .. n : list[i] \in V BY <1>1, <1>3
  <2>2. /\ b \in Seq(V) /\ Len(b) = IF at + 1 <= n THEN n - (at + 1) + 1 ELSE 0
        /\ \A i \in 1 .. n - (at + 1) + 1 : b[i] = list[at + 1 + i - 1]
    BY <2>1, SubSeqProperties
  <2>3. n - (at + 1) + 1 = n - at /\ (at + 1 <= n => n - at >= 1) /\ (~(at + 1 <= n) => n - at = 0)
    BY <1>1, <1>3
  <2>4. \A i \in 1 .. n - at : at + 1 + i - 1 = at + i BY <1>1, <1>3
  <2>5. Len(b) = n - at BY <1>1, <1>3, <2>2, <2>3, Zenon
  <2>6. \A i \in 1 .. n - at : b[i] = list[at + i] BY <2>2, <2>3, <2>4, Zenon
  <2> QED BY <2>2, <2>5, <2>6, Zenon
<1> HIDE DEF a, b
<1>7. /\ a \o <<v>> \in Seq(V) /\ Len(a \o <<v>>) = at + 1
      /\ \A i \in 1 .. at + 1 : (a \o <<v>>)[i] = IF i <= at THEN list[i] ELSE v
  <2>1. <<v>> \in Seq(V) /\ Len(<<v>>) = 1 /\ <<v>>[1] = v OBVIOUS
  <2>2. /\ a \o <<v>> \in Seq(V) /\ Len(a \o <<v>>) = Len(a) + Len(<<v>>)
        /\ \A i \in 1 .. Len(a) + Len(<<v>>) : (a \o <<v>>)[i] = IF i <= Len(a) THEN a[i] ELSE <<v>>[i - Len(a)]
    BY <1>5, <2>1, ConcatProperties, Zenon
  <2> QED BY <1>3, <1>5, <2>1, <2>2
<1>8. /\ new \in Seq(V) /\ Len(new) = n + 1 /\ DOMAIN new = 1 .. n + 1
      /\ \A i \in 1 .. n + 1 : new[i] = IF i < at + 1 THEN list[i] ELSE IF i = at + 1 THEN v ELSE list[i - 1]
  <2> DEFINE c == a \o <<v>>
  <2> HIDE DEF c
  <2>1. c \in Seq(V) /\ Len(c) = at + 1 /\ \A i \in 1 .. at + 1 : c[i] = IF i <= at THEN list[i] ELSE v
    BY <1>7, Zenon DEF c
  <2>2. /\ c \o b \in Seq(V) /\ Len(c \o b) = Len(c) + Len(b)
        /\ \A i \in 1 .. Len(c) + Len(b) : (c \o b)[i] = IF i <= Len(c) THEN c[i] ELSE b[i - Len(c)]
    BY <1>6, <2>1, ConcatProperties, Zenon
  <2>3. Len(c) + Len(b) = n + 1 BY <1>1, <1>3, <1>6, <2>1
  <2>4. new = c \o b BY Zenon DEF c
  <2> HIDE DEF new
  <2>5. new \in Seq(V) /\ Len(new) = n + 1 BY <2>2, <2>3, <2>4, Zenon
  <2>6. ASSUME NEW i \in 1 .. n + 1
        PROVE  new[i] = IF i < at + 1 THEN list[i] ELSE IF i = at + 1 THEN v ELSE list[i - 1]
    <3>1. CASE i <= at + 1 BY <1>1, <1>3, <2>1, <2>2, <2>3, <2>4, <3>1
    <3>2. CASE at + 1 < i
      <4>1. i - (at + 1) \in 1 .. n - at /\ at + (i - (at + 1)) = i - 1 BY <1>1, <1>3, <3>2
      <4>2. i \in 1 .. Len(c) + Len(b) /\ ~(i <= Len(c)) BY <1>1, <1>3, <2>1, <2>3, <3>2
      <4>3. new[i] = b[i - (at + 1)] BY <2>1, <2>2, <2>4, <4>2, Zenon
      <4> QED BY <1>3, <1>6, <3>2, <4>1, <4>3
    <3> QED BY <1>1, <1>3, <3>1, <3>2
  <2> QED BY <2>5, <2>6
<1>9. at + 1 \in 1 .. n + 1 BY <1>1, <1>3
<1> HIDE DEF new
<1> QED BY <1>1, <1>3, <1>4, <1>8, <1>9, Zenon DEF n

(* It links one more entry, once, and keeps the list sorted. *)
LEMMA AddSortedLinked ==
  ASSUME NEW V, NEW list \in Seq(V), NEW v \in V, NEW key \in [V -> Nat], Sorted(list, key),
         HasLeast({i \in DOMAIN list : key[v] < key[list[i]]}), Once(list), v \notin Linked(list)
  PROVE  /\ AddSorted(list, v, key) \in Seq(V) /\ AddSorted(list, v, key) # << >>
         /\ Linked(AddSorted(list, v, key)) = Linked(list) \cup {v}
         /\ Once(AddSorted(list, v, key)) /\ Sorted(AddSorted(list, v, key), key)
<1> DEFINE n == Len(list)
           new == AddSorted(list, v, key)
<1>1. n \in Nat /\ DOMAIN list = 1 .. n /\ \A i \in 1 .. n : list[i] \in V /\ key[list[i]] \in Nat
  OBVIOUS
<1>2. PICK k \in 1 .. n + 1 :
        /\ new \in Seq(V) /\ DOMAIN new = 1 .. n + 1
        /\ \A i \in 1 .. n + 1 : new[i] = IF i < k THEN list[i] ELSE IF i = k THEN v ELSE list[i - 1]
        /\ \A i \in 1 .. n : IF i < k THEN key[list[i]] <= key[v] ELSE key[v] <= key[list[i]]
  BY AddSortedAt, Zenon
<1>3. \A i \in 1 .. n : list[i] # v BY <1>1, Zenon DEF Linked
<1> HIDE DEF n, new
<1> DEFINE f(i) == IF i < k THEN i ELSE i - 1
<1>4. \A i \in 1 .. n + 1 : i # k => f(i) \in 1 .. n /\ new[i] = list[f(i)] BY <1>1, <1>2
<1>5. new[k] = v BY <1>2
<1>6. \A i \in 1 .. n : \E j \in 1 .. n + 1 : new[j] = list[i]
  <2> SUFFICES ASSUME NEW i \in 1 .. n PROVE \E j \in 1 .. n + 1 : new[j] = list[i] BY Zenon
  <2>1. CASE i < k
    <3>1. i \in 1 .. n + 1 /\ new[i] = list[i] BY <1>1, <1>2, <2>1
    <3> QED BY <3>1, Zenon
  <2>2. CASE ~(i < k)
    <3>1. i + 1 \in 1 .. n + 1 /\ ~(i + 1 < k) /\ i + 1 # k /\ (i + 1) - 1 = i BY <1>1, <2>2
    <3>2. new[i + 1] = list[i] BY <1>2, <3>1, Zenon
    <3> QED BY <3>1, <3>2, Zenon
  <2> QED BY <2>1, <2>2, Zenon
<1>7. Linked(new) = Linked(list) \cup {v}
  <2>1. ASSUME NEW x \in Linked(new) PROVE x \in Linked(list) \cup {v}
    <3>1. PICK i \in 1 .. n + 1 : x = new[i] BY <1>2, Zenon DEF Linked
    <3> QED BY <1>1, <1>4, <1>5, <3>1, Zenon DEF Linked
  <2>2. ASSUME NEW x \in Linked(list) \cup {v} PROVE x \in Linked(new)
    <3>1. CASE x = v BY <1>2, <1>5, <3>1, Zenon DEF Linked
    <3>2. CASE x \in Linked(list)
      <4>1. PICK i \in 1 .. n : x = list[i] BY <1>1, <3>2, Zenon DEF Linked
      <4>2. PICK j \in 1 .. n + 1 : new[j] = x BY <1>6, <4>1, Zenon
      <4> QED BY <1>2, <4>2, Zenon DEF Linked
    <3> QED BY <3>1, <3>2, Zenon
  <2> QED BY <2>1, <2>2, Zenon
<1>8. Once(new)
  <2> SUFFICES ASSUME NEW i \in 1 .. n + 1, NEW j \in 1 .. n + 1, new[i] = new[j] PROVE i = j
    BY <1>2, Zenon DEF Once
  <2>1. CASE i # k /\ j # k
    <3>1. f(i) = f(j) BY <1>1, <1>4, <2>1, ZenonT(30) DEF Once
    <3> QED BY <1>1, <2>1, <3>1
  <2>2. CASE i = k \/ j = k
    <3>1. new[i] = v /\ new[j] = v BY <1>5, <2>2, Zenon
    <3> QED BY <1>3, <1>4, <3>1, Zenon
  <2> QED BY <2>1, <2>2, Zenon
<1>9. Sorted(new, key)
  <2> SUFFICES ASSUME NEW i \in 1 .. n + 1, NEW j \in 1 .. n + 1, i < j
               PROVE  key[new[i]] <= key[new[j]]
    BY <1>2, Zenon DEF Sorted
  <2>1. CASE i # k /\ j # k
    <3>1. f(i) \in 1 .. n /\ f(j) \in 1 .. n /\ f(i) < f(j) BY <1>1, <1>4, <2>1
    <3>2. key[list[f(i)]] <= key[list[f(j)]] BY <1>1, <3>1, Zenon DEF Sorted
    <3> QED BY <1>4, <2>1, <3>2, Zenon
  <2>2. CASE i = k
    <3>1. j - 1 \in 1 .. n /\ ~(j - 1 < k) /\ new[j] = list[j - 1] BY <1>1, <1>2, <2>2
    <3> QED BY <1>2, <1>5, <2>2, <3>1, Zenon
  <2>3. CASE j = k
    <3>1. i \in 1 .. n /\ i < k /\ new[i] = list[i] BY <1>1, <1>2, <2>3
    <3> QED BY <1>2, <1>5, <2>3, <3>1, Zenon
  <2> QED BY <2>1, <2>2, <2>3, Zenon
<1>10. new # << >> BY <1>1, <1>2
<1> QED BY <1>2, <1>7, <1>8, <1>9, <1>10, Zenon DEF new
=============================================================================
