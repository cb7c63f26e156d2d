-------------------------------- MODULE List --------------------------------
(***************************************************************************)
(* Doubly linked lists (libs/include/libs/list.h) as sequences of the      *)
(* entries they link: list_add_tail() is Append, list_pop() is Head and    *)
(* Tail.                                                                   *)
(***************************************************************************)
EXTENDS Naturals, Sequences

(* The entries linked in a list. *)
Linked(list) == {list[i] : i \in DOMAIN list}

(* No entry occurs twice in a list. *)
Once(list) == \A i, j \in DOMAIN list : list[i] = list[j] => i = j

(* list_del() and list_del_init() unlink the entry from the list that      *)
(* holds it; list_del_init() does nothing to an entry that is not linked.  *)
Unlink(list, v) ==
    IF v \in Linked(list)
    THEN LET i == CHOOSE i \in DOMAIN list : list[i] = v
         IN  SubSeq(list, 1, i - 1) \o SubSeq(list, i + 1, Len(list))
    ELSE list

(* No entry of a list has a smaller key than one before it. *)
Sorted(list, key) == \A i, j \in DOMAIN list : i < j => key[list[i]] <= key[list[j]]

(* A list kept sorted: list_for_each_entry() up to the first entry of a    *)
(* larger key, and list_add_tail() before it, or at the end.               *)
AddSorted(list, v, key) ==
    LET later == {i \in DOMAIN list : key[v] < key[list[i]]}
        at == IF later = {} THEN Len(list) ELSE (CHOOSE i \in later : \A j \in later : i <= j) - 1
    IN  SubSeq(list, 1, at) \o <<v>> \o SubSeq(list, at + 1, Len(list))
=============================================================================
