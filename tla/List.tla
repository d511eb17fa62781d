-------------------------------- MODULE List --------------------------------
(***************************************************************************)
(* The doubly linked lists of lib/list.c, as their links: each list has a  *)
(* head and a tail, nodes move between lists.  Callers keep to the         *)
(* assertions of the code (ASSERT_NODE_FREE, list_contains, list_empty).   *)
(* What a list is meant to be is the sequence of its nodes, Forward(l).    *)
(***************************************************************************)
EXTENDS Naturals, Sequences, FiniteSets, SequencesExt

CONSTANTS Lists, Node, key, NULL    \* key[n]: what list_insert_sort orders by

VARIABLES next, prev

vars == <<next, prev>>

head(l) == <<l, "head">>
tail(l) == <<l, "tail">>
Link == Node \cup {head(l) : l \in Lists} \cup {tail(l) : l \in Lists}

(* The nodes from x on, along the links f, up to the end. *)
Along(f, x, end) ==
    LET at[i \in 0..Cardinality(Node)] ==
            IF i = 0 THEN f[x]
            ELSE IF at[i - 1] \in {end, NULL} THEN at[i - 1] ELSE f[at[i - 1]]
        n == Cardinality({i \in 0..Cardinality(Node) : at[i] \in Node})
    IN  [i \in 1..n |-> at[i - 1]]

Forward(l) == Along(next, head(l), tail(l))
Backward(l) == Along(prev, tail(l), head(l))

(* list_init. *)
Init ==
    /\ next = [x \in Link |-> IF \E l \in Lists : x = head(l) THEN tail(x[1]) ELSE NULL]
    /\ prev = [x \in Link |-> IF \E l \in Lists : x = tail(l) THEN head(x[1]) ELSE NULL]

(* The loops of list_contains, list_size. *)
list_contains(l, n) == n \in ToSet(Forward(l))
list_size(l) == Len(Forward(l))
list_empty(l) == next[head(l)] = tail(l) /\ prev[tail(l)] = head(l)
list_singular(l) == ~list_empty(l) /\ next[next[head(l)]] = tail(l)
list_istail(l, n) == next[n] = tail(l)
list_ishead(l, n) == prev[n] = head(l)

NodeFree(n) == next[n] = NULL /\ prev[n] = NULL

list_insert_before(anchor, n) ==
    /\ next' = [next EXCEPT ![n] = anchor, ![prev[anchor]] = n]
    /\ prev' = [prev EXCEPT ![n] = prev[anchor], ![anchor] = n]

list_insert_after(anchor, n) ==
    /\ next' = [next EXCEPT ![n] = next[anchor], ![anchor] = n]
    /\ prev' = [prev EXCEPT ![n] = anchor, ![next[anchor]] = n]

(* Mutant of list_remove: the links of the node are left. *)
list_removeKeeps(n) ==
    /\ next[n] # NULL /\ prev[n] # NULL
    /\ next' = [next EXCEPT ![prev[n]] = next[n]]
    /\ prev' = [prev EXCEPT ![next[n]] = prev[n]]

list_remove(n) ==
    /\ next[n] # NULL /\ prev[n] # NULL
    /\ next' = [next EXCEPT ![prev[n]] = next[n], ![n] = NULL]
    /\ prev' = [prev EXCEPT ![next[n]] = prev[n], ![n] = NULL]

list_push_front(l, n) == NodeFree(n) /\ ~list_contains(l, n) /\ list_insert_after(head(l), n)
list_push_back(l, n) == NodeFree(n) /\ ~list_contains(l, n) /\ list_insert_before(tail(l), n)
list_pop_front(l) == ~list_empty(l) /\ list_remove(next[head(l)])
list_pop_back(l) == ~list_empty(l) /\ list_remove(prev[tail(l)])

(* Mutant of Anchor: the node goes behind the ones with its key. *)
AnchorAfter(l, n) ==
    LET s == Forward(l)
        greater == {i \in DOMAIN s : key[s[i]] > key[n]}
    IN  IF greater = {} THEN tail(l) ELSE s[Min(greater)]

(* The first node that is not less than n, or the end. *)
Anchor(l, n) ==
    LET s == Forward(l)
        not_less == {i \in DOMAIN s : key[s[i]] >= key[n]}
    IN  IF not_less = {} THEN tail(l) ELSE s[Min(not_less)]

list_insert_sort(l, n) == NodeFree(n) /\ list_insert_before(Anchor(l, n), n)

Next ==
    \/ \E l \in Lists, n \in Node :
        list_push_front(l, n) \/ list_push_back(l, n) \/ list_insert_sort(l, n)
    \/ \E l \in Lists : list_pop_front(l) \/ list_pop_back(l)
    \/ \E n \in Node : list_remove(n)

Spec == Init /\ [][Next]_vars

-----------------------------------------------------------------------------
(* Both ways along the links of a list give the same nodes, every node is  *)
(* in one list or free, and the tests for empty, singular, first and last  *)
(* agree with that, after any sequence of calls on several lists.          *)
TwoWay ==
    /\ \A l \in Lists : LET s == Forward(l) IN
        /\ Backward(l) = Reverse(s)
        /\ list_empty(l) <=> s = <<>>
        /\ list_singular(l) <=> list_size(l) = 1
        /\ \A n \in Node : /\ list_ishead(l, n) <=> s # <<>> /\ s[1] = n
                           /\ list_istail(l, n) <=> s # <<>> /\ Last(s) = n
    /\ \A n \in Node :
        IF NodeFree(n) THEN \A l \in Lists : ~list_contains(l, n)
        ELSE Cardinality({l \in Lists : list_contains(l, n)}) = 1

(* Each call does to the sequence of its list what its name says, and      *)
(* nothing to the other lists; list_insert_sort puts a node before the     *)
(* first one that is not less.                                             *)
CallsExact == [][next' # next => \A l \in Lists, n \in Node :
    LET s == Forward(l)
        t == Forward(l)'
        alone == \A k \in Lists \ {l} : Forward(k)' = Forward(k)
    IN  /\ list_push_front(l, n) => t = <<n>> \o s /\ alone
        /\ list_push_back(l, n) => t = Append(s, n) /\ alone
        /\ list_pop_front(l) => t = Tail(s) /\ alone
        /\ list_pop_back(l) => t = Front(s) /\ alone
        /\ list_contains(l, n) /\ list_remove(n) =>
                alone /\ \E i \in 1..Len(s) : s[i] = n /\ t = RemoveAt(s, i)
        /\ list_insert_sort(l, n) => alone /\ \E i \in 1..(Len(s) + 1) :
            /\ t = InsertAt(s, i, n)
            /\ \A j \in 1..(i - 1) : key[s[j]] < key[n]
            /\ i <= Len(s) => key[s[i]] >= key[n]]_vars
=============================================================================
