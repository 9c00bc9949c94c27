--------------------------------- MODULE HmpList ---------------------------------
(***************************************************************************)
(* The circular doubly linked lists of linux/list.h.  A heap of list heads  *)
(* is a record of two functions: h.next[e] and h.prev[e] are the pointers of *)
(* the entry, or list head, e.                                              *)
(***************************************************************************)

\* A heap whose entries all point to themselves.
SelfHeap(S) == [next |-> [e \in S |-> e], prev |-> [e \in S |-> e]]

\* The heaps over the entries S.
HeapOver(S) == [next : [S -> S], prev : [S -> S]]

INIT_LIST_HEAD(h, e) ==
  [next |-> [h.next EXCEPT ![e] = e], prev |-> [h.prev EXCEPT ![e] = e]]

\* Wrong: the new entry's own link to the next one is not set.
ListAddNoNext(h, new, prev, next) ==
  [next |-> [h.next EXCEPT ![prev] = new],
   prev |-> [h.prev EXCEPT ![next] = new, ![new] = prev]]

\* __list_add: new between the neighbours prev and next.
ListAdd(h, new, prev, next) ==
  [next |-> [h.next EXCEPT ![new] = next, ![prev] = new],
   prev |-> [h.prev EXCEPT ![next] = new, ![new] = prev]]

list_add(h, new, head) == ListAdd(h, new, head, h.next[head])
list_add_tail(h, new, head) == ListAdd(h, new, h.prev[head], head)

\* __list_del: the neighbours of an entry point to each other.
ListDel(h, prev, next) ==
  [next |-> [h.next EXCEPT ![prev] = next], prev |-> [h.prev EXCEPT ![next] = prev]]

list_del_init(h, e) == INIT_LIST_HEAD(ListDel(h, h.prev[e], h.next[e]), e)

\* list_del also poisons the links of the entry, which its callers free next.
list_del(h, e) == ListDel(h, h.prev[e], h.next[e])

list_empty(h, head) == h.next[head] = head
=============================================================================
