------------------------------- MODULE HmpHashRing -------------------------------
(***************************************************************************)
(* hmp_hash_init: the ring of the configured nodes for consistent hashing,  *)
(* a list in the order of the keys.  Every node of the cluster builds its   *)
(* own ring, from the same configuration; they have to be the same.  The    *)
(* hash of a node's address and port is an arbitrary number: two nodes may  *)
(* have the same key.                                                       *)
(***************************************************************************)
EXTENDS Naturals, HmpList

CONSTANTS
  NodeCnt,   \* config.node_cnt
  HashKey    \* the values of murmur_hash

ASSUME NodeCntAssumption == NodeCnt \in Nat
ASSUME HashKeyAssumption == HashKey \subseteq Nat

Id == 0 .. NodeCnt - 1
ListHead == NodeCnt              \* curnode.hash_node_list
Entry == 0 .. NodeCnt

VARIABLES
  key,    \* key[id]: murmur_hash of the node's address and port
  i,      \* the node whose entry is being inserted
  pc,     \* "insert": at the top of the loop; "search": in the inner loop
  tmp,    \* the inner loop's cursor
  list    \* the list_heads: one per entry and curnode.hash_node_list

vars == <<key, i, pc, tmp, list>>

Init ==
  /\ key \in [Id -> HashKey]
  /\ i = 0 /\ pc = "insert" /\ tmp = ListHead
  /\ list = SelfHeap(Entry)

Linked == 0 .. i - 1

\* The end of a turn of the outer loop.
Inserted(newList) ==
  /\ list' = newList
  /\ i' = i + 1 /\ pc' = "insert" /\ tmp' = ListHead
  /\ UNCHANGED key

\* exit(-1) when there is no memory for the entry.
NoMemory ==
  /\ pc = "insert" /\ i \in Id
  /\ pc' = "exited"
  /\ UNCHANGED <<key, i, tmp, list>>

\* The first entry.
InsertFirst ==
  /\ pc = "insert" /\ i \in Id
  /\ list_empty(list, ListHead)
  /\ Inserted(list_add(INIT_LIST_HEAD(list, i), i, ListHead))

\* list_for_each_entry begins at the head's successor.
StartSearch ==
  /\ pc = "insert" /\ i \in Id
  /\ ~list_empty(list, ListHead)
  /\ pc' = "search" /\ tmp' = list.next[ListHead]
  /\ list' = INIT_LIST_HEAD(list, i)
  /\ UNCHANGED <<key, i>>

\* The inner loop passes over an entry.
PassOver ==
  /\ pc = "search" /\ tmp # ListHead
  /\ key[tmp] <= key[i]
  /\ tmp' = list.next[tmp]
  /\ UNCHANGED <<key, i, pc, list>>

\* Wrong: entries with the same key are not passed over.
InsertBeforeEqual ==
  /\ pc = "search" /\ tmp # ListHead
  /\ key[tmp] >= key[i]
  /\ Inserted(list_add_tail(list, i, tmp))

\* The first entry with a larger key: the new one goes before it.
InsertBefore ==
  /\ pc = "search" /\ tmp # ListHead
  /\ key[tmp] > key[i]
  /\ Inserted(list_add_tail(list, i, tmp))

\* No entry has a larger key (flag is still 1).
InsertLast ==
  /\ pc = "search" /\ tmp = ListHead
  /\ Inserted(list_add_tail(list, i, ListHead))

Next == \/ NoMemory \/ InsertFirst \/ StartSearch
        \/ PassOver \/ InsertBefore \/ InsertLast

Spec == Init /\ [][Next]_vars

\* One thread runs the function, and nothing it calls blocks.
FairSpec == Spec /\ WF_vars(Next)

-----------------------------------------------------------------------------
(* Properties *)

\* The type invariant of this module.
TypeOK ==
  /\ key \in [Id -> HashKey]
  /\ i \in 0 .. NodeCnt
  /\ pc \in {"insert", "search", "exited"}
  /\ tmp \in Entry
  /\ list \in HeapOver(Entry)

\* The order of the ring: by key, and in the order of the configuration where
\* keys are equal.  The head is before and behind all entries.
Before(a, b) == key[a] < key[b] \/ (key[a] = key[b] /\ a < b)
Between(a, e, b) == (a = ListHead \/ Before(a, e)) /\ (b = ListHead \/ Before(e, b))

\* hmp_hash_init's list holds all entries inserted so far, in one order that
\* follows from the configuration alone, and is the same in both directions:
\* between two neighbours there is no third entry, and the links of two
\* neighbours name each other.
RingInOrder ==
  \A a \in Linked \cup {ListHead} :
    LET b == list.next[a] IN
    /\ b \in Linked \cup {ListHead} /\ list.prev[b] = a
    /\ list.prev[a] \in Linked \cup {ListHead} /\ list.next[list.prev[a]] = a
    /\ (a # ListHead /\ b # ListHead) => Before(a, b)
    /\ \A e \in Linked \ {a, b} : ~Between(a, e, b)

\* hmp_hash_init returns with all configured nodes in the ring, unless there
\* was no memory.
RingBuilt == <>(pc = "exited" \/ Linked = Id)
=============================================================================
