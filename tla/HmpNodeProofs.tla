--------------------------- MODULE HmpNodeProofs ---------------------------
(***************************************************************************)
(* Proofs about HmpNode, for any configured nodes and keys, any number of   *)
(* devices and any faults: first the ring of HmpHashRing, then the devices   *)
(* of HmpDevice, and at the end the life of a node, which has both.          *)
(***************************************************************************)
EXTENDS HmpNode, Sequences, FiniteSetTheorems, TLAPS

-----------------------------------------------------------------------------
(* The inductive invariant.                                                *)

\* In the inner loop every entry up to the cursor belongs before the new one.
SearchInv ==
  pc = "search" =>
    /\ i \in Id /\ tmp \in Linked \cup {ListHead}
    /\ list.prev[tmp] = ListHead \/ Before(list.prev[tmp], i)

\* Why each entry finds its place.
IInv == TypeOK /\ RingInOrder /\ SearchInv

-----------------------------------------------------------------------------
(* The order *)

\* The order of the ring is a strict order, and total on the nodes.
LEMMA Order ==
  ASSUME key \in [Id -> HashKey]
  PROVE  /\ \A a, b, c \in Id : Before(a, b) /\ Before(b, c) => Before(a, c)
         /\ \A a, b \in Id : ~(Before(a, b) /\ Before(b, a))
         /\ \A a, b \in Id : a # b => Before(a, b) \/ Before(b, a)
<1>1. \A a \in Id : a \in Nat /\ key[a] \in Nat
  <2>1. \A a \in Id : key[a] \in Nat
    BY HashKeyAssumption
  <2>2. \A a \in Id : a \in Nat
    BY NodeCntAssumption DEF Id
  <2> QED BY <2>1, <2>2
<1>2. ASSUME NEW a \in Id, NEW b \in Id, NEW c \in Id, Before(a, b), Before(b, c)
      PROVE  Before(a, c)
  <2>1. /\ a \in Nat /\ b \in Nat /\ c \in Nat
        /\ key[a] \in Nat /\ key[b] \in Nat /\ key[c] \in Nat
    BY <1>1
  <2> QED BY <1>2, <2>1 DEF Before
<1>3. ASSUME NEW a \in Id, NEW b \in Id
      PROVE  /\ ~(Before(a, b) /\ Before(b, a))
             /\ a # b => Before(a, b) \/ Before(b, a)
  <2>1. a \in Nat /\ b \in Nat /\ key[a] \in Nat /\ key[b] \in Nat
    BY <1>1
  <2> QED BY <2>1 DEF Before
<1>4. \A a, b, c \in Id : Before(a, b) /\ Before(b, c) => Before(a, c)
  BY <1>2
<1>5. \A a, b \in Id : ~(Before(a, b) /\ Before(b, a))
  BY <1>3
<1>6. \A a, b \in Id : a # b => Before(a, b) \/ Before(b, a)
  BY <1>3
<1> QED
  BY <1>4, <1>5, <1>6

\* The entries in the ring, the entry to insert and the head are different.
LEMMA Entries ==
  ASSUME i \in Id
  PROVE  /\ Linked \subseteq Id /\ ListHead \notin Id /\ i \notin Linked
         /\ ListHead \in Entry /\ Id \subseteq Entry
         /\ 0 .. (i + 1) - 1 = Linked \cup {i}
         /\ i + 1 \in 0 .. NodeCnt
  BY NodeCntAssumption DEF Id, Linked, ListHead, Entry

\* An empty list has no entries.
LEMMA EmptyRing ==
  ASSUME RingInOrder, list_empty(list, ListHead)
  PROVE  Linked \subseteq {ListHead}
  BY DEF RingInOrder, list_empty, Between

-----------------------------------------------------------------------------
(* Insertion *)

\* An entry that belongs between two neighbours is inserted between them.
LEMMA InsertionKeepsOrder ==
  ASSUME TypeOK, RingInOrder, i \in Id,
         NEW p \in Linked \cup {ListHead}, NEW n, n = list.next[p],
         p = ListHead \/ Before(p, i), n = ListHead \/ Before(i, n),
         Inserted(ListAdd(list, i, p, n))
  PROVE  RingInOrder'
<1> DEFINE Ring == Linked \cup {ListHead}
<1>1. /\ n \in Ring /\ list.prev[n] = p
      /\ \A a \in Ring : /\ list.next[a] \in Ring /\ list.prev[list.next[a]] = a
                         /\ list.prev[a] \in Ring /\ list.next[list.prev[a]] = a
      /\ \A a \in Ring : a # ListHead /\ list.next[a] # ListHead => Before(a, list.next[a])
  BY DEF RingInOrder
<1>2. \A a \in Ring : \A e \in Linked \ {a, list.next[a]} : ~Between(a, e, list.next[a])
  BY DEF RingInOrder
<1>3. /\ Linked \subseteq Id /\ ListHead \notin Id /\ i \notin Ring /\ i \in Entry
      /\ Ring \subseteq Entry /\ i' = i + 1 /\ Linked' = Linked \cup {i}
  BY Entries DEF Inserted, Linked
<1>4. key' = key /\ ListHead' = ListHead
  BY DEF Inserted, ListHead
<1>5. list \in HeapOver(Entry)
  BY DEF TypeOK
<1>6. /\ list'.next = [list.next EXCEPT ![i] = n, ![p] = i]
      /\ list'.prev = [list.prev EXCEPT ![n] = i, ![i] = p]
  BY DEF Inserted, ListAdd
<1>7. /\ list'.next[p] = i /\ list'.next[i] = n
      /\ \A a \in Ring : a # p => list'.next[a] = list.next[a]
      /\ list'.prev[n] = i /\ list'.prev[i] = p
      /\ \A a \in Ring : a # n => list'.prev[a] = list.prev[a]
  BY <1>1, <1>3, <1>5, <1>6 DEF HeapOver
<1>8. /\ \A a, b, c \in Id : Before(a, b) /\ Before(b, c) => Before(a, c)
      /\ \A a, b \in Id : ~(Before(a, b) /\ Before(b, a))
      /\ \A a, b \in Id : a # b => Before(a, b) \/ Before(b, a)
  BY Order DEF TypeOK
<1>10. \A e \in Linked : ~(e # p /\ e # n /\ Between(p, e, n))
  BY <1>2
<1> HIDE DEF Ring
<1>11. ASSUME NEW a \in Ring \cup {i}
       PROVE  LET b == list'.next[a] IN
              /\ b \in Ring \cup {i} /\ list'.prev[b] = a
              /\ list'.prev[a] \in Ring \cup {i} /\ list'.next[list'.prev[a]] = a
              /\ (a # ListHead /\ b # ListHead) => Before(a, b)
  <2>1. CASE a = i
    BY <2>1, <1>1, <1>3, <1>7
  <2>2. CASE a = p
    BY <2>2, <1>1, <1>3, <1>7
  <2>3. CASE a # i /\ a # p
    BY <2>3, <1>1, <1>3, <1>7
  <2> QED BY <2>1, <2>2, <2>3
<1>12. ASSUME NEW a \in Ring \cup {i}, NEW e \in Linked \cup {i},
             e # a, e # list'.next[a], Between(a, e, list'.next[a])
       PROVE  FALSE
  <2>0. /\ p = ListHead \/ (p \in Id /\ Before(p, i))
        /\ n = ListHead \/ (n \in Id /\ Before(i, n))
        /\ Ring = Linked \cup {ListHead} /\ p \in Ring
    BY <1>1, <1>3 DEF Ring
  <2>1. CASE a = i
    <3>1. e \in Linked /\ e \in Id /\ e # n /\ Between(i, e, n)
      BY <2>1, <1>3, <1>7, <1>12
    <3>2. Before(i, e) /\ (n = ListHead \/ Before(e, n))
      BY <3>1, <1>3 DEF Between
    <3>3. e # p /\ (p = ListHead \/ Before(p, e))
      BY <3>1, <3>2, <2>0, <1>3, <1>8
    <3> QED BY <3>1, <3>2, <3>3, <1>10 DEF Between
  <2>2. CASE a = p
    <3>1. e \in Linked /\ e \in Id /\ e # p /\ Between(p, e, i)
      BY <2>2, <1>7, <1>3, <1>12
    <3>2. Before(e, i) /\ (p = ListHead \/ Before(p, e))
      BY <3>1, <1>3 DEF Between
    <3>3. e # n /\ (n = ListHead \/ Before(e, n))
      BY <3>1, <3>2, <2>0, <1>3, <1>8
    <3> QED BY <3>1, <3>2, <3>3, <1>10 DEF Between
  <2>3. CASE a # i /\ a # p
    <3> DEFINE b == list.next[a]
    <3>1. a \in Ring /\ list'.next[a] = b /\ b \in Ring /\ b # n
      BY <2>3, <1>1, <1>7
    <3>2. CASE e # i
      <4>1. e \in Linked \ {a, b} /\ Between(a, e, b)
        BY <3>1, <3>2, <1>12
      <4> QED BY <4>1, <3>1, <2>0, <1>2
    <3>3. CASE e = i
      <4>1. /\ a = ListHead \/ (a \in Linked /\ a \in Id /\ Before(a, i))
            /\ b = ListHead \/ (b \in Linked /\ b \in Id /\ Before(i, b))
        BY <3>1, <3>3, <2>0, <1>3, <1>12 DEF Between
      <4> HIDE DEF b
      <4>2. CASE p = ListHead
        <5>1. a \in Linked /\ a \in Id /\ Before(a, i)
          BY <4>1, <4>2, <2>3
        <5>2. a # n /\ (n = ListHead \/ Before(a, n))
          BY <5>1, <2>0, <1>3, <1>8
        <5> QED BY <5>1, <5>2, <4>2, <2>3, <1>10 DEF Between
      <4>3. CASE p # ListHead
        <5>1. p \in Linked /\ p \in Id /\ Before(p, i)
          BY <4>3, <2>0, <1>3
        <5>2. p # b /\ (b = ListHead \/ Before(p, b))
          BY <5>1, <4>1, <4>3, <1>3, <1>8
        <5>3. CASE a = ListHead \/ Before(a, p)
          <6>1. Between(a, p, b) /\ p \in Linked \ {a, b}
            BY <5>1, <5>2, <5>3, <2>3 DEF Between
          <6> QED BY <6>1, <3>1, <2>0, <1>2 DEF b
        <5>4. CASE a # ListHead /\ ~Before(a, p)
          <6>1. a \in Linked /\ a \in Id /\ Before(a, i) /\ Before(p, a)
            BY <5>4, <5>1, <4>1, <2>3, <1>8
          <6>2. a # n /\ (n = ListHead \/ Before(a, n))
            BY <6>1, <2>0, <1>3, <1>8
          <6> QED BY <6>1, <6>2, <2>3, <1>10 DEF Between
        <5> QED BY <5>3, <5>4
      <4> QED BY <4>2, <4>3
    <3> QED BY <3>2, <3>3
  <2> QED BY <2>1, <2>2, <2>3
<1> QED
  BY <1>3, <1>4, <1>11, <1>12 DEF RingInOrder, Ring, Between, Before
-----------------------------------------------------------------------------
(* The steps *)

LEMMA InitInv == Init => IInv
<1> SUFFICES ASSUME Init PROVE IInv
  OBVIOUS
<1> USE DEF Init
<1>1. Linked = {} /\ ListHead \in Entry /\ i \in 0 .. NodeCnt
  BY NodeCntAssumption DEF Linked, ListHead, Entry
<1>2. /\ list \in HeapOver(Entry)
      /\ \A e \in Entry : list.next[e] = e /\ list.prev[e] = e
  BY DEF SelfHeap, HeapOver
<1>3. TypeOK
  BY <1>1, <1>2 DEF TypeOK
<1>4. RingInOrder
  BY <1>1, <1>2 DEF RingInOrder
<1> QED
  BY <1>3, <1>4 DEF IInv, SearchInv

\* Initialising the entry to insert leaves the ring alone.
LEMMA InitEntry ==
  ASSUME TypeOK, RingInOrder, i \in Id
  PROVE  LET h == INIT_LIST_HEAD(list, i) IN
         /\ h \in HeapOver(Entry)
         /\ \A a \in Linked \cup {ListHead} : h.next[a] = list.next[a] /\ h.prev[a] = list.prev[a]
<1>1. i \in Entry /\ i \notin Linked \cup {ListHead}
  BY Entries
<1>2. list.next \in [Entry -> Entry] /\ list.prev \in [Entry -> Entry]
  BY DEF TypeOK, HeapOver
<1> QED
  BY <1>1, <1>2 DEF INIT_LIST_HEAD, HeapOver

\* The list operations keep heaps, and an insertion keeps the other types.
LEMMA InsertedType ==
  ASSUME TypeOK, i \in Id, NEW h \in HeapOver(Entry), NEW p \in Entry, NEW n \in Entry,
         Inserted(ListAdd(h, i, p, n))
  PROVE  TypeOK'
<1>1. i \in Entry /\ ListHead \in Entry /\ i + 1 \in 0 .. NodeCnt
  BY Entries
<1>2. ListAdd(h, i, p, n) \in HeapOver(Entry)
  BY <1>1 DEF ListAdd, HeapOver
<1> QED
  BY <1>1, <1>2 DEF Inserted, TypeOK

LEMMA Step == IInv /\ [Next]_vars => IInv'
<1> SUFFICES ASSUME IInv, [Next]_vars PROVE IInv'
  OBVIOUS
<1>0. TypeOK /\ RingInOrder /\ SearchInv
  BY DEF IInv
<1>1. CASE NoMemory
  BY <1>0, <1>1 DEF NoMemory, IInv, TypeOK, RingInOrder, SearchInv, Linked, Before, Between
<1>2. CASE InsertFirst
  <2> DEFINE h == INIT_LIST_HEAD(list, i)
  <2>1. /\ i \in Id /\ list_empty(list, ListHead)
        /\ Inserted(ListAdd(h, i, ListHead, h.next[ListHead]))
    BY <1>2 DEF InsertFirst, list_add
  <2>2. Linked = {} /\ ListHead \in Entry /\ i \in Entry /\ ListHead # i
    BY <1>0, <2>1, EmptyRing, Entries
  <2>3. /\ h \in HeapOver(Entry) /\ h.next[ListHead] = ListHead
    BY <1>0, <2>1, InitEntry DEF list_empty
  <2>4. TypeOK'
    BY <1>0, <2>1, <2>2, <2>3, InsertedType
  <2>5. /\ list'.next[ListHead] = i /\ list'.next[i] = ListHead
        /\ list'.prev[ListHead] = i /\ list'.prev[i] = ListHead
    BY <2>1, <2>2, <2>3 DEF Inserted, ListAdd, HeapOver
  <2>6. Linked' = {i} /\ key' = key /\ pc' = "insert"
    BY <2>1, <2>2, Entries DEF Inserted, Linked
  <2>7. RingInOrder'
    BY <2>2, <2>5, <2>6 DEF RingInOrder, ListHead
  <2> QED BY <2>4, <2>6, <2>7 DEF IInv, SearchInv
<1>3. CASE StartSearch
  <2>1. /\ i \in Id /\ pc' = "search" /\ tmp' = list.next[ListHead]
        /\ list' = INIT_LIST_HEAD(list, i) /\ UNCHANGED <<key, i>>
    BY <1>3 DEF StartSearch
  <2>2. /\ list' \in HeapOver(Entry)
        /\ \A a \in Linked \cup {ListHead} :
             list'.next[a] = list.next[a] /\ list'.prev[a] = list.prev[a]
    BY <1>0, <2>1, InitEntry
  <2>3. list.next[ListHead] \in Linked \cup {ListHead} /\ list.prev[list.next[ListHead]] = ListHead
    BY <1>0 DEF RingInOrder
  <2>4. TypeOK'
    BY <1>0, <2>1, <2>2, <2>3, Entries DEF TypeOK
  <2>5. Linked' = Linked /\ ListHead' = ListHead /\ Id' = Id
    BY <2>1 DEF Linked, ListHead, Id
  <2>6. RingInOrder'
    BY <1>0, <2>1, <2>2, <2>5 DEF RingInOrder, Before, Between
  <2>7. SearchInv'
    BY <2>1, <2>2, <2>3, <2>5 DEF SearchInv
  <2> QED BY <2>4, <2>6, <2>7 DEF IInv
<1>4. CASE PassOver
  <2>1. /\ pc = "search" /\ tmp # ListHead /\ key[tmp] <= key[i]
        /\ tmp' = list.next[tmp] /\ UNCHANGED <<key, i, pc, list>>
    BY <1>4 DEF PassOver
  <2>2. i \in Id /\ tmp \in Linked
    BY <1>0, <2>1 DEF SearchInv
  <2>3. list.next[tmp] \in Linked \cup {ListHead} /\ list.prev[list.next[tmp]] = tmp
    BY <1>0, <2>2 DEF RingInOrder
  <2>4. Before(tmp, i)
    <3>1. tmp \in Id /\ i \in Nat /\ tmp \in Nat /\ tmp < i
      BY <2>2, NodeCntAssumption DEF Id, Linked
    <3>2. key[tmp] \in Nat /\ key[i] \in Nat
      BY <1>0, <2>2, <3>1, HashKeyAssumption DEF TypeOK
    <3> QED BY <2>1, <3>1, <3>2 DEF Before
  <2>5. tmp' \in Entry
    BY <2>1, <2>2, <2>3, Entries
  <2>6. TypeOK' /\ RingInOrder'
    BY <1>0, <2>1, <2>5 DEF TypeOK, RingInOrder, Linked, Before, Between
  <2>7. SearchInv'
    BY <2>1, <2>2, <2>3, <2>4 DEF SearchInv, Linked, Before
  <2> QED BY <2>6, <2>7 DEF IInv
<1>5. CASE InsertBefore \/ InsertLast
  <2> DEFINE p == list.prev[tmp]
  <2>1. /\ pc = "search" /\ Inserted(ListAdd(list, i, p, tmp))
        /\ tmp = ListHead \/ key[tmp] > key[i]
    BY <1>5 DEF InsertBefore, InsertLast, list_add_tail
  <2>2. /\ i \in Id /\ tmp \in Linked \cup {ListHead}
        /\ p = ListHead \/ Before(p, i)
    BY <1>0, <2>1 DEF SearchInv
  <2>3. p \in Linked \cup {ListHead} /\ list.next[p] = tmp
    BY <1>0, <2>2 DEF RingInOrder
  <2>4. tmp = ListHead \/ Before(i, tmp)
    <3> SUFFICES ASSUME tmp # ListHead PROVE Before(i, tmp)
      OBVIOUS
    <3>1. tmp \in Id
      BY <2>2, Entries
    <3>2. key[tmp] \in Nat /\ key[i] \in Nat
      BY <1>0, <2>2, <3>1, HashKeyAssumption DEF TypeOK
    <3> QED BY <2>1, <3>2 DEF Before
  <2>5. RingInOrder'
    <3> HIDE DEF p
    <3> QED BY <1>0, <2>1, <2>2, <2>3, <2>4, InsertionKeepsOrder
  <2>6. p \in Entry /\ tmp \in Entry /\ list \in HeapOver(Entry)
    BY <1>0, <2>2, <2>3, Entries DEF TypeOK
  <2>7. TypeOK'
    BY <1>0, <2>1, <2>2, <2>6, InsertedType
  <2> QED BY <2>1, <2>5, <2>7 DEF IInv, SearchInv, Inserted
<1>6. CASE UNCHANGED vars
  BY <1>0, <1>6 DEF vars, IInv, TypeOK, RingInOrder, SearchInv, Linked, Before, Between
<1> QED
  BY <1>1, <1>2, <1>3, <1>4, <1>5, <1>6 DEF Next

-----------------------------------------------------------------------------
(* The devices *)

\* The devices on the list, and its head.
Chain == devs \cup {Dev!DevList}

\* Every link leads to the list and back.
LinksInv ==
  \A e \in Chain : /\ dev_list.next[e] \in Chain /\ dev_list.prev[dev_list.next[e]] = e
                   /\ dev_list.prev[e] \in Chain /\ dev_list.next[dev_list.prev[e]] = e

\* list_add puts each device in front: the list runs down to its head, DevList.
DevOrderInv ==
  /\ \A d \in devs : d <= dev_list.next[Dev!DevList]
  /\ \A e \in devs : /\ dev_list.next[e] < e
                     /\ \A d \in devs : d < e => d <= dev_list.next[e]

\* How far hmp_device_init_handle and hmp_transport_release are.
PhaseInv ==
  /\ dev_pc = "boot" => devs = {} /\ num_devices = 0 /\ dev_i = 1
  /\ dev_pc = "init" => devs \subseteq 1 .. dev_i - 1 /\ dev_i <= Len(ctx_list) + 1
  /\ dev_pc = "release" =>
       dev \in Chain /\ next \in Chain /\ (dev # Dev!DevList => next = dev_list.next[dev])

\* A lookup has passed the devices in front of its cursor.
LookupInv ==
  /\ lookup.at \in Chain
  /\ lookup # Dev!NoLookup =>
       dev_pc = "ready" /\ \A d \in devs : lookup.at < d => d # lookup.verbs

DevIInv == Dev!TypeOK /\ LinksInv /\ DevOrderInv /\ PhaseInv /\ LookupInv /\ Dev!DevicesCounted

-----------------------------------------------------------------------------

\* HmpDevice counts with the standard modules' operator.
LEMMA SameCount ==
  ASSUME NEW S
  PROVE  Dev!Cardinality(S) = Cardinality(S)
  BY DEF Dev!Cardinality, Cardinality

\* Entries are numbers, and the devices are finitely many.
LEMMA Numbers ==
  ASSUME MaxDevices \in Nat
  PROVE  /\ \A e \in Dev!Entry : e \in Nat
         /\ Dev!Device \subseteq Dev!Entry
         /\ Dev!DevList \in Dev!Entry /\ Dev!DevList \notin Dev!Device
         /\ \A e \in Dev!Device : Dev!DevList < e
         /\ \A S \in SUBSET Dev!Device : IsFiniteSet(S) /\ Cardinality(S) \in Nat
<1>1. IsFiniteSet(Dev!Device)
  BY FS_Interval DEF Dev!Device
<1>2. \A S \in SUBSET Dev!Device : IsFiniteSet(S) /\ Cardinality(S) \in Nat
  BY <1>1, FS_Subset, FS_CardinalityType
<1> QED
  BY <1>2 DEF Dev!Entry, Dev!Device, Dev!DevList

\* What hmp_device_init_handle does to the list.
LEMMA AddEffect ==
  ASSUME MaxDevices \in Nat, DevIInv, Dev!AddDevice
  PROVE  /\ dev_i \in Dev!Device \ devs /\ dev_list' \in Dev!HeapOver(Dev!Entry)
         /\ LinksInv' /\ DevOrderInv'
<1> DEFINE n == dev_list.next[Dev!DevList]
<1>1. /\ dev_i \in Dev!Device /\ dev_i \notin devs
      /\ devs \subseteq Dev!Device /\ \A d \in devs : d < dev_i
      /\ devs' = devs \cup {dev_i}
  BY DEF Dev!AddDevice, Dev!Listed, DevIInv, PhaseInv, Dev!TypeOK, Dev!Device
<1>2. n \in Chain /\ dev_list.prev[n] = Dev!DevList /\ n # dev_i /\ dev_i # Dev!DevList
  BY <1>1, Numbers DEF DevIInv, LinksInv, Chain
<1>3. /\ dev_list.next \in [Dev!Entry -> Dev!Entry] /\ dev_list.prev \in [Dev!Entry -> Dev!Entry]
      /\ n \in Dev!Entry /\ dev_i \in Dev!Entry /\ Dev!DevList \in Dev!Entry
  BY <1>1, Numbers DEF DevIInv, Dev!TypeOK, Dev!HeapOver
<1>4. dev_list' = [next |-> [dev_list.next EXCEPT ![dev_i] = n, ![Dev!DevList] = dev_i],
               prev |-> [dev_list.prev EXCEPT ![n] = dev_i, ![dev_i] = Dev!DevList]]
  <2>1. Dev!INIT_LIST_HEAD(dev_list, dev_i).next[Dev!DevList] = n
    BY <1>2, <1>3 DEF Dev!INIT_LIST_HEAD
  <2>2. dev_list' = Dev!ListAdd(Dev!INIT_LIST_HEAD(dev_list, dev_i), dev_i, Dev!DevList, n)
    BY <2>1 DEF Dev!AddDevice, Dev!list_add
  <2> QED BY <1>2, <1>3, <2>2 DEF Dev!ListAdd, Dev!INIT_LIST_HEAD
<1>5. dev_list' \in Dev!HeapOver(Dev!Entry)
  BY <1>3, <1>4 DEF Dev!HeapOver
<1>6. /\ dev_list'.next[dev_i] = n /\ dev_list'.next[Dev!DevList] = dev_i
      /\ dev_list'.prev[n] = dev_i /\ dev_list'.prev[dev_i] = Dev!DevList
      /\ \A e \in Dev!Entry : e \notin {dev_i, Dev!DevList} => dev_list'.next[e] = dev_list.next[e]
      /\ \A e \in Dev!Entry : e \notin {dev_i, n} => dev_list'.prev[e] = dev_list.prev[e]
  BY <1>2, <1>3, <1>4
<1>7. Chain' = Chain \cup {dev_i} /\ dev_i \notin Chain /\ Chain \subseteq Dev!Entry
  BY <1>1, <1>2, Numbers DEF Chain
<1>8. LinksInv'
  <2> SUFFICES ASSUME NEW e \in Chain \cup {dev_i}
               PROVE  /\ dev_list'.next[e] \in Chain \cup {dev_i}
                      /\ dev_list'.prev[dev_list'.next[e]] = e
                      /\ dev_list'.prev[e] \in Chain \cup {dev_i}
                      /\ dev_list'.next[dev_list'.prev[e]] = e
    BY <1>7 DEF LinksInv
  <2>1. \A c \in Chain : /\ dev_list.next[c] \in Chain /\ dev_list.prev[dev_list.next[c]] = c
                         /\ dev_list.prev[c] \in Chain /\ dev_list.next[dev_list.prev[c]] = c
    BY DEF DevIInv, LinksInv
  <2>2. Dev!DevList \in Chain
    BY DEF Chain
  <2> QED BY <1>2, <1>6, <1>7, <2>1, <2>2
<1>9. DevOrderInv'
  <2>1. \A d \in devs : d \in Nat /\ d # dev_i /\ d # Dev!DevList
    BY <1>1, Numbers
  <2>2. n < dev_i /\ \A d \in devs : d <= n
    BY <1>1, <1>2, Numbers DEF DevIInv, DevOrderInv, Chain
  <2>3. \A e \in devs : dev_list'.next[e] = dev_list.next[e]
    BY <1>1, <1>6, <2>1, Numbers
  <2> QED BY <1>1, <1>3, <1>6, <2>1, <2>2, <2>3, Numbers DEF DevIInv, DevOrderInv
<1> QED
  BY <1>1, <1>5, <1>8, <1>9

\* What hmp_device_release does to the list.
LEMMA ReleaseEffect ==
  ASSUME MaxDevices \in Nat, DevIInv, Dev!ReleaseDevice
  PROVE  /\ dev_list' \in Dev!HeapOver(Dev!Entry) /\ LinksInv' /\ DevOrderInv'
         /\ dev' \in Chain' /\ next' \in Chain' /\ next' = dev_list'.next[dev']
<1> DEFINE n == dev_list.next[dev]  p == dev_list.prev[dev]
<1>1. /\ dev \in devs /\ devs \subseteq Dev!Device /\ devs' = devs \ {dev} /\ dev' = n
      /\ next' = dev_list'.next[n]
  BY DEF Dev!ReleaseDevice, DevIInv, PhaseInv, Dev!TypeOK, Chain
<1>2. /\ n \in Chain /\ p \in Chain /\ dev_list.prev[n] = dev /\ dev_list.next[p] = dev
      /\ n < dev /\ dev # Dev!DevList
  BY <1>1, Numbers DEF DevIInv, LinksInv, DevOrderInv, Chain
<1>3. /\ dev_list.next \in [Dev!Entry -> Dev!Entry] /\ dev_list.prev \in [Dev!Entry -> Dev!Entry]
      /\ n \in Dev!Entry /\ p \in Dev!Entry /\ dev \in Dev!Entry /\ n # dev /\ p # dev
  BY <1>1, <1>2, Numbers DEF DevIInv, Dev!TypeOK, Dev!HeapOver
<1> DEFINE out == [next |-> [dev_list.next EXCEPT ![p] = n, ![dev] = dev],
                   prev |-> [dev_list.prev EXCEPT ![n] = p, ![dev] = dev]]
<1>4. dev_list' = out
  <2>1. Dev!list_del_init(dev_list, dev) = out
    BY <1>3 DEF Dev!list_del_init, Dev!INIT_LIST_HEAD, Dev!ListDel
  <2>2. /\ out.next[dev] = dev /\ out.prev[dev] = dev
        /\ out.next \in [Dev!Entry -> Dev!Entry] /\ out.prev \in [Dev!Entry -> Dev!Entry]
    BY <1>3
  <2>3. Dev!list_del(out, dev) = out
    <3>1. /\ [out.next EXCEPT ![dev] = dev] = out.next
          /\ [out.prev EXCEPT ![dev] = dev] = out.prev
      BY <1>3, <2>2
    <3> QED BY <1>3, <2>2, <3>1 DEF Dev!list_del, Dev!ListDel
  <2> QED BY <2>1, <2>3 DEF Dev!ReleaseDevice
<1>5. dev_list' \in Dev!HeapOver(Dev!Entry)
  BY <1>3, <1>4 DEF Dev!HeapOver
<1>6. /\ dev_list'.next[p] = n /\ dev_list'.prev[n] = p
      /\ \A e \in Dev!Entry : e \notin {p, dev} => dev_list'.next[e] = dev_list.next[e]
      /\ \A e \in Dev!Entry : e \notin {n, dev} => dev_list'.prev[e] = dev_list.prev[e]
  BY <1>3, <1>4
<1>7. Chain' = Chain \ {dev} /\ Chain \subseteq Dev!Entry
  BY <1>1, <1>2, Numbers DEF Chain
<1>8. LinksInv'
  <2> SUFFICES ASSUME NEW e \in Chain \ {dev}
               PROVE  /\ dev_list'.next[e] \in Chain \ {dev}
                      /\ dev_list'.prev[dev_list'.next[e]] = e
                      /\ dev_list'.prev[e] \in Chain \ {dev}
                      /\ dev_list'.next[dev_list'.prev[e]] = e
    BY <1>7 DEF LinksInv
  <2>1. \A c \in Chain : /\ dev_list.next[c] \in Chain /\ dev_list.prev[dev_list.next[c]] = c
                         /\ dev_list.prev[c] \in Chain /\ dev_list.next[dev_list.prev[c]] = c
    BY DEF DevIInv, LinksInv
  <2> QED BY <1>2, <1>3, <1>6, <1>7, <2>1
<1>9. DevOrderInv'
  <2>1. \A d \in devs : d \in Nat /\ d # Dev!DevList /\ d \in Dev!Entry
    BY <1>1, Numbers
  <2>2. \A d \in devs : d <= dev_list.next[Dev!DevList]
    BY DEF DevIInv, DevOrderInv
  <2>3. \A e \in devs : dev_list.next[e] < e /\ \A d \in devs : d < e => d <= dev_list.next[e]
    BY DEF DevIInv, DevOrderInv
  <2>4. \A d \in devs \ {dev} : d <= dev_list'.next[Dev!DevList]
    <3>1. CASE p = Dev!DevList
      BY <1>1, <1>2, <1>6, <2>1, <2>2, <2>3, <3>1
    <3>2. CASE p # Dev!DevList
      BY <1>2, <1>6, <2>2, <3>2, Numbers
    <3> QED BY <3>1, <3>2
  <2>5. ASSUME NEW e \in devs \ {dev}
        PROVE  dev_list'.next[e] < e /\ \A d \in devs \ {dev} : d < e => d <= dev_list'.next[e]
    <3>1. CASE e = p
      <4>1. dev_list'.next[e] = n /\ dev_list.next[e] = dev /\ n \in Nat
        BY <1>2, <1>3, <1>6, <3>1, Numbers
      <4> QED BY <1>1, <1>2, <2>1, <2>3, <4>1
    <3>2. CASE e # p
      BY <1>6, <2>1, <2>3, <3>2
    <3> QED BY <3>1, <3>2
  <2> QED BY <1>1, <2>4, <2>5 DEF DevOrderInv
<1>10. n \in Chain'
  BY <1>2, <1>3, <1>7
<1> QED
  BY <1>1, <1>5, <1>8, <1>9, <1>10 DEF LinksInv

-----------------------------------------------------------------------------
(* The inductive invariant *)

\* At the start the list is empty.
LEMMA DevInit ==
  ASSUME MaxDevices \in Nat, Dev!Init
  PROVE  DevIInv
<1>1. ctx_list \in Seq(Dev!Kind) /\ Len(ctx_list) <= MaxDevices /\ Len(ctx_list) \in Nat
  <2>1. PICK n \in 0 .. MaxDevices : ctx_list \in [1 .. n -> Dev!Kind]
    BY DEF Dev!Init
  <2> QED BY <2>1
<1>2. /\ dev_list \in Dev!HeapOver(Dev!Entry)
      /\ \A e \in Dev!Entry : dev_list.next[e] = e /\ dev_list.prev[e] = e
  BY DEF Dev!Init, Dev!SelfHeap, Dev!HeapOver
<1>3. Dev!TypeOK
  BY <1>1, <1>2, Numbers DEF Dev!Init, Dev!TypeOK, Dev!NoLookup, Dev!DevList, Dev!Entry
<1>4. LinksInv /\ DevOrderInv
  BY <1>2, Numbers DEF Dev!Init, LinksInv, DevOrderInv, Chain
<1>5. PhaseInv /\ LookupInv /\ Dev!DevicesCounted
  BY SameCount DEF Dev!Init, PhaseInv, LookupInv, Dev!DevicesCounted, Dev!NoLookup, Chain
<1> QED
  BY <1>3, <1>4, <1>5 DEF DevIInv

\* A step that leaves the devices alone leaves the list alone, except for the
\* INIT_LIST_HEAD of the head.
LEMMA DevicesKept ==
  ASSUME DevIInv, UNCHANGED <<dev_list, devs>>
  PROVE  LinksInv' /\ DevOrderInv'
  BY DEF DevIInv, LinksInv, DevOrderInv, Chain

\* The steps of hmp_device_init_handle.
LEMMA InitSteps ==
  ASSUME MaxDevices \in Nat, DevIInv,
         Dev!GetDevices \/ Dev!SkipDevice \/ Dev!AddDevice \/ Dev!InitDone
  PROVE  DevIInv'
<1>0. /\ Len(ctx_list) \in Nat /\ dev_i \in Nat /\ Cardinality(devs) \in Nat /\ num_devices \in Nat
      /\ IsFiniteSet(devs)
  BY Numbers DEF DevIInv, Dev!TypeOK
<1>1. lookup = Dev!NoLookup /\ lookup' = lookup /\ dev_pc' # "release"
  BY DEF DevIInv, LookupInv, Dev!GetDevices, Dev!SkipDevice, Dev!AddDevice, Dev!InitDone, Dev!Listed
<1>2. CASE Dev!GetDevices
  <2>1. /\ devs = {} /\ devs' = {} /\ Cardinality(devs) = 0
        /\ dev_i = 1 /\ dev_i' = 1 /\ num_devices = 0
    BY <1>2, FS_EmptySet DEF Dev!GetDevices, DevIInv, PhaseInv
  <2>2. /\ dev_list' \in Dev!HeapOver(Dev!Entry)
        /\ dev_list'.next[Dev!DevList] = Dev!DevList /\ dev_list'.prev[Dev!DevList] = Dev!DevList
    BY <1>2, Numbers DEF Dev!GetDevices, Dev!INIT_LIST_HEAD, Dev!HeapOver, DevIInv, Dev!TypeOK
  <2>3. LinksInv' /\ DevOrderInv'
    BY <2>1, <2>2 DEF LinksInv, DevOrderInv, Chain
  <2>4. Dev!TypeOK'
    BY <1>2, <2>2 DEF Dev!GetDevices, DevIInv, Dev!TypeOK
  <2>5. PhaseInv' /\ LookupInv' /\ Dev!DevicesCounted'
    BY <1>0, <1>1, <1>2, <2>1, SameCount
       DEF Dev!GetDevices, PhaseInv, LookupInv, Dev!DevicesCounted, Dev!NoLookup, Chain
  <2> QED BY <2>3, <2>4, <2>5 DEF DevIInv
<1>3. CASE Dev!SkipDevice
  <2>1. /\ dev_pc = "init" /\ dev_pc' = "init" /\ dev_i <= Len(ctx_list) /\ dev_i' = dev_i + 1
        /\ num_devices' = num_devices - 1
        /\ UNCHANGED <<ctx_list, dev_list, devs, pds, busy, dev, next>>
    BY <1>3 DEF Dev!SkipDevice, Dev!Listed, DevIInv, Dev!TypeOK
  <2>2. num_devices = Cardinality(devs) + (Len(ctx_list) + 1 - dev_i)
    BY <2>1, SameCount DEF DevIInv, Dev!DevicesCounted
  <2>3. Dev!TypeOK'
    BY <1>0, <1>1, <2>1, <2>2 DEF DevIInv, Dev!TypeOK
  <2>4. PhaseInv' /\ LookupInv' /\ Dev!DevicesCounted'
    BY <1>0, <1>1, <2>1, <2>2, SameCount
       DEF DevIInv, PhaseInv, LookupInv, Dev!DevicesCounted, Dev!NoLookup, Chain
  <2> QED BY <2>1, <2>3, <2>4, DevicesKept DEF DevIInv
<1>4. CASE Dev!AddDevice
  <2>1. /\ dev_pc = "init" /\ dev_pc' = "init" /\ dev_i <= Len(ctx_list) /\ dev_i' = dev_i + 1
        /\ devs' = devs \cup {dev_i} /\ pds' = pds \cup {dev_i}
        /\ UNCHANGED <<ctx_list, num_devices, busy, dev, next>>
    BY <1>4 DEF Dev!AddDevice, Dev!Listed, DevIInv, Dev!TypeOK
  <2>2. /\ dev_i \in Dev!Device \ devs
        /\ dev_list' \in Dev!HeapOver(Dev!Entry) /\ LinksInv' /\ DevOrderInv'
    BY <1>4, AddEffect
  <2>3. Cardinality(devs') = Cardinality(devs) + 1
    BY <1>0, <2>1, <2>2, FS_AddElement
  <2>4. num_devices = Cardinality(devs) + (Len(ctx_list) + 1 - dev_i)
    BY <2>1, SameCount DEF DevIInv, Dev!DevicesCounted
  <2>5. Dev!TypeOK'
    BY <1>0, <1>1, <2>1, <2>2 DEF DevIInv, Dev!TypeOK, Dev!Device
  <2>6. PhaseInv' /\ Dev!DevicesCounted'
    BY <1>0, <2>1, <2>2, <2>3, <2>4, SameCount DEF DevIInv, PhaseInv, Dev!DevicesCounted, Dev!Device
  <2>7. LookupInv'
    BY <1>1 DEF LookupInv, Dev!NoLookup, Chain
  <2> QED BY <2>2, <2>5, <2>6, <2>7 DEF DevIInv
<1>5. CASE Dev!InitDone
  <2>1. /\ dev_pc = "init" /\ dev_pc' = "register" /\ dev_i = Len(ctx_list) + 1
        /\ UNCHANGED <<ctx_list, dev_i, num_devices, dev_list, devs, pds, busy, dev, next>>
    BY <1>0, <1>5 DEF Dev!InitDone, DevIInv, PhaseInv
  <2>2. Dev!TypeOK'
    BY <1>1, <2>1 DEF DevIInv, Dev!TypeOK
  <2>3. PhaseInv' /\ LookupInv' /\ Dev!DevicesCounted'
    BY <1>0, <1>1, <2>1, SameCount
       DEF DevIInv, PhaseInv, LookupInv, Dev!DevicesCounted, Dev!NoLookup, Chain
  <2> QED BY <2>1, <2>2, <2>3, DevicesKept DEF DevIInv
<1> QED
  BY <1>2, <1>3, <1>4, <1>5

\* The steps of hmp_device_lookup, and the registration of the pool.
LEMMA UseSteps ==
  ASSUME MaxDevices \in Nat, DevIInv,
         \/ Dev!RegisterPool \/ (\E v \in Dev!Device : Dev!StartLookup(v))
         \/ Dev!LookupNext \/ Dev!LookupDone
  PROVE  DevIInv'
<1>0. UNCHANGED <<ctx_list, dev_i, num_devices, dev_list, devs, pds, dev, next>>
  BY DEF Dev!RegisterPool, Dev!StartLookup, Dev!LookupNext, Dev!LookupDone
<1>1. LinksInv' /\ DevOrderInv'
  BY <1>0, DevicesKept
<1>2. /\ \A e \in Chain : dev_list.next[e] \in Chain
      /\ Dev!DevList \in Chain /\ Chain \subseteq Dev!Entry /\ devs \subseteq Dev!Device
      /\ \A e \in Chain : e # Dev!DevList => e \in Dev!Device
      /\ \A d \in devs : d \in Nat /\ Dev!DevList < d
  BY Numbers DEF DevIInv, LinksInv, Dev!TypeOK, Chain
<1>3. CASE Dev!RegisterPool
  <2>1. /\ dev_pc = "register" /\ dev_pc' \in {"ready", "crashed"} /\ lookup' = lookup
        /\ lookup = Dev!NoLookup
        /\ \/ busy' = busy
           \/ /\ dev_list.next[Dev!DevList] # Dev!DevList
              /\ busy' = {dev_list.next[Dev!DevList]}
    BY <1>3 DEF Dev!RegisterPool, Dev!list_empty, DevIInv, LookupInv
  <2>2. Dev!TypeOK'
    BY <1>0, <1>2, <2>1 DEF DevIInv, Dev!TypeOK
  <2>3. PhaseInv' /\ LookupInv' /\ Dev!DevicesCounted'
    BY <1>0, <1>2, <2>1, SameCount DEF DevIInv, PhaseInv, LookupInv, Dev!DevicesCounted, Chain
  <2> QED BY <1>1, <2>2, <2>3 DEF DevIInv
<1>4. CASE \E v \in Dev!Device : Dev!StartLookup(v)
  <2>1. PICK v \in Dev!Device : Dev!StartLookup(v)
    BY <1>4
  <2>2. /\ dev_pc = "ready" /\ dev_pc' = dev_pc /\ busy' = busy
        /\ lookup' = [verbs |-> v, at |-> dev_list.next[Dev!DevList]]
    BY <2>1 DEF Dev!StartLookup
  <2>3. Dev!TypeOK'
    BY <1>0, <1>2, <2>2 DEF DevIInv, Dev!TypeOK, Dev!Device
  <2>4. \A d \in devs : ~(lookup'.at < d)
    BY <1>2, <2>2, Numbers DEF DevIInv, DevOrderInv
  <2>5. PhaseInv' /\ LookupInv' /\ Dev!DevicesCounted'
    BY <1>0, <1>2, <2>2, <2>4, SameCount DEF DevIInv, PhaseInv, LookupInv, Dev!DevicesCounted, Chain
  <2> QED BY <1>1, <2>3, <2>5 DEF DevIInv
<1>5. CASE Dev!LookupNext
  <2>1. /\ dev_pc' = dev_pc /\ busy' = busy /\ lookup.at \in devs /\ lookup.at # lookup.verbs
        /\ lookup' = [lookup EXCEPT !.at = dev_list.next[lookup.at]]
        /\ lookup # Dev!NoLookup
    BY <1>5 DEF Dev!LookupNext, DevIInv, LookupInv, Chain, Dev!NoLookup
  <2>2. /\ lookup'.at = dev_list.next[lookup.at] /\ lookup'.verbs = lookup.verbs
        /\ lookup' \in [verbs : 0 .. MaxDevices, at : Dev!Entry]
    BY <1>2, <2>1 DEF DevIInv, Dev!TypeOK, Chain
  <2>3. Dev!TypeOK'
    BY <1>0, <2>1, <2>2 DEF DevIInv, Dev!TypeOK
  <2>4. ASSUME NEW d \in devs, lookup'.at < d
        PROVE  d # lookup'.verbs
    <3>1. d < lookup.at => d <= dev_list.next[lookup.at]
      BY <2>1 DEF DevIInv, DevOrderInv
    <3>2. lookup.at < d => d # lookup.verbs
      BY <2>1 DEF DevIInv, LookupInv
    <3>3. dev_list.next[lookup.at] \in Nat /\ d \in Nat /\ lookup.at \in Nat
      BY <1>2, <2>1, Numbers DEF Chain
    <3> QED BY <2>1, <2>2, <2>4, <3>1, <3>2, <3>3
  <2>5. PhaseInv' /\ Dev!DevicesCounted'
    BY <1>0, <2>1, SameCount DEF DevIInv, PhaseInv, Dev!DevicesCounted, Chain
  <2>6. LookupInv'
    BY <1>0, <1>2, <2>1, <2>2, <2>4 DEF DevIInv, LookupInv, Chain
  <2> QED BY <1>1, <2>3, <2>5, <2>6 DEF DevIInv
<1>6. CASE Dev!LookupDone
  <2>1. /\ dev_pc' = dev_pc /\ lookup' = Dev!NoLookup
        /\ busy' \in {busy, busy \cup ({lookup.at} \ {Dev!DevList})}
    BY <1>6 DEF Dev!LookupDone, DevIInv, LookupInv
  <2>2. busy' \subseteq Dev!Device
    BY <1>2, <2>1 DEF DevIInv, Dev!TypeOK, LookupInv
  <2>3. Dev!TypeOK'
    BY <1>0, <2>1, <2>2, Numbers DEF DevIInv, Dev!TypeOK, Dev!NoLookup
  <2>4. PhaseInv' /\ LookupInv' /\ Dev!DevicesCounted'
    BY <1>0, <2>1, SameCount
       DEF DevIInv, PhaseInv, LookupInv, Dev!DevicesCounted, Chain, Dev!NoLookup
  <2> QED BY <1>1, <2>3, <2>4 DEF DevIInv
<1> QED
  BY <1>3, <1>4, <1>5, <1>6

\* The steps of hmp_transport_release.
LEMMA ReleaseSteps ==
  ASSUME MaxDevices \in Nat, DevIInv, Dev!StartRelease \/ Dev!ReleaseDevice \/ Dev!ReleaseDone
  PROVE  DevIInv'
<1>0. /\ Chain \subseteq Dev!Entry /\ Dev!DevList \in Chain
      /\ \A e \in Chain : dev_list.next[e] \in Chain
  BY Numbers DEF DevIInv, LinksInv, Dev!TypeOK, Chain
<1>1. lookup = Dev!NoLookup /\ lookup' = lookup
  BY DEF DevIInv, LookupInv, Dev!StartRelease, Dev!ReleaseDevice, Dev!ReleaseDone
<1>2. LookupInv'
  BY <1>1 DEF LookupInv, Dev!NoLookup, Chain
<1>3. CASE Dev!StartRelease
  <2>1. /\ dev_pc' = "release" /\ dev' = dev_list.next[Dev!DevList] /\ next' = dev_list.next[dev']
        /\ UNCHANGED <<ctx_list, dev_i, num_devices, dev_list, devs, pds, busy>>
    BY <1>3 DEF Dev!StartRelease
  <2>2. Dev!TypeOK'
    BY <1>0, <1>1, <2>1 DEF DevIInv, Dev!TypeOK
  <2>3. PhaseInv' /\ Dev!DevicesCounted'
    BY <1>0, <2>1, SameCount DEF PhaseInv, Dev!DevicesCounted, Chain
  <2> QED BY <1>2, <2>1, <2>2, <2>3, DevicesKept DEF DevIInv
<1>4. CASE Dev!ReleaseDevice
  <2>1. /\ dev_list' \in Dev!HeapOver(Dev!Entry) /\ LinksInv' /\ DevOrderInv'
        /\ dev' \in Chain' /\ next' \in Chain' /\ next' = dev_list'.next[dev']
    BY <1>4, ReleaseEffect
  <2>2. /\ dev_pc = "release" /\ dev_pc' = "release"
        /\ devs' = devs \ {dev} /\ pds' = pds \ ({dev} \ busy)
        /\ UNCHANGED <<ctx_list, dev_i, num_devices, busy>>
    BY <1>4 DEF Dev!ReleaseDevice
  <2>3. Chain' \subseteq Dev!Entry
    BY <1>0, <2>2 DEF Chain
  <2>4. Dev!TypeOK'
    BY <1>1, <2>1, <2>2, <2>3 DEF DevIInv, Dev!TypeOK
  <2>5. PhaseInv' /\ Dev!DevicesCounted'
    BY <2>1, <2>2, SameCount DEF PhaseInv, Dev!DevicesCounted
  <2> QED BY <1>2, <2>1, <2>4, <2>5 DEF DevIInv
<1>5. CASE Dev!ReleaseDone
  <2>1. /\ dev_pc' = "released"
        /\ UNCHANGED <<ctx_list, dev_i, num_devices, dev_list, devs, pds, busy, dev, next>>
    BY <1>5 DEF Dev!ReleaseDone
  <2>2. Dev!TypeOK' /\ PhaseInv' /\ Dev!DevicesCounted'
    BY <1>1, <2>1, SameCount DEF DevIInv, Dev!TypeOK, PhaseInv, Dev!DevicesCounted
  <2> QED BY <1>2, <2>1, <2>2, DevicesKept DEF DevIInv
<1> QED
  BY <1>3, <1>4, <1>5

\* A step of the node's life that does not concern the devices.
LEMMA DevicesStutter ==
  ASSUME DevIInv, UNCHANGED devVars
  PROVE  DevIInv'
  BY DEF devVars, DevIInv, Dev!TypeOK, LinksInv, DevOrderInv, PhaseInv, LookupInv,
     Dev!DevicesCounted, Chain, Dev!vars

-----------------------------------------------------------------------------
(* The life of a node *)

NodeInv == IInv /\ DevIInv

\* The ring and the devices keep their invariants, one beside the other.
LEMMA Inductive == NodeSpec => []NodeInv
<1>1. NodeInit => NodeInv
  BY InitInv, DevInit, DeviceAssumption DEF NodeInit, NodeInv
<1>2. NodeInv /\ [NodeNext]_<<vars, devVars>> => NodeInv'
  <2> SUFFICES ASSUME NodeInv, [NodeNext]_<<vars, devVars>> PROVE NodeInv'
    OBVIOUS
  <2>1. CASE BuildRing
    <3>1. IInv' /\ DevIInv'
      BY <2>1, Step, DevicesStutter DEF BuildRing, NodeInv
    <3> QED BY <3>1 DEF NodeInv
  <2>2. CASE UseDevices
    <3>1. UNCHANGED vars /\ Dev!Next
      BY <2>2 DEF UseDevices
    <3>2. IInv'
      BY <3>1, Step DEF NodeInv
    <3>3. DevIInv'
      BY <3>1, InitSteps, UseSteps, ReleaseSteps, DeviceAssumption DEF NodeInv, Dev!Next
    <3> QED BY <3>2, <3>3 DEF NodeInv
  <2>3. CASE UNCHANGED <<vars, devVars>>
    <3>1. IInv' /\ DevIInv'
      BY <2>3, Step, DevicesStutter DEF NodeInv
    <3> QED BY <3>1 DEF NodeInv
  <2> QED BY <2>1, <2>2, <2>3 DEF NodeNext
<1> QED
  BY <1>1, <1>2, PTL DEF NodeSpec

\* The cursor of hmp_hash_init and all links of the ring point to entries or to
\* the head.
THEOREM RingTypeCorrect == NodeSpec => []TypeOK
<1>1. NodeInv => TypeOK
  BY DEF NodeInv, IInv
<1> QED
  BY <1>1, Inductive, PTL

\* Whatever the keys, also where they are equal, hmp_hash_init keeps the ring in
\* the one order that every node of the cluster finds, in both directions, and
\* nothing that follows in the node's life changes it.
THEOREM RingStaysInOrder == NodeSpec => []RingInOrder
<1>1. NodeInv => RingInOrder
  BY DEF NodeInv, IInv
<1> QED
  BY <1>1, Inductive, PTL

\* hmp_device_init_handle's num_devices agrees with the list, whichever devices
\* are missing or fail.
THEOREM DevicesAreCounted == NodeSpec => []DevicesCounted
<1>1. NodeInv => DevicesCounted
  BY DEF NodeInv, DevIInv, DevicesCounted
<1> QED
  BY <1>1, Inductive, PTL

\* No link of the list and no cursor of hmp_device_lookup or
\* hmp_transport_release leads to a device that was freed.
THEOREM ListStaysWhole == NodeSpec => []ListHoldsDevices
<1>1. NodeInv => ListHoldsDevices
  BY DEF NodeInv, DevIInv, LinksInv, PhaseInv, LookupInv, ListHoldsDevices,
     Dev!ListHoldsDevices, Chain
<1> QED
  BY <1>1, Inductive, PTL

\* hmp_device_lookup returns NULL only for verbs of no device on the list.
THEOREM LookupsFind == NodeSpec => []LookupFinds
<1>1. NodeInv => LookupFinds
  BY Numbers, DeviceAssumption
     DEF NodeInv, DevIInv, Dev!TypeOK, LookupInv, LookupFinds, Dev!LookupFinds
<1> QED
  BY <1>1, Inductive, PTL
=============================================================================
