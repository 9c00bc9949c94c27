--------------------------- MODULE HmpStartupProofs ---------------------------
(***************************************************************************)
(* Proofs about HmpStartup, for any machines, configurations and faults:    *)
(* every machine parses the same entries, so what one machine enters under   *)
(* an id is the machine that takes that id for its own.                     *)
(***************************************************************************)
EXTENDS HmpStartup, FiniteSetTheorems, TLAPS

\* The entries in front of child k of the root, and how many they are: the id
\* hmp_parse_node gives child k if it is an entry.
EntriesBefore(k) == {j \in Nodes(doc) : j < k}
IdOf(k) == Cardinality(EntriesBefore(k))
Address == {doc[k] : k \in DOMAIN doc}

\* node_infos[m] holds the entries parsed, each under its id, and no others.
ParseInv ==
  \A m \in Machine :
    /\ Len(node_infos[m]) = IdOf(at[m])
    /\ \A j \in EntriesBefore(at[m]) : node_infos[m][IdOf(j) + 1] = doc[j]
    /\ \A n \in 1 .. IdOf(at[m]) : \E j \in EntriesBefore(at[m]) : IdOf(j) + 1 = n

\* The first entry with m's own address.
FirstOwn(m) ==
  /\ HasAddr(m, curnode_id[m], m)
  /\ \A j \in Id : j < curnode_id[m] => ~HasAddr(m, j, m)

\* A node that goes on found itself, or has no entries at all and is node 0.
SelfInv ==
  \A m \in Machine :
    /\ pc[m] \notin {"parse", "exited"} =>
         (at[m] > Len(doc) /\ FirstOwn(m)) \/ (node_infos[m] = <<>> /\ curnode_id[m] = 0)
    /\ pc[m] = "parse" => curnode_id[m] = 0
    /\ pc[m] = "connect" => i[m] > curnode_id[m]

\* m is past hmp_transport_listen, which may have failed, and has not exited.
Up(m) == pc[m] \in {"memset", "connect", "ready"}

\* What is in connect_trans was entered while m was up, and in front of m's
\* own entry under the first entry with the peer's address.
TableInv ==
  \A m \in Machine : \A id \in Id :
    connect_trans[m][id] # NoTrans =>
      /\ Up(m)
      /\ HasAddr(m, id, connect_trans[m][id])
      /\ id < curnode_id[m] => \A j \in Id : j < id => AddrOf(m, j) # AddrOf(m, id)

\* A connect request was sent for an entry behind the sender's own; the sender
\* may have exited since.
Sent(r) ==
  /\ pc[r.from] # "parse" /\ at[r.from] > Len(doc) /\ FirstOwn(r.from)
  /\ HasAddr(r.from, r.entry, r.to) /\ r.entry > curnode_id[r.from]
RequestInv == \A r \in requests : Sent(r)

Shape ==
  /\ doc \in Docs
  /\ pc \in [Machine -> {"parse", "init", "memset", "connect", "ready", "exited"}]
  /\ at \in [Machine -> 1 .. Len(doc) + 1]
  /\ node_infos \in [Machine -> Seq(Address \ {Text})]
  /\ curnode_id \in [Machine -> Id] /\ i \in [Machine -> 0 .. HMP_NODE_NUM]
  /\ connect_trans \in [Machine -> [Id -> Address \cup Machine \cup {NoTrans}]]
  /\ requests \subseteq [from : Machine, to : Machine, entry : Id]

\* Only a process that is up listens.
ListenInv == \A m \in listening : m \in Machine /\ Up(m)

IInv == Shape /\ ParseInv /\ SelfInv /\ TableInv /\ RequestInv /\ ListenInv

-----------------------------------------------------------------------------
(* Lemmas about config.xml *)

\* The file is a sequence of children, at most eight of them entries.
LEMMA DocFacts ==
  ASSUME doc \in Docs
  PROVE  /\ doc \in Seq(Address) /\ Len(doc) \in Nat /\ DOMAIN doc = 1 .. Len(doc)
         /\ \A k \in Nat : /\ IsFiniteSet(EntriesBefore(k)) /\ IdOf(k) \in 0 .. HMP_NODE_NUM
<1>1. doc \in Seq(Address) /\ Len(doc) \in Nat /\ DOMAIN doc = 1 .. Len(doc)
  BY DocsAssumption DEF Address
<1>2. IsFiniteSet(1 .. Len(doc))
  BY <1>1, FS_Interval
<1>3. IsFiniteSet(Nodes(doc)) /\ Cardinality(Nodes(doc)) \in 0 .. HMP_NODE_NUM
  <2>1. Nodes(doc) \subseteq 1 .. Len(doc)
    BY <1>1 DEF Nodes
  <2>2. IsFiniteSet(Nodes(doc))
    BY <1>2, <2>1, FS_Subset
  <2>3. Cardinality(Nodes(doc)) \in Nat /\ Cardinality(Nodes(doc)) <= HMP_NODE_NUM
    BY <2>2, FS_CardinalityType, DocsAssumption
  <2> QED BY <2>2, <2>3 DEF HMP_NODE_NUM
<1>4. ASSUME NEW k \in Nat
      PROVE  IsFiniteSet(EntriesBefore(k)) /\ IdOf(k) \in 0 .. HMP_NODE_NUM
  <2>1. EntriesBefore(k) \subseteq Nodes(doc)
    BY DEF EntriesBefore
  <2>2. /\ IsFiniteSet(EntriesBefore(k)) /\ IdOf(k) \in Nat
        /\ IdOf(k) <= Cardinality(Nodes(doc))
    BY <1>3, <2>1, FS_Subset, FS_CardinalityType DEF IdOf
  <2> QED BY <1>3, <2>2 DEF HMP_NODE_NUM
<1> QED
  BY <1>1, <1>4

\* The place of the child parsed next.
LEMMA AtFacts ==
  ASSUME Shape
  PROVE  /\ doc \in Docs /\ Len(doc) \in Nat
         /\ \A m \in Machine : at[m] \in Nat /\ at[m] <= Len(doc) + 1
<1>1. doc \in Docs /\ at \in [Machine -> 1 .. Len(doc) + 1]
  BY DEF Shape
<1>2. Len(doc) \in Nat
  BY <1>1, DocFacts, Zenon
<1> QED
  BY <1>1, <1>2

\* hmp_parse_node gives the next entry the next id.
LEMMA NextId ==
  ASSUME doc \in Docs, NEW k \in 1 .. Len(doc)
  PROVE  /\ doc[k] = Text => EntriesBefore(k + 1) = EntriesBefore(k) /\ IdOf(k + 1) = IdOf(k)
         /\ doc[k] # Text => /\ EntriesBefore(k + 1) = EntriesBefore(k) \cup {k}
                             /\ IdOf(k + 1) = IdOf(k) + 1
<1>1. Len(doc) \in Nat /\ DOMAIN doc = 1 .. Len(doc)
  BY DocFacts
<1>2. k \notin EntriesBefore(k) /\ IsFiniteSet(EntriesBefore(k))
  BY <1>1, DocFacts DEF EntriesBefore
<1>3. CASE doc[k] = Text
  <2>1. EntriesBefore(k + 1) = EntriesBefore(k)
    BY <1>1, <1>3 DEF EntriesBefore, Nodes
  <2> QED BY <1>3, <2>1 DEF IdOf
<1>4. CASE doc[k] # Text
  <2>1. EntriesBefore(k + 1) = EntriesBefore(k) \cup {k}
    BY <1>1, <1>4 DEF EntriesBefore, Nodes
  <2>2. Cardinality(EntriesBefore(k) \cup {k}) = Cardinality(EntriesBefore(k)) + 1
    BY <1>2, FS_AddElement
  <2> QED BY <1>4, <2>1, <2>2 DEF IdOf
<1> QED
  BY <1>3, <1>4

\* Before the first child there is no entry.
LEMMA FirstId ==
  ASSUME doc \in Docs
  PROVE  EntriesBefore(1) = {} /\ IdOf(1) = 0
<1>1. EntriesBefore(1) = {}
  BY DocFacts DEF EntriesBefore, Nodes
<1> QED
  BY <1>1, FS_EmptySet DEF IdOf

\* Two machines that have parsed the whole file have the same entries.
LEMMA SameEntries ==
  ASSUME Shape, ParseInv, NEW m \in Machine, NEW p \in Machine,
         at[m] > Len(doc), at[p] > Len(doc)
  PROVE  node_infos[m] = node_infos[p]
<1>1. at[m] = at[p] /\ at[m] \in Nat
  BY AtFacts
<1>2. node_infos[m] \in Seq(Address \ {Text}) /\ node_infos[p] \in Seq(Address \ {Text})
  BY DEF Shape
<1>3. Len(node_infos[m]) = IdOf(at[m]) /\ Len(node_infos[p]) = IdOf(at[m])
  BY <1>1 DEF ParseInv
<1>4. ASSUME NEW n \in 1 .. IdOf(at[m])
      PROVE  node_infos[m][n] = node_infos[p][n]
  <2>1. PICK j \in EntriesBefore(at[m]) : IdOf(j) + 1 = n
    BY DEF ParseInv
  <2>2. node_infos[m][IdOf(j) + 1] = doc[j] /\ node_infos[p][IdOf(j) + 1] = doc[j]
    BY <1>1 DEF ParseInv
  <2> QED BY <2>1, <2>2
<1> QED
  BY <1>2, <1>3, <1>4

\* The ids in use.
LEMMA EntryFacts ==
  ASSUME Shape, ParseInv, NEW m \in Machine
  PROVE  /\ node_infos[m] \in Seq(Address \ {Text})
         /\ node_cnt(m) \in 0 .. HMP_NODE_NUM
         /\ \A id \in 0 .. node_cnt(m) - 1 : id \in Id /\ AddrOf(m, id) \in Address \ {Text}
<1>0. doc \in Docs /\ at[m] \in Nat
  BY AtFacts
<1>1. node_infos[m] \in Seq(Address \ {Text})
  BY DEF Shape
<1>2. node_cnt(m) \in 0 .. HMP_NODE_NUM
  BY <1>0, DocFacts DEF ParseInv, node_cnt
<1>3. ASSUME NEW id \in 0 .. node_cnt(m) - 1
      PROVE  id \in Id /\ AddrOf(m, id) \in Address \ {Text}
  <2>1. id \in Id /\ id + 1 \in 1 .. node_cnt(m)
    BY <1>2, <1>3 DEF Id, HMP_NODE_NUM
  <2>2. id \in Id /\ id + 1 \in 1 .. Len(node_infos[m])
    BY <2>1 DEF node_cnt
  <2> QED BY <1>1, <2>2 DEF AddrOf
<1> QED
  BY <1>1, <1>2, <1>3

-----------------------------------------------------------------------------
(* The inductive invariant *)

\* At the start nothing is parsed.
LEMMA InitIInv ==
  ASSUME Init
  PROVE  IInv
<1>1. doc \in Docs /\ Len(doc) \in Nat
  BY DocFacts DEF Init
<1>2. <<>> \in Seq(Address \ {Text}) /\ Len(<<>>) = 0
  OBVIOUS
<1>3. Shape
  BY <1>1, <1>2 DEF Init, Shape, Unconnected, Id, HMP_NODE_NUM
<1>4. ParseInv
  BY <1>1, <1>2, FirstId DEF Init, ParseInv
<1>5. SelfInv /\ TableInv /\ RequestInv /\ ListenInv
  BY DEF Init, SelfInv, TableInv, RequestInv, ListenInv, Unconnected
<1> QED
  BY <1>3, <1>4, <1>5 DEF IInv

\* Only hmp_parse_node adds entries.
LEMMA ParseKept ==
  ASSUME IInv, UNCHANGED <<doc, at, node_infos>>
  PROVE  ParseInv'
<1>1. /\ \A k : EntriesBefore(k)' = EntriesBefore(k)
      /\ \A k : IdOf(k)' = IdOf(k)
  BY DEF EntriesBefore, IdOf, Nodes
<1> QED
  BY <1>1 DEF IInv, ParseInv

\* hmp_config_init keeps the invariant.
LEMMA ParseSteps ==
  ASSUME IInv, NEW m \in Machine,
         ParseFails(m) \/ ParseChild(m) \/ SetCurnodeId(m) \/ NotConfigured(m)
  PROVE  IInv'
<1>0. /\ Shape /\ ParseInv /\ SelfInv /\ TableInv /\ RequestInv /\ ListenInv
      /\ doc \in Docs /\ Len(doc) \in Nat /\ doc' = doc /\ pc[m] = "parse"
  BY DocFacts DEF IInv, Shape, ParseFails, ParseChild, SetCurnodeId, NotConfigured
<1>a. /\ Address' = Address
      /\ \A k : EntriesBefore(k)' = EntriesBefore(k) /\ IdOf(k)' = IdOf(k)
  BY <1>0 DEF Address, EntriesBefore, IdOf, Nodes
<1>1. /\ UNCHANGED <<i, connect_trans, listening, requests>>
      /\ \A q \in Machine : q # m => pc'[q] = pc[q] /\ at'[q] = at[q] /\
           node_infos'[q] = node_infos[q] /\ curnode_id'[q] = curnode_id[q]
  BY DEF ParseFails, ParseChild, SetCurnodeId, NotConfigured, IInv, Shape
<1>2. ~Up(m) /\ \A q \in Machine : q # m => Up(q)' = Up(q)
  BY <1>0, <1>1 DEF Up
<1>3. TableInv'
  <2> SUFFICES ASSUME NEW q \in Machine, NEW id \in Id, connect_trans[q][id] # NoTrans
               PROVE  /\ Up(q)' /\ HasAddr(q, id, connect_trans[q][id])'
                      /\ id < curnode_id'[q] =>
                           \A j \in Id : j < id => AddrOf(q, j)' # AddrOf(q, id)'
    BY <1>1 DEF TableInv
  <2>1. q # m
    BY <1>0, <1>2 DEF TableInv
  <2> QED BY <1>0, <1>1, <1>2, <2>1 DEF TableInv, HasAddr, AddrOf, node_cnt
<1>4. RequestInv' /\ ListenInv'
  <2>1. ASSUME NEW r \in requests PROVE Sent(r)'
    <3>1. r.from \in Machine /\ r.from # m
      BY <1>0 DEF RequestInv, Sent, Shape
    <3> QED BY <1>0, <1>1, <3>1 DEF RequestInv, Sent, FirstOwn, HasAddr, AddrOf, node_cnt
  <2> QED BY <1>0, <1>1, <1>2, <2>1 DEF RequestInv, ListenInv
<1>5. CASE ParseFails(m)
  <2>1. /\ UNCHANGED <<at, node_infos, curnode_id>> /\ at[m] = 1
        /\ pc' = [pc EXCEPT ![m] = "init"]
    BY <1>5 DEF ParseFails
  <2>2. node_infos[m] = <<>>
    BY <1>0, <2>1, FirstId DEF ParseInv, Shape
  <2>3. Shape'
    BY <1>0, <1>a, <1>1, <2>1 DEF Shape
  <2>4. SelfInv'
    BY <1>0, <1>1, <2>1, <2>2 DEF SelfInv, Shape, FirstOwn, HasAddr, AddrOf, node_cnt
  <2> QED BY <1>0, <1>3, <1>4, <2>1, <2>3, <2>4, ParseKept DEF IInv
<1>6. CASE ParseChild(m)
  <2> DEFINE k == at[m]
  <2>1. /\ UNCHANGED <<pc, curnode_id>> /\ k \in 1 .. Len(doc)
        /\ at' = [at EXCEPT ![m] = k + 1] /\ k + 1 \in 1 .. Len(doc) + 1
        /\ node_infos' = IF doc[k] = Text THEN node_infos
                         ELSE [node_infos EXCEPT ![m] = Append(node_infos[m], doc[k])]
    BY <1>0, <1>6 DEF ParseChild, Shape
  <2>2. /\ node_infos[m] \in Seq(Address \ {Text}) /\ doc[k] \in Address
        /\ k \in Nat /\ at \in [Machine -> 1 .. Len(doc) + 1]
    <3>1. doc \in Seq(Address)
      BY <1>0, DocFacts, Zenon
    <3> QED BY <1>0, <2>1, <3>1 DEF Shape
  <2>3. Shape'
    <3>1. at' \in [Machine -> 1 .. Len(doc) + 1]
      BY <1>0, <2>1, <2>2
    <3>2. node_infos' \in [Machine -> Seq(Address \ {Text})]
      <4>1. doc[k] # Text => Append(node_infos[m], doc[k]) \in Seq(Address \ {Text})
        BY <2>2
      <4> QED BY <1>0, <2>1, <4>1 DEF Shape
    <3> QED BY <1>0, <1>a, <1>1, <2>1, <3>1, <3>2 DEF Shape
  <2>4. SelfInv'
    BY <1>0, <1>1, <2>1 DEF SelfInv, FirstOwn, HasAddr, AddrOf, node_cnt
  <2>5. /\ Len(node_infos[m]) = IdOf(k) /\ IdOf(k) \in Nat
        /\ \A j \in EntriesBefore(k) : node_infos[m][IdOf(j) + 1] = doc[j]
        /\ \A n \in 1 .. IdOf(k) : \E j \in EntriesBefore(k) : IdOf(j) + 1 = n
    <3>1. IdOf(k) \in Nat
      BY <1>0, <2>2, DocFacts DEF HMP_NODE_NUM
    <3> QED BY <1>0, <3>1 DEF ParseInv
  <2>6. /\ Len(node_infos'[m]) = IdOf(k + 1)
        /\ \A j \in EntriesBefore(k + 1) : node_infos'[m][IdOf(j) + 1] = doc[j]
        /\ \A n \in 1 .. IdOf(k + 1) : \E j \in EntriesBefore(k + 1) : IdOf(j) + 1 = n
    <3>1. CASE doc[k] = Text
      BY <1>0, <2>1, <2>5, <3>1, NextId
    <3>2. CASE doc[k] # Text
      <4>1. EntriesBefore(k + 1) = EntriesBefore(k) \cup {k} /\ IdOf(k + 1) = IdOf(k) + 1
        BY <1>0, <2>1, <3>2, NextId
      <4>2. node_infos'[m] = Append(node_infos[m], doc[k])
        BY <1>0, <2>1, <3>2 DEF Shape
      <4>3. ASSUME NEW j \in EntriesBefore(k)
            PROVE  IdOf(j) + 1 \in 1 .. IdOf(k)
        <5>1. j \in Nat /\ EntriesBefore(j) \subseteq EntriesBefore(k) /\ j < k
          BY <1>0, <2>2, DocFacts DEF EntriesBefore, Nodes
        <5>2. j \in EntriesBefore(k) /\ j \notin EntriesBefore(j)
          BY <5>1 DEF EntriesBefore
        <5>3. IsFiniteSet(EntriesBefore(k)) /\ IdOf(j) \in Nat
          BY <1>0, <2>2, <5>1, DocFacts
        <5>4. /\ Cardinality(EntriesBefore(j)) <= Cardinality(EntriesBefore(k))
              /\ Cardinality(EntriesBefore(j)) # Cardinality(EntriesBefore(k))
          BY <5>1, <5>2, <5>3, FS_Subset, Zenon
        <5> QED BY <2>5, <5>3, <5>4 DEF IdOf
      <4>4. /\ Len(node_infos'[m]) = IdOf(k) + 1
            /\ node_infos'[m][IdOf(k) + 1] = doc[k]
            /\ \A n \in 1 .. IdOf(k) : node_infos'[m][n] = node_infos[m][n]
        BY <2>2, <2>5, <4>2
      <4>5. ASSUME NEW n \in 1 .. IdOf(k) + 1
            PROVE  \E j \in EntriesBefore(k) \cup {k} : IdOf(j) + 1 = n
        BY <2>5
      <4> QED BY <2>5, <4>1, <4>3, <4>4, <4>5
    <3> QED BY <3>1, <3>2
  <2>7. ParseInv'
    <3> SUFFICES ASSUME NEW q \in Machine
                 PROVE  /\ Len(node_infos'[q]) = IdOf(at'[q])
                        /\ \A j \in EntriesBefore(at'[q]) : node_infos'[q][IdOf(j) + 1] = doc[j]
                        /\ \A n \in 1 .. IdOf(at'[q]) :
                             \E j \in EntriesBefore(at'[q]) : IdOf(j) + 1 = n
      BY <1>0, <1>a DEF ParseInv
    <3>1. CASE q = m
      BY <2>1, <2>2, <2>6, <3>1
    <3>2. CASE q # m
      BY <1>0, <1>1, <3>2 DEF ParseInv
    <3> QED BY <3>1, <3>2
  <2> QED BY <1>3, <1>4, <2>3, <2>4, <2>7 DEF IInv
<1>7. CASE SetCurnodeId(m)
  <2>1. PICK id \in Id :
          /\ HasAddr(m, id, m) /\ \A j \in Id : j < id => ~HasAddr(m, j, m)
          /\ curnode_id' = [curnode_id EXCEPT ![m] = id]
    BY <1>7 DEF SetCurnodeId
  <2>2. /\ UNCHANGED <<at, node_infos>> /\ at[m] > Len(doc)
        /\ pc' = [pc EXCEPT ![m] = "init"]
    BY <1>7 DEF SetCurnodeId
  <2>3. Shape'
    BY <1>0, <1>a, <1>1, <2>1, <2>2 DEF Shape
  <2>4. SelfInv'
    BY <1>0, <1>1, <2>1, <2>2 DEF SelfInv, Shape, FirstOwn, HasAddr, AddrOf, node_cnt
  <2> QED BY <1>0, <1>3, <1>4, <2>2, <2>3, <2>4, ParseKept DEF IInv
<1>8. CASE NotConfigured(m)
  <2>1. /\ UNCHANGED <<at, node_infos, curnode_id>>
        /\ pc' = [pc EXCEPT ![m] = "exited"]
    BY <1>8 DEF NotConfigured
  <2>2. Shape'
    BY <1>0, <1>a, <1>1, <2>1 DEF Shape
  <2>3. SelfInv'
    BY <1>0, <1>1, <2>1 DEF SelfInv, Shape, FirstOwn, HasAddr, AddrOf, node_cnt
  <2> QED BY <1>0, <1>3, <1>4, <2>1, <2>2, <2>3, ParseKept DEF IInv
<1> QED
  BY <1>5, <1>6, <1>7, <1>8

\* hmp_node_init keeps the invariant: the loop over the entries behind the
\* node's own is the only writer of connect_trans.
LEMMA NodeSteps ==
  ASSUME IInv, NEW m \in Machine,
         \/ InitFails(m) \/ Listen(m) \/ ClearTable(m)
         \/ CreateFails(m) \/ ConnectNext(m) \/ NodeReady(m)
  PROVE  IInv'
<1>0. /\ Shape /\ ParseInv /\ SelfInv /\ TableInv /\ RequestInv /\ ListenInv
      /\ UNCHANGED <<doc, at, node_infos, curnode_id>>
      /\ pc[m] \in {"init", "memset", "connect"}
  BY DEF IInv, InitFails, Listen, ClearTable, CreateFails, ConnectNext, NodeReady, ToConnect
<1>a. /\ Address' = Address /\ ParseInv'
      /\ \A q, id, a : HasAddr(q, id, a)' = HasAddr(q, id, a)
      /\ \A q, id : AddrOf(q, id)' = AddrOf(q, id)
      /\ \A q : FirstOwn(q)' = FirstOwn(q)
  BY <1>0, ParseKept DEF Address, HasAddr, AddrOf, FirstOwn, node_cnt
<1>1. \A q \in Machine : q # m => pc'[q] = pc[q] /\ i'[q] = i[q] /\
        connect_trans'[q] = connect_trans[q] /\ (q \in listening' => q \in listening)
  BY <1>0 DEF InitFails, Listen, ClearTable, CreateFails, ConnectNext, NodeReady, Shape
<1>b. ASSUME requests' = requests, pc'[m] # "parse"
      PROVE  RequestInv'
  <2>1. ASSUME NEW r \in requests PROVE Sent(r)'
    <3>1. r.from \in Machine
      BY <1>0 DEF Shape
    <3>2. pc'[r.from] # "parse"
      BY <1>0, <1>1, <1>b, <3>1 DEF RequestInv, Sent
    <3> QED BY <1>0, <1>a, <3>2 DEF RequestInv, Sent
  <2> QED BY <1>b, <2>1 DEF RequestInv
<1>c. ASSUME m \in listening' => Up(m)'
      PROVE  ListenInv'
  BY <1>0, <1>1, <1>c DEF ListenInv, Up, InitFails, Listen, ClearTable, CreateFails,
     ConnectNext, NodeReady
<1>2. ASSUME UNCHANGED <<i, connect_trans, requests>>, SelfInv', ListenInv',
             NEW l \in {"memset", "ready", "exited"}, pc' = [pc EXCEPT ![m] = l],
             pc[m] = "init" \/ l = "ready"
      PROVE  IInv'
  <2>1. Shape'
    BY <1>0, <1>a, <1>2 DEF Shape
  <2>2. \A q \in Machine : Up(q) => Up(q)'
    BY <1>0, <1>2 DEF Up, Shape
  <2>3. TableInv'
    BY <1>0, <1>a, <1>2, <2>2 DEF TableInv
  <2>4. RequestInv'
    BY <1>0, <1>2, <1>b DEF Shape
  <2> QED BY <1>a, <1>2, <2>1, <2>3, <2>4 DEF IInv
<1>3. CASE InitFails(m) \/ Listen(m) \/ NodeReady(m)
  <2>1. SelfInv'
    BY <1>0, <1>a, <1>3 DEF SelfInv, Shape, InitFails, Listen, NodeReady
  <2>2. m \in listening' => Up(m)'
    BY <1>0, <1>3 DEF ListenInv, Up, Shape, InitFails, Listen, NodeReady
  <2>3. ListenInv'
    BY <1>c, <2>2
  <2> QED BY <1>2, <1>3, <2>1, <2>3 DEF InitFails, Listen, NodeReady
<1>4. CASE ClearTable(m) \/ CreateFails(m)
  <2>1. /\ pc' = [pc EXCEPT ![m] = pc'[m]] /\ UNCHANGED requests
        /\ connect_trans' = [connect_trans EXCEPT ![m] = Unconnected]
        /\ pc'[m] \in {"connect", "exited"}
    BY <1>0, <1>4 DEF ClearTable, CreateFails, Shape
  <2>2. /\ i' = [i EXCEPT ![m] = i'[m]] /\ i'[m] \in 0 .. HMP_NODE_NUM
        /\ pc'[m] = "connect" => i'[m] > curnode_id[m]
    <3>1. curnode_id[m] \in Id
      BY <1>0 DEF Shape
    <3> QED BY <1>0, <1>4, <3>1 DEF ClearTable, CreateFails, ToConnect, Shape, Id, HMP_NODE_NUM
  <2>3. Shape'
    BY <1>0, <1>a, <2>1, <2>2 DEF Shape, Unconnected
  <2>4. \A q \in Machine : q # m => (Up(q) => Up(q)')
    BY <1>1 DEF Up
  <2>5. SelfInv'
    BY <1>0, <1>a, <1>1, <2>1, <2>2 DEF SelfInv, Shape
  <2>6. TableInv'
    BY <1>0, <1>a, <2>1, <2>4 DEF TableInv, Shape, Unconnected
  <2>7. m \in listening' => Up(m)'
    BY <1>0, <1>4 DEF ListenInv, Up, Shape, ClearTable, CreateFails
  <2>8. RequestInv' /\ ListenInv'
    BY <1>b, <1>c, <2>1, <2>7
  <2> QED BY <1>a, <2>3, <2>5, <2>6, <2>8 DEF IInv
<1>5. CASE ConnectNext(m)
  <2> DEFINE e == i[m]  sent == {[from |-> m, to |-> p, entry |-> e] : p \in Machine \cap {AddrOf(m, e)}}
  <2>1. /\ UNCHANGED pc /\ pc[m] = "connect" /\ e < node_cnt(m)
        /\ connect_trans' = [connect_trans EXCEPT ![m][e] = AddrOf(m, e)]
        /\ requests' \subseteq requests \cup sent /\ UNCHANGED listening
        /\ i' = [i EXCEPT ![m] = e + 1]
    BY <1>5 DEF ConnectNext, ToConnect
  <2>2. /\ e \in Id /\ e + 1 \in 0 .. HMP_NODE_NUM /\ AddrOf(m, e) \in Address
        /\ curnode_id[m] \in Id /\ e > curnode_id[m]
    <3>1. e \in 0 .. HMP_NODE_NUM /\ curnode_id[m] \in Id /\ e > curnode_id[m]
      BY <1>0, <2>1 DEF Shape, SelfInv
    <3>2. node_cnt(m) \in 0 .. HMP_NODE_NUM
      BY <1>0, EntryFacts
    <3>3. e \in 0 .. node_cnt(m) - 1
      BY <2>1, <3>1, <3>2 DEF HMP_NODE_NUM
    <3> QED BY <1>0, <3>1, <3>2, <3>3, EntryFacts DEF HMP_NODE_NUM
  <2>3. connect_trans' \in [Machine -> [Id -> Address \cup Machine \cup {NoTrans}]]
    BY <1>0, <2>1, <2>2 DEF Shape
  <2>4. requests' \subseteq [from : Machine, to : Machine, entry : Id]
    BY <1>0, <2>1, <2>2 DEF Shape
  <2>5. Shape'
    BY <1>0, <1>a, <2>1, <2>2, <2>3, <2>4 DEF Shape
  <2>6. (\A q : Up(q)' = Up(q)) /\ ListenInv'
    BY <1>0, <2>1 DEF Up, ListenInv
  <2>7. SelfInv'
    BY <1>0, <1>a, <1>1, <2>1, <2>2 DEF SelfInv, Shape, Id, HMP_NODE_NUM
  <2>8. TableInv'
    <3> SUFFICES ASSUME NEW q \in Machine, NEW id \in Id, connect_trans'[q][id] # NoTrans
                 PROVE  /\ Up(q)
                        /\ HasAddr(q, id, connect_trans'[q][id])
                        /\ id < curnode_id[q] =>
                             \A j \in Id : j < id => AddrOf(q, j) # AddrOf(q, id)
      BY <1>0, <1>a, <2>6 DEF TableInv
    <3>1. CASE q = m /\ id = e
      <4>1. connect_trans'[q][id] = AddrOf(m, e)
        BY <1>0, <2>1, <2>2, <3>1 DEF Shape
      <4>2. ~(id < curnode_id[q])
        BY <2>2, <3>1 DEF Id
      <4> QED BY <2>1, <3>1, <4>1, <4>2 DEF Up, HasAddr
    <3>2. CASE ~(q = m /\ id = e)
      <4>1. connect_trans'[q][id] = connect_trans[q][id]
        BY <1>0, <2>1, <2>2, <3>2 DEF Shape
      <4> QED BY <1>0, <4>1 DEF TableInv
    <3> QED BY <3>1, <3>2
  <2>9. RequestInv'
    <3> SUFFICES ASSUME NEW r \in requests \cup sent
                 PROVE  Sent(r)'
      BY <2>1 DEF RequestInv
    <3>1. CASE r \in requests
      BY <1>0, <1>a, <2>1, <3>1 DEF RequestInv, Sent
    <3>2. CASE r \in sent
      <4>1. r.from = m /\ r.entry = e /\ r.to = AddrOf(m, e)
        BY <3>2
      <4>2. node_cnt(m) > 0
        BY <2>1, <2>2, EntryFacts, <1>0 DEF Id
      <4>3. at[m] > Len(doc) /\ FirstOwn(m)
        BY <1>0, <2>1, <4>2 DEF SelfInv, node_cnt
      <4> QED BY <1>0, <1>a, <2>1, <2>2, <4>1, <4>3 DEF Sent, HasAddr
    <3> QED BY <3>1, <3>2
  <2> QED BY <1>a, <2>5, <2>6, <2>7, <2>8, <2>9 DEF IInv
<1> QED
  BY <1>3, <1>4, <1>5

\* on_cm_connect_request keeps the invariant, and so does a rejected request.
LEMMA RequestSteps ==
  ASSUME IInv, NEW r \in requests, OnConnectRequest(r.to, r) \/ RequestRejected(r)
  PROVE  IInv'
<1> DEFINE m == r.to
<1>0. /\ Shape /\ ParseInv /\ SelfInv /\ TableInv /\ RequestInv /\ ListenInv
      /\ UNCHANGED <<doc, pc, at, node_infos, curnode_id, i, listening>>
      /\ requests' = requests \ {r} /\ m \in Machine /\ r.from \in Machine
  BY DEF IInv, OnConnectRequest, RequestRejected, Shape
<1>a. /\ Address' = Address /\ ParseInv'
      /\ \A q, id, a : HasAddr(q, id, a)' = HasAddr(q, id, a)
      /\ \A q, id : AddrOf(q, id)' = AddrOf(q, id)
      /\ \A q : FirstOwn(q)' = FirstOwn(q)
      /\ \A q : Up(q)' = Up(q)
  BY <1>0, ParseKept DEF Address, HasAddr, AddrOf, FirstOwn, node_cnt, Up
<1>1. SelfInv' /\ RequestInv' /\ ListenInv'
  BY <1>0, <1>a DEF SelfInv, RequestInv, Sent, ListenInv
<1>2. CASE UNCHANGED connect_trans
  <2>1. Shape' /\ TableInv'
    BY <1>0, <1>a, <1>2 DEF Shape, TableInv
  <2> QED BY <1>a, <1>1, <2>1 DEF IInv
<1>3. CASE connect_trans' # connect_trans
  <2>1. PICK e \in Id :
          /\ Knows(m, e, r.from) /\ \A j \in Id : j < e => ~Knows(m, j, r.from)
          /\ connect_trans' = [connect_trans EXCEPT ![m][e] = r.from]
    BY <1>3 DEF OnConnectRequest, RequestRejected
  <2>2. Up(m)
    BY <1>0, <1>3 DEF OnConnectRequest, RequestRejected, ListenInv
  <2>3. Shape'
    BY <1>0, <1>a, <2>1 DEF Shape
  <2>4. e < curnode_id[m] /\ AddrOf(m, e) = r.from /\ curnode_id[m] \in Id
    BY <1>0, <2>1 DEF Knows, Shape
  <2>5. e < node_cnt(m)
    <3>1. FirstOwn(m) \/ curnode_id[m] = 0
      BY <1>0, <2>2 DEF SelfInv, Up
    <3>2. CASE FirstOwn(m)
      <4>1. curnode_id[m] < node_cnt(m) /\ node_cnt(m) \in Nat
        BY <1>0, <3>2, EntryFacts DEF FirstOwn, HasAddr
      <4> QED BY <2>4, <4>1 DEF Id
    <3>3. CASE curnode_id[m] = 0
      BY <2>4, <3>3 DEF Id
    <3> QED BY <3>1, <3>2, <3>3
  <2>6. TableInv'
    <3> SUFFICES ASSUME NEW q \in Machine, NEW id \in Id, connect_trans'[q][id] # NoTrans
                 PROVE  /\ Up(q)
                        /\ HasAddr(q, id, connect_trans'[q][id])
                        /\ id < curnode_id[q] =>
                             \A j \in Id : j < id => AddrOf(q, j) # AddrOf(q, id)
      BY <1>0, <1>a DEF TableInv
    <3>1. CASE q = m /\ id = e
      <4>1. connect_trans'[q][id] = r.from
        BY <1>0, <2>1, <3>1 DEF Shape
      <4>2. \A j \in Id : j < e => j < curnode_id[m]
        BY <2>4 DEF Id
      <4>3. \A j \in Id : j < e => AddrOf(m, j) # r.from
        BY <2>1, <4>2 DEF Knows
      <4> QED BY <2>2, <2>4, <2>5, <3>1, <4>1, <4>3 DEF HasAddr
    <3>2. CASE ~(q = m /\ id = e)
      <4>1. connect_trans'[q][id] = connect_trans[q][id]
        BY <1>0, <2>1, <3>2 DEF Shape
      <4> QED BY <1>0, <4>1 DEF TableInv
    <3> QED BY <3>1, <3>2
  <2> QED BY <1>a, <1>1, <2>3, <2>6 DEF IInv
<1> QED
  BY <1>2, <1>3

\* The inductive invariant holds in every state.
LEMMA Inductive == Spec => []IInv
<1>1. Init => IInv
  BY InitIInv
<1>2. IInv /\ [Next]_vars => IInv'
  <2> SUFFICES ASSUME IInv, [Next]_vars PROVE IInv'
    OBVIOUS
  <2>1. CASE UNCHANGED vars
    <3>1. UNCHANGED <<doc, pc, at, node_infos, curnode_id, i, connect_trans, listening, requests>>
      BY <2>1 DEF vars
    <3>2. ParseInv' /\ Address' = Address
      BY <3>1, ParseKept DEF Address
    <3>3. /\ \A q, id, a : HasAddr(q, id, a)' = HasAddr(q, id, a)
          /\ \A q, id : AddrOf(q, id)' = AddrOf(q, id)
          /\ \A q : FirstOwn(q)' = FirstOwn(q)
          /\ \A q : Up(q)' = Up(q)
      BY <3>1 DEF HasAddr, AddrOf, FirstOwn, node_cnt, Up
    <3> QED BY <3>1, <3>2, <3>3 DEF IInv, Shape, SelfInv, TableInv, RequestInv, Sent, ListenInv
  <2>2. CASE Next
    BY <2>2, ParseSteps, NodeSteps, RequestSteps, Zenon DEF Next
  <2> QED BY <2>1, <2>2
<1> QED
  BY <1>1, <1>2, PTL DEF Spec

-----------------------------------------------------------------------------
(* The properties *)

\* A configured machine that listens, or is about to, found its own address.
LEMMA OwnEntry ==
  ASSUME IInv, NEW p \in Machine, Configured(p)
  PROVE  FirstOwn(p) /\ at[p] > Len(doc) /\ curnode_id[p] \in Id
<1>1. node_infos[p] # <<>>
  BY DEF Configured, node_cnt
<1> QED
  BY <1>1 DEF IInv, SelfInv, Shape, Configured

\* A machine that is up and has entries is configured.
LEMMA UpConfigured ==
  ASSUME IInv, NEW m \in Machine, Up(m), NEW id, NEW a, id \in Id, HasAddr(m, id, a)
  PROVE  Configured(m)
<1>1. node_cnt(m) \in Nat /\ node_cnt(m) > 0
  BY EntryFacts DEF IInv, HasAddr, Id
<1>2. node_infos[m] # <<>>
  BY <1>1 DEF node_cnt
<1> QED
  BY <1>1, <1>2 DEF IInv, SelfInv, Up, Configured

\* For files of at most eight entries (DocsAssumption; hmp_config_init does not
\* count them), and whatever fails: ids and the entries parsed keep their
\* types, connect_trans names only the machine an entry was parsed for, under
\* that entry's id, and no process listens that has exited.
THEOREM TypeCorrect == Spec => []TypeOK
<1>1. ASSUME IInv PROVE TypeOK
  <2>1. doc \in Docs /\ Len(doc) \in Nat
    BY <1>1, AtFacts DEF IInv
  <2>2. ASSUME NEW m \in Machine, NEW id \in Id, connect_trans[m][id] # NoTrans
        PROVE  id < node_cnt(m) /\ connect_trans[m][id] = AddrOf(m, id)
    BY <1>1, <2>2 DEF IInv, TableInv, HasAddr
  <2>3. ASSUME NEW m \in Machine
        PROVE  /\ node_cnt(m) <= HMP_NODE_NUM
               /\ \A id \in 0 .. node_cnt(m) - 1 : AddrOf(m, id) # Text
    BY <1>1, EntryFacts DEF IInv, HMP_NODE_NUM
  <2>4. listening \subseteq {m \in Machine : pc[m] \in {"memset", "connect", "ready"}}
    BY <1>1 DEF IInv, ListenInv, Up
  <2> QED BY <1>1, <2>1, <2>2, <2>3, <2>4 DEF IInv, Shape, TypeOK
<1> QED
  BY <1>1, Inductive, PTL

\* What on_cm_connect_request or hmp_node_init enters under an id is the machine
\* that gave itself that id, for any file, also where addresses come twice.
THEOREM TablesNamePeers == Spec => []TableNamesPeer
<1>1. ASSUME IInv PROVE TableNamesPeer
  <2> SUFFICES ASSUME NEW m \in Machine, NEW p \in Machine, NEW id \in Id,
                      connect_trans[m][id] = p, Configured(p),
                      Distinct \/ id < curnode_id[m]
               PROVE  curnode_id[p] = id
    BY DEF TableNamesPeer
  <2>1. connect_trans[m][id] # NoTrans
    BY MachineAssumption
  <2>2. Up(m) /\ HasAddr(m, id, p)
    BY <1>1, <2>1 DEF IInv, TableInv
  <2>3. Configured(m)
    BY <1>1, <2>2, UpConfigured
  <2>4. node_infos[m] = node_infos[p]
    BY <1>1, <2>3, OwnEntry, SameEntries DEF IInv
  <2>5. HasAddr(p, id, p) /\ \A j \in Id : AddrOf(p, j) = AddrOf(m, j)
    BY <2>2, <2>4 DEF HasAddr, AddrOf, node_cnt
  <2>6. FirstOwn(p) /\ curnode_id[p] \in Id
    BY <1>1, OwnEntry
  <2>7. ~(id < curnode_id[p])
    BY <2>5, <2>6 DEF FirstOwn
  <2>8. AddrOf(p, curnode_id[p]) = p /\ curnode_id[p] < node_cnt(p) /\ id < node_cnt(p)
        /\ AddrOf(p, id) = p
    BY <2>5, <2>6 DEF FirstOwn, HasAddr
  <2>9. ~(curnode_id[p] < id)
    <3>1. CASE Distinct
      BY <2>6, <2>8, <3>1 DEF Distinct
    <3>2. CASE id < curnode_id[m]
      <4>1. \A j \in Id : j < id => AddrOf(m, j) # AddrOf(m, id)
        BY <1>1, <2>1, <3>2 DEF IInv, TableInv
      <4> QED BY <2>5, <2>6, <2>8, <4>1
    <3> QED BY <3>1, <3>2
  <2> QED BY <2>6, <2>7, <2>9 DEF Id
<1> QED
  BY <1>1, Inductive, PTL

\* No request reaches a listener that has no entry for its sender, so both ends
\* agree which of them connects.
THEOREM RequestsAreKnown == Spec => []RequestsKnown
<1>1. ASSUME IInv PROVE RequestsKnown
  <2> SUFFICES ASSUME Distinct, NEW r \in requests, Configured(r.to)
               PROVE  \E id \in Id : Knows(r.to, id, r.from) /\ id = curnode_id[r.from]
    BY DEF RequestsKnown
  <2> DEFINE p == r.from  m == r.to  e == r.entry
  <2>1. /\ p \in Machine /\ m \in Machine /\ e \in Id
        /\ at[p] > Len(doc) /\ FirstOwn(p) /\ HasAddr(p, e, m) /\ e > curnode_id[p]
    BY <1>1 DEF IInv, Shape, RequestInv, Sent
  <2>2. FirstOwn(m) /\ at[m] > Len(doc) /\ curnode_id[m] \in Id
    BY <1>1, <2>1, OwnEntry
  <2>3. node_infos[m] = node_infos[p]
    BY <1>1, <2>1, <2>2, SameEntries DEF IInv
  <2>4. FirstOwn(p) /\ FirstOwn(m) /\ curnode_id[p] \in Id /\ curnode_id[m] \in Id
    BY <1>1, <2>1, <2>2 DEF IInv, Shape
  <2>5. /\ AddrOf(m, e) = m /\ e < node_cnt(m)
        /\ AddrOf(m, curnode_id[p]) = p
        /\ AddrOf(m, curnode_id[m]) = m /\ curnode_id[m] < node_cnt(m)
    BY <2>1, <2>3, <2>4 DEF FirstOwn, HasAddr, AddrOf, node_cnt
  <2>6. \A a, b \in Id : a < b /\ b < node_cnt(m) => AddrOf(m, a) # AddrOf(m, b)
    BY <2>1 DEF Distinct
  <2>7. curnode_id[m] = e
    BY <2>1, <2>4, <2>5, <2>6 DEF Id
  <2> QED BY <2>1, <2>4, <2>5, <2>7 DEF Knows
<1> QED
  BY <1>1, Inductive, PTL
=============================================================================
