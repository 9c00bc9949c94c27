------------------------------- MODULE HmpStartup -------------------------------
(***************************************************************************)
(* The start of the nodes of a cluster: every machine parses its copy of the *)
(* same config.xml, finds its own entry by its address, connects to the      *)
(* entries behind its own and looks up the peers that connect to it among    *)
(* the entries before its own.  Nothing but the configuration and the        *)
(* addresses tells them who is who.                                         *)
(***************************************************************************)
EXTENDS Naturals, Sequences, FiniteSets

CONSTANTS
  Machine,   \* the machines; each is named by the address of its ib0 interface
  Docs,      \* the contents config.xml may have
  Faults     \* what may fail

\* "config.xml": the file is missing, no XML, or has another root element.
\* "ib0": the machine has no such interface, or it is down.
\* "init": a call after which hmp_node_init exits before it listens.
\* "hmp_transport_create": no memory or no event channel for a transport.
\* "hmp_transport_listen", "hmp_transport_connect": they give up, and their
\* caller does not look at it.
\* "hmp_qp_create": no queue pair for a peer that connects, or no device.
FaultKind == {"config.xml", "ib0", "init", "hmp_transport_create",
              "hmp_transport_listen", "hmp_transport_connect", "hmp_qp_create"}

\* The children of the root: an element "node" with the address it gives,
\* which may be one no machine has, or anything else ("text").
HMP_NODE_NUM == 8
Text == "text"
NoTrans == "none"            \* connect_trans of an entry that is not connected
Nodes(d) == {k \in DOMAIN d : d[k] # Text}
\* At most HMP_NODE_NUM entries: hmp_config_init does not look, and writes past
\* node_infos when there are more.
ASSUME DocsAssumption ==
  \A d \in Docs : d \in Seq({d[k] : k \in DOMAIN d}) /\ Cardinality(Nodes(d)) <= HMP_NODE_NUM
ASSUME MachineAssumption == NoTrans \notin Machine
ASSUME StartupFaultsAssumption == Faults \subseteq FaultKind

Id == 0 .. HMP_NODE_NUM - 1

VARIABLES
  doc,          \* config.xml
  pc,           \* pc[m]: where the main thread of m is
  at,           \* at[m]: the child of the root it parses next
  node_infos,   \* node_infos[m]: the addresses of the entries parsed
  curnode_id,   \* curnode_id[m]; 0 also while it is -1, before it is looked at
  i,            \* i[m]: the loop variable of hmp_node_init
  connect_trans,\* connect_trans[m][id]: the machine at the other end
  listening,    \* the machines whose listen_trans is in LISTEN
  requests      \* connect requests on their way

vars == <<doc, pc, at, node_infos, curnode_id, i, connect_trans, listening, requests>>

Unconnected == [id \in Id |-> NoTrans]
node_cnt(m) == Len(node_infos[m])
AddrOf(m, id) == node_infos[m][id + 1]

Init ==
  /\ doc \in Docs
  /\ pc = [m \in Machine |-> "parse"]
  /\ at = [m \in Machine |-> 1]
  /\ node_infos = [m \in Machine |-> <<>>]
  /\ curnode_id = [m \in Machine |-> 0]
  /\ i = [m \in Machine |-> 0]
  /\ connect_trans = [m \in Machine |-> Unconnected]
  /\ listening = {} /\ requests = {}

-----------------------------------------------------------------------------
(* hmp_config_init *)

\* It returns -1, which hmp_node_init ignores: the node goes on with no entry,
\* as the node 0 that the variables were initialised to.
ParseFails(m) ==
  /\ pc[m] = "parse" /\ at[m] = 1 /\ "config.xml" \in Faults
  /\ pc' = [pc EXCEPT ![m] = "init"]
  /\ UNCHANGED <<doc, at, node_infos, curnode_id, i, connect_trans, listening, requests>>

\* Wrong: every child is taken for an entry.
ParseChildAny(m) ==
  /\ pc[m] = "parse" /\ at[m] <= Len(doc)
  /\ at' = [at EXCEPT ![m] = @ + 1]
  /\ node_infos' = [node_infos EXCEPT ![m] = Append(@, doc[at[m]])]
  /\ UNCHANGED <<doc, pc, curnode_id, i, connect_trans, listening, requests>>

\* One turn of the loop over the children of the root: hmp_parse_node.
ParseChild(m) ==
  /\ pc[m] = "parse" /\ at[m] <= Len(doc)
  /\ at' = [at EXCEPT ![m] = @ + 1]
  /\ node_infos' = IF doc[at[m]] = Text THEN node_infos
                   ELSE [node_infos EXCEPT ![m] = Append(@, doc[at[m]])]
  /\ UNCHANGED <<doc, pc, curnode_id, i, connect_trans, listening, requests>>

HasAddr(m, id, a) == id < node_cnt(m) /\ AddrOf(m, id) = a

\* Wrong: the loop goes on to the last entry with the address.
SetCurnodeIdLast(m) ==
  /\ pc[m] = "parse" /\ at[m] > Len(doc)
  /\ \E id \in Id :
       /\ HasAddr(m, id, m) /\ \A j \in Id : j > id => ~HasAddr(m, j, m)
       /\ curnode_id' = [curnode_id EXCEPT ![m] = id]
       /\ pc' = [pc EXCEPT ![m] = "init"]
  /\ UNCHANGED <<doc, at, node_infos, i, connect_trans, listening, requests>>

\* hmp_set_curnode_id: the first entry with the address of ib0.
SetCurnodeId(m) ==
  /\ pc[m] = "parse" /\ at[m] > Len(doc)
  /\ \E id \in Id :
       /\ HasAddr(m, id, m) /\ \A j \in Id : j < id => ~HasAddr(m, j, m)
       /\ curnode_id' = [curnode_id EXCEPT ![m] = id]
       /\ pc' = [pc EXCEPT ![m] = "init"]
  /\ UNCHANGED <<doc, at, node_infos, i, connect_trans, listening, requests>>

\* No such interface, or no entry with its address: exit(-1).
NotConfigured(m) ==
  /\ pc[m] = "parse" /\ at[m] > Len(doc)
  /\ "ib0" \in Faults \/ \A id \in Id : ~HasAddr(m, id, m)
  /\ pc' = [pc EXCEPT ![m] = "exited"]
  /\ UNCHANGED <<doc, at, node_infos, curnode_id, i, connect_trans, listening, requests>>

-----------------------------------------------------------------------------
(* hmp_node_init *)

\* No memory, no epoll instance or thread, no registered pool: exit(-1).
InitFails(m) ==
  /\ pc[m] = "init" /\ "init" \in Faults
  /\ pc' = [pc EXCEPT ![m] = "exited"]
  /\ UNCHANGED <<doc, at, node_infos, curnode_id, i, connect_trans, listening, requests>>

\* hmp_transport_listen; the node goes on without a listener when it fails.
Listen(m) ==
  /\ pc[m] = "init"
  /\ pc' = [pc EXCEPT ![m] = "memset"]
  /\ \/ listening' = listening \cup {m}
     \/ "hmp_transport_listen" \in Faults /\ UNCHANGED listening
  /\ UNCHANGED <<doc, at, node_infos, curnode_id, i, connect_trans, requests>>

\* Wrong: the loop begins with the node itself.
ClearTableFromSelf(m) ==
  /\ pc[m] = "memset"
  /\ pc' = [pc EXCEPT ![m] = "connect"]
  /\ connect_trans' = [connect_trans EXCEPT ![m] = Unconnected]
  /\ i' = [i EXCEPT ![m] = curnode_id[m]]
  /\ UNCHANGED <<doc, at, node_infos, curnode_id, listening, requests>>

\* The memset of connect_trans, and the start of the loop behind it.
ClearTable(m) ==
  /\ pc[m] = "memset"
  /\ pc' = [pc EXCEPT ![m] = "connect"]
  /\ connect_trans' = [connect_trans EXCEPT ![m] = Unconnected]
  /\ i' = [i EXCEPT ![m] = curnode_id[m] + 1]
  /\ UNCHANGED <<doc, at, node_infos, curnode_id, listening, requests>>

\* The turns of the loop that are left.
ToConnect(m) == pc[m] = "connect" /\ i[m] < node_cnt(m)

\* hmp_transport_create in the loop: exit(-1), and what the process had is gone.
\* A request on its way is not.
CreateFails(m) ==
  /\ ToConnect(m) /\ "hmp_transport_create" \in Faults
  /\ pc' = [pc EXCEPT ![m] = "exited"]
  /\ connect_trans' = [connect_trans EXCEPT ![m] = Unconnected]
  /\ listening' = listening \ {m}
  /\ UNCHANGED <<doc, at, node_infos, curnode_id, i, requests>>

\* hmp_transport_connect, once per entry; nothing comes of it when no machine
\* has the address, or when it fails, but the transport stays in the table.
ConnectNext(m) ==
  /\ ToConnect(m)
  /\ connect_trans' = [connect_trans EXCEPT ![m][i[m]] = AddrOf(m, i[m])]
  /\ \/ requests' = requests \cup
          {[from |-> m, to |-> p, entry |-> i[m]] : p \in Machine \cap {AddrOf(m, i[m])}}
     \/ "hmp_transport_connect" \in Faults /\ UNCHANGED requests
  /\ i' = [i EXCEPT ![m] = @ + 1]
  /\ UNCHANGED <<doc, pc, at, node_infos, curnode_id, listening>>

NodeReady(m) ==
  /\ pc[m] = "connect" /\ i[m] >= node_cnt(m)
  /\ pc' = [pc EXCEPT ![m] = "ready"]
  /\ UNCHANGED <<doc, at, node_infos, curnode_id, i, connect_trans, listening, requests>>

-----------------------------------------------------------------------------
(* on_cm_connect_request, in the epoll thread *)

\* The entries before the node's own that have the address of the peer.
Knows(m, id, p) == id < curnode_id[m] /\ AddrOf(m, id) = p

OnConnectRequest(m, r) ==
  /\ m \in listening /\ r.to = m
  /\ requests' = requests \ {r}
  /\ \/ \E id \in Id :
          /\ Knows(m, id, r.from) /\ \A j \in Id : j < id => ~Knows(m, j, r.from)
          /\ connect_trans' = [connect_trans EXCEPT ![m][id] = r.from]
     \/ (\A id \in Id : ~Knows(m, id, r.from)) /\ UNCHANGED connect_trans
     \/ Faults \cap {"hmp_transport_create", "hmp_qp_create"} # {} /\ UNCHANGED connect_trans
  /\ UNCHANGED <<doc, pc, at, node_infos, curnode_id, i, listening>>

\* External: the peer does not listen.  Nobody tries again.
RequestRejected(r) ==
  /\ r.to \notin listening
  /\ requests' = requests \ {r}
  /\ UNCHANGED <<doc, pc, at, node_infos, curnode_id, i, connect_trans, listening>>

Next ==
  \/ \E m \in Machine :
       \/ ParseFails(m) \/ ParseChild(m) \/ SetCurnodeId(m) \/ NotConfigured(m)
       \/ InitFails(m) \/ Listen(m) \/ ClearTable(m) \/ CreateFails(m)
       \/ ConnectNext(m) \/ NodeReady(m)
  \/ \E r \in requests : OnConnectRequest(r.to, r) \/ RequestRejected(r)

Spec == Init /\ [][Next]_vars

-----------------------------------------------------------------------------
(* Properties *)

\* The type invariant of this module.
TypeOK ==
  /\ doc \in Docs
  /\ pc \in [Machine -> {"parse", "init", "memset", "connect", "ready", "exited"}]
  /\ \A m \in Machine :
       /\ at[m] \in 1 .. Len(doc) + 1
       /\ node_cnt(m) <= HMP_NODE_NUM
       /\ \A id \in 0 .. node_cnt(m) - 1 : AddrOf(m, id) # Text
       /\ curnode_id[m] \in Id /\ i[m] \in 0 .. HMP_NODE_NUM
       /\ \A id \in Id : connect_trans[m][id] # NoTrans =>
            id < node_cnt(m) /\ connect_trans[m][id] = AddrOf(m, id)
  /\ listening \subseteq {m \in Machine : pc[m] \in {"memset", "connect", "ready"}}
  /\ \A r \in requests : r.from \in Machine /\ r.to \in Machine /\ r.entry \in Id

Configured(m) == pc[m] \notin {"parse", "exited"} /\ at[m] > Len(doc) /\ node_cnt(m) > 0

\* The entries of config.xml have different addresses.
Distinct == \A m \in Machine : \A a, b \in Id :
  a < b /\ b < node_cnt(m) => AddrOf(m, a) # AddrOf(m, b)

\* The machine that on_cm_connect_request or hmp_node_init entered under an id
\* is the one that gave itself that id in hmp_set_curnode_id.  An address that
\* config.xml gives twice breaks this for the entries behind the node's own,
\* but never for those before.
TableNamesPeer ==
  \A m, p \in Machine : \A id \in Id :
    /\ connect_trans[m][id] = p /\ Configured(p)
    /\ Distinct \/ id < curnode_id[m]
    => curnode_id[p] = id

\* A request that reaches a listener comes from a peer it has an entry for:
\* both ends agree which of them connects, so no pair of nodes gets two
\* connections, or one with itself.
RequestsKnown ==
  Distinct =>
    \A r \in requests :
      Configured(r.to) => \E id \in Id : Knows(r.to, id, r.from) /\ id = curnode_id[r.from]
=============================================================================
