-------------------------------- MODULE HmpDevice --------------------------------
(***************************************************************************)
(* The RDMA devices of a node: hmp_transport_init puts every usable device   *)
(* on a list, the memory pool is registered with the first, the handlers     *)
(* look devices up by their verbs context and build queue pairs on them, and *)
(* hmp_transport_release frees the list.  The epoll thread, which does the   *)
(* lookups, is created after the first and joined before the last.  Both     *)
(* run at most once, by pthread_once.                                        *)
(***************************************************************************)
EXTENDS Naturals, Sequences, FiniteSets, HmpList

CONSTANTS
  MaxDevices,  \* bound on the devices rdma_get_devices returns
  Faults       \* the library calls that may fail

FaultKind == {"rdma_get_devices", "calloc", "ibv_alloc_pd"}

\* What an element of ctx_list is: NULL, the software adapter of the loopback
\* interface, or another device.  A device is named by its place in ctx_list.
Kind == {"null", "siw_lo", "rnic"}
Device == 1 .. MaxDevices
DevList == 0                 \* curnode.dev_list
Entry == 0 .. MaxDevices

VARIABLES
  pc,           \* where the main thread is
  ctx_list,     \* what rdma_get_devices returns
  i,            \* the loop variable of hmp_device_init_handle
  num_devices,  \* curnode.num_devices
  list,         \* the list_heads of the devices, and curnode.dev_list
  devs,         \* devices whose struct hmp_device is allocated
  pds,          \* devices with a protection domain
  busy,         \* devices whose domain has a memory region or queue pairs
  dev, next,    \* the cursors of list_for_each_entry_safe
  lookup        \* hmp_device_lookup: the verbs wanted, the cursor

vars == <<pc, ctx_list, i, num_devices, list, devs, pds, busy, dev, next, lookup>>

NoLookup == [verbs |-> 0, at |-> DevList]

Init ==
  /\ pc = "boot"
  /\ ctx_list \in UNION {[1 .. n -> Kind] : n \in 0 .. MaxDevices}
  /\ i = 1 /\ num_devices = 0
  /\ list = SelfHeap(Entry)
  /\ devs = {} /\ pds = {} /\ busy = {}
  /\ dev = DevList /\ next = DevList
  /\ lookup = NoLookup

-----------------------------------------------------------------------------
(* hmp_transport_init *)

\* rdma_get_devices; without devices the list stays empty.
GetDevices ==
  /\ pc = "boot"
  /\ list' = INIT_LIST_HEAD(list, DevList)
  /\ \/ pc' = "init" /\ num_devices' = Len(ctx_list)
     \/ "rdma_get_devices" \in Faults /\ pc' = "register" /\ UNCHANGED num_devices
  /\ UNCHANGED <<ctx_list, i, devs, pds, busy, dev, next, lookup>>

Listed == pc = "init" /\ i \in DOMAIN ctx_list

\* Wrong: a device that cannot be used is still counted.
SkipCounted ==
  /\ Listed
  /\ ctx_list[i] \in {"null", "siw_lo"} \/ Faults \cap {"calloc", "ibv_alloc_pd"} # {}
  /\ i' = i + 1
  /\ UNCHANGED <<pc, ctx_list, num_devices, list, devs, pds, busy, dev, next, lookup>>

\* A device that is not there, is the loopback one, or cannot be initialised;
\* hmp_device_init frees what it allocated for it.
SkipDevice ==
  /\ Listed
  /\ ctx_list[i] \in {"null", "siw_lo"} \/ Faults \cap {"calloc", "ibv_alloc_pd"} # {}
  /\ i' = i + 1 /\ num_devices' = num_devices - 1
  /\ UNCHANGED <<pc, ctx_list, list, devs, pds, busy, dev, next, lookup>>

\* hmp_device_init, and the device is put in front of the list.  So is a device
\* that ibv_query_device fails for: the call returns a positive error number
\* and the code takes only a negative one for a failure, so nothing changes but
\* that device_attr stays zero.
AddDevice ==
  /\ Listed /\ ctx_list[i] = "rnic"
  /\ devs' = devs \cup {i} /\ pds' = pds \cup {i}
  /\ list' = list_add(INIT_LIST_HEAD(list, i), i, DevList)
  /\ i' = i + 1
  /\ UNCHANGED <<pc, ctx_list, num_devices, busy, dev, next, lookup>>

InitDone ==
  /\ pc = "init" /\ i > Len(ctx_list)
  /\ pc' = "register"
  /\ UNCHANGED <<ctx_list, i, num_devices, list, devs, pds, busy, dev, next, lookup>>

\* hmp_node_init gives the listener the first device of the list, if there is
\* one, and hmp_mempool_create takes the domain from there.
RegisterPool ==
  /\ pc = "register"
  /\ \/ ~list_empty(list, DevList) /\ pc' = "ready" /\ busy' = {list.next[DevList]}
     \/ list_empty(list, DevList) /\ pc' = "crashed" /\ UNCHANGED busy
  /\ UNCHANGED <<ctx_list, i, num_devices, list, devs, pds, dev, next, lookup>>

-----------------------------------------------------------------------------
(* hmp_device_lookup, in the epoll thread *)

\* A handler looks for the device of the identifier in its event.
StartLookup(v) ==
  /\ pc = "ready" /\ lookup = NoLookup
  /\ lookup' = [verbs |-> v, at |-> list.next[DevList]]
  /\ UNCHANGED <<pc, ctx_list, i, num_devices, list, devs, pds, busy, dev, next>>

\* Wrong: the walk goes on from the end of the list.
LookupNextBack ==
  /\ lookup.at # DevList /\ lookup.at # lookup.verbs
  /\ lookup' = [lookup EXCEPT !.at = list.prev[lookup.at]]
  /\ UNCHANGED <<pc, ctx_list, i, num_devices, list, devs, pds, busy, dev, next>>

\* Another device: to the next.
LookupNext ==
  /\ lookup.at # DevList /\ lookup.at # lookup.verbs
  /\ lookup' = [lookup EXCEPT !.at = list.next[lookup.at]]
  /\ UNCHANGED <<pc, ctx_list, i, num_devices, list, devs, pds, busy, dev, next>>

\* The device is found, or NULL is returned at the end of the list.  On a
\* device the handler may build a queue pair, and it may be there to the end.
LookupDone ==
  /\ lookup # NoLookup /\ lookup.at \in {DevList, lookup.verbs}
  /\ lookup' = NoLookup
  /\ busy' \in {busy, busy \cup ({lookup.at} \ {DevList})}
  /\ UNCHANGED <<pc, ctx_list, i, num_devices, list, devs, pds, dev, next>>

-----------------------------------------------------------------------------
(* hmp_transport_release *)

\* The epoll thread is joined: no lookup is under way.
StartRelease ==
  /\ pc = "ready" /\ lookup = NoLookup
  /\ pc' = "release"
  /\ dev' = list.next[DevList] /\ next' = list.next[list.next[DevList]]
  /\ UNCHANGED <<ctx_list, i, num_devices, list, devs, pds, busy, lookup>>

\* Wrong: the protection domain is kept.
ReleaseKeepsPd ==
  /\ pc = "release" /\ dev # DevList
  /\ list' = list_del(list_del_init(list, dev), dev)
  /\ devs' = devs \ {dev} /\ UNCHANGED pds
  /\ dev' = next /\ next' = list'.next[next]
  /\ UNCHANGED <<pc, ctx_list, i, num_devices, busy, lookup>>

\* Wrong: list_for_each_entry, which reads the link of the entry just freed.
ReleaseUnsafe ==
  /\ pc = "release" /\ dev # DevList
  /\ list' = list_del(list_del_init(list, dev), dev)
  /\ devs' = devs \ {dev} /\ pds' = pds \ ({dev} \ busy)
  /\ dev' = list'.next[dev] /\ next' = list'.next[dev]
  /\ UNCHANGED <<pc, ctx_list, i, num_devices, busy, lookup>>

\* list_del_init and then, in hmp_device_release, list_del of the same entry,
\* before it is freed; the next entry was read before.  ibv_dealloc_pd refuses a
\* domain in use, which the code does not look at.
ReleaseDevice ==
  /\ pc = "release" /\ dev # DevList
  /\ list' = list_del(list_del_init(list, dev), dev)
  /\ devs' = devs \ {dev} /\ pds' = pds \ ({dev} \ busy)
  /\ dev' = next /\ next' = list'.next[next]
  /\ UNCHANGED <<pc, ctx_list, i, num_devices, busy, lookup>>

ReleaseDone ==
  /\ pc = "release" /\ dev = DevList
  /\ pc' = "released"
  /\ UNCHANGED <<ctx_list, i, num_devices, list, devs, pds, busy, dev, next, lookup>>

Next ==
  \/ GetDevices \/ SkipDevice \/ AddDevice \/ InitDone \/ RegisterPool
  \/ (\E v \in Device : StartLookup(v)) \/ LookupNext \/ LookupDone
  \/ StartRelease \/ ReleaseDevice \/ ReleaseDone

Spec == Init /\ [][Next]_vars

\* The loops run to their end once they are entered; whether the application
\* calls hmp_node_release is its own choice.
Fairness == WF_vars(ReleaseDevice \/ ReleaseDone)

-----------------------------------------------------------------------------
(* Properties *)

\* The type invariant of this module.
TypeOK ==
  /\ pc \in {"boot", "init", "register", "ready", "crashed", "release", "released"}
  /\ ctx_list \in Seq(Kind) /\ Len(ctx_list) <= MaxDevices
  /\ i \in 1 .. MaxDevices + 1
  /\ num_devices \in 0 .. MaxDevices
  /\ list \in HeapOver(Entry)
  /\ devs \subseteq Device /\ pds \subseteq Device /\ busy \subseteq Device
  /\ dev \in Entry /\ next \in Entry
  /\ lookup \in [verbs : 0 .. MaxDevices, at : Entry]

\* num_devices counts the devices on the list, plus those still to be looked
\* at, whichever of them fail (hmp_device_init_handle counts down).
DevicesCounted ==
  /\ pc = "init" => num_devices = Cardinality(devs) + (Len(ctx_list) + 1 - i)
  /\ pc \in {"register", "ready"} => num_devices = Cardinality(devs)

\* The list holds the allocated devices and nothing else: none of its links,
\* and neither of the cursors that walk it, leads to memory that was freed, so
\* hmp_device_release frees each device once.
ListHoldsDevices ==
  /\ \A e \in devs \cup {DevList} :
       /\ list.next[e] \in devs \cup {DevList} /\ list.prev[list.next[e]] = e
       /\ list.prev[e] \in devs \cup {DevList} /\ list.next[list.prev[e]] = e
  /\ pc = "release" => dev \in devs \cup {DevList} /\ next \in devs \cup {DevList}
  /\ lookup.at \in devs \cup {DevList}

\* A lookup that reaches the end of the list has passed every device on it, so
\* NULL is returned only for verbs that are not on the list.
LookupFinds ==
  lookup # NoLookup /\ lookup.at = DevList => lookup.verbs \notin devs

\* hmp_transport_release frees every device, and every protection domain that
\* nothing was left in.
AllReleased ==
  [](pc = "release" => <>(pc = "released" /\ devs = {} /\ pds \subseteq busy))
=============================================================================
