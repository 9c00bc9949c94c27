--------------------------------- MODULE HmpNode ---------------------------------
(***************************************************************************)
(* The lists of a node over its life: hmp_node_init builds the ring of the   *)
(* configured nodes and then the list of devices, the epoll thread looks     *)
(* devices up, and hmp_node_release frees them.  HmpHashRing and HmpDevice,  *)
(* one after the other, each on its own list.                               *)
(***************************************************************************)
EXTENDS HmpHashRing

CONSTANTS MaxDevices, Faults   \* see HmpDevice

VARIABLES
  dev_pc, ctx_list, dev_i, num_devices, dev_list, devs, pds, busy,
  dev, next, lookup            \* the variables of HmpDevice

devVars == <<dev_pc, ctx_list, dev_i, num_devices, dev_list, devs, pds, busy,
             dev, next, lookup>>

ASSUME DeviceAssumption == MaxDevices \in Nat

Dev == INSTANCE HmpDevice WITH pc <- dev_pc, i <- dev_i, list <- dev_list

NodeInit == Init /\ Dev!Init

\* hmp_hash_init returns once every configured node is in the ring.
HashDone == pc = "insert" /\ Linked = Id

BuildRing == Next /\ UNCHANGED devVars
UseDevices == HashDone /\ Dev!Next /\ UNCHANGED vars

NodeNext == BuildRing \/ UseDevices

NodeSpec == NodeInit /\ [][NodeNext]_<<vars, devVars>> /\ WF_vars(BuildRing) /\ Dev!Fairness

-----------------------------------------------------------------------------
(* Properties: those of HmpHashRing, and those of HmpDevice in the part of    *)
(* the life that follows it.                                                *)

\* hmp_device_init_handle: num_devices counts the devices on the list.
DevicesCounted == Dev!DevicesCounted

\* hmp_device_release: no link of the list, and no cursor, is dangling; the
\* variables have their types.
ListHoldsDevices == Dev!TypeOK /\ Dev!ListHoldsDevices

\* hmp_device_lookup returns NULL only for a device that is not on the list.
LookupFinds == Dev!LookupFinds

\* hmp_transport_release frees every device.
AllReleased == Dev!AllReleased
=============================================================================
