-------------------------------- MODULE MCStartup --------------------------------
(***************************************************************************)
(* Instances of HmpStartup for TLC: three machines and the files that can    *)
(* tell them apart: all orders of all entries, an address given twice, an    *)
(* address nobody has, a machine left out, and other children in between.    *)
(***************************************************************************)
EXTENDS HmpStartup

ThreeMachines == {"a", "b", "c"}
AllOrders == {<<x, y, z>> : x, y, z \in ThreeMachines}
Others == {<<>>, <<"a", Text, "b">>, <<Text, "b", "x", "a">>, <<"a", "b", "a", "c">>}
AllFaults == FaultKind
SmallDocs == AllOrders \cup Others
=============================================================================
