------------------------------ MODULE MCTransport ------------------------------
(***************************************************************************)
(* Instances of HmpTransport for TLC: two nodes with the faults, and three   *)
(* nodes where the listener of node 2 serves nodes 0 and 1, whose own        *)
(* connection is not set up.                                                *)
(***************************************************************************)
EXTENDS HmpTransport

\* Receive requests that cannot be posted are left to the run that also checks
\* that the handshake ends.
OtherFaults == FaultKind \ {"hmp_recv_task_create", "ibv_post_recv"}
Pair01 == {<<0, 1>>}
ToNode2 == {<<0, 2>>, <<1, 2>>}

\* The three-node run starts where nodes 0 and 1 have run hmp_node_init and
\* their epoll threads have called rdma_connect for node 2, which has yet to
\* start: a state Spec reaches when node 2 is the last to be started.
StarInit ==
  /\ pc = [n \in Node |-> IF n = 2 THEN "boot" ELSE "ready"]
  /\ peer = [n \in Node |-> IF n = 2 THEN 0 ELSE N]
  /\ listening = [n \in Node |-> n # 2]
  /\ stop = [n \in Node |-> FALSE]
  /\ batch = [n \in Node |-> {}]
  /\ cur = [n \in Node |-> Idle]
  /\ connect_trans = [n \in Node |-> [p \in Node |-> <<n, p>> \in Pair01 \cup ToNode2]]
  /\ trans_state = [n \in Node |-> [p \in Node |->
       CASE <<n, p>> \in Pair01 -> "INIT"
         [] <<n, p>> \in ToNode2 -> "CONNECTING"
         [] OTHER -> "NONE"]]
  /\ qp = [n \in Node |-> [p \in Node |-> IF <<n, p>> \in ToNode2 THEN "ready" ELSE "none"]]
  /\ recvs = [n \in Node |-> [p \in Node |-> IF <<n, p>> \in ToNode2 THEN 2 ELSE 0]]
  /\ recv_errors = [n \in Node |-> [p \in Node |-> 0]]
  /\ dram_mr = [n \in Node |-> [p \in Node |-> FALSE]]
  /\ cm = [n \in Node |-> [p \in Node |-> IF <<n, p>> \in ToNode2 THEN "connect" ELSE "idle"]]
  /\ events = [n \in Node |-> [p \in Node |-> <<>>]]
  /\ msg = [n \in Node |-> [p \in Node |-> "unsent"]]

StarSpec == StarInit /\ [][Next]_vars
=============================================================================
