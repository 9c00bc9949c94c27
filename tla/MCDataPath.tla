------------------------------- MODULE MCDataPath -------------------------------
(***************************************************************************)
(* Instances of HmpDataPath for TLC: two nodes that use each other's        *)
(* memory, with the rights the code registers its pool with and with the     *)
(* one it leaves out.                                                       *)
(***************************************************************************)
EXTENDS HmpDataPath

WithRead == CodeRights \cup {"REMOTE_READ"}
AllFaults == FaultKind

\* The application of one node reads and writes, that of the other only writes,
\* and stops while WriterDepth calls are not in place: it may leave out the
\* calls that would be reads or come too early.
Reader == CHOOSE n \in Node : TRUE
WriterDepth == 2
WriterNext ==
  /\ Next
  /\ \A n \in Node \ {Reader} :
       \/ pc'[n] = "idle"
       \/ /\ call'[n].req.op = "WRITE"
          /\ due[n][call'[n].node] < WriterDepth
WriterSpec == Init /\ [][WriterNext]_vars /\ Fairness
=============================================================================
