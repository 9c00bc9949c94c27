------------------------------- MODULE HmpMemory -------------------------------
(***************************************************************************)
(* The hybrid memory as its users may rely on it, without transports, tasks *)
(* or completions.  A node changes its own memory at once; what it asks of   *)
(* another node's memory is done later, in the order in which it was asked   *)
(* of that node, with the buffer as it is then, or is lost for good together *)
(* with everything asked of that node after it; or it is dropped before it   *)
(* is asked, and what is asked later is not concerned.  Who waits for a read *)
(* returns when it has been done.                                           *)
(***************************************************************************)
EXTENDS Naturals, Sequences

CONSTANTS Node, Addr, Val

VARIABLES
  mem,      \* mem[n][a]: the word at address a of node n
  asked,    \* asked[n][p]: what n asked of p's memory and is not done yet
  broken,   \* broken[n][p]: something n asked of p was lost
  dropped,  \* dropped[n][p]: how many of n's calls for p's memory were dropped
  reading   \* reading[n]: the read n waits for is "asked" or "done"; or "no"

vars == <<mem, asked, broken, dropped, reading>>

Request == [op : {"READ", "WRITE"}, local : Addr, remote : Addr]

Init ==
  /\ mem \in [Node -> [Addr -> Val]]
  /\ asked = [n \in Node |-> [p \in Node |-> <<>>]]
  /\ broken = [n \in Node |-> [p \in Node |-> FALSE]]
  /\ dropped = [n \in Node |-> [p \in Node |-> 0]]
  /\ reading = [n \in Node |-> "no"]

Store(n, a, v) ==
  /\ mem' = [mem EXCEPT ![n][a] = v]
  /\ UNCHANGED <<asked, broken, dropped, reading>>

Ask(n, p, r) ==
  /\ reading[n] = "no"
  /\ asked' = [asked EXCEPT ![n][p] = Append(@, r)]
  /\ reading' = [reading EXCEPT ![n] = IF r.op = "READ" THEN "asked" ELSE "no"]
  /\ UNCHANGED <<mem, broken, dropped>>

\* Who waits for a read that was dropped waits for good.
Drop(n, p) ==
  /\ reading[n] = "no"
  /\ dropped' = [dropped EXCEPT ![n][p] = @ + 1]
  /\ \E w \in {"no", "asked"} : reading' = [reading EXCEPT ![n] = w]
  /\ UNCHANGED <<mem, asked, broken>>

Do(n, p) ==
  LET r == Head(asked[n][p]) IN
  /\ asked[n][p] # <<>> /\ ~broken[n][p]
  /\ asked' = [asked EXCEPT ![n][p] = Tail(@)]
  /\ IF r.op = "READ"
     THEN /\ mem' = [mem EXCEPT ![n][r.local] = mem[p][r.remote]]
          /\ reading' = [reading EXCEPT ![n] = "done"]
     ELSE /\ mem' = [mem EXCEPT ![p][r.remote] = mem[n][r.local]]
          /\ UNCHANGED reading
  /\ UNCHANGED <<broken, dropped>>

Lose(n, p) ==
  /\ asked[n][p] # <<>>
  /\ asked' = [asked EXCEPT ![n][p] = Tail(@)]
  /\ broken' = [broken EXCEPT ![n][p] = TRUE]
  /\ UNCHANGED <<mem, dropped, reading>>

Return(n) ==
  /\ reading[n] = "done"
  /\ reading' = [reading EXCEPT ![n] = "no"]
  /\ UNCHANGED <<mem, asked, broken, dropped>>

Next ==
  \E n \in Node :
    \/ \E a \in Addr, v \in Val : Store(n, a, v)
    \/ Return(n)
    \/ \E p \in Node : \/ Do(n, p) \/ Lose(n, p) \/ Drop(n, p)
                       \/ \E r \in Request : Ask(n, p, r)

Spec == Init /\ [][Next]_vars
=============================================================================
