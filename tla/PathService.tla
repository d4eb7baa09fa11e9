----------------------------- MODULE PathService -----------------------------
(***************************************************************************)
(* What the data plane promises: a bundle of FIFO paths.  Packets are      *)
(* admitted in ascending order, each to one path, and delivered from the   *)
(* head of a path; packets are given up only once the service is closed.   *)
(***************************************************************************)
EXTENDS Integers, Sequences

CONSTANTS NbInst,   \* number of paths
          MaxPkts   \* bound: packets admitted at most

VARIABLES queue,      \* per path, the packets on it
          admitted,   \* packets admitted so far
          delivered,  \* the packets delivered, in order
          closed      \* is the service closed?

vars == <<queue, admitted, delivered, closed>>

Paths == 0 .. NbInst - 1

Init ==
  /\ queue = [p \in Paths |-> <<>>]
  /\ admitted = 0
  /\ delivered = <<>>
  /\ closed = FALSE

Admit(p, n) ==
  /\ ~closed
  /\ admitted' = admitted + n
  /\ queue' = [queue EXCEPT ![p] = @ \o [k \in 1 .. n |-> admitted + k]]
  /\ UNCHANGED <<delivered, closed>>

Deliver(p, n) ==
  /\ delivered' = delivered \o SubSeq(queue[p], 1, n)
  /\ queue' = [queue EXCEPT ![p] = SubSeq(@, n + 1, Len(@))]
  /\ UNCHANGED <<admitted, closed>>

Close == ~closed /\ closed' = TRUE /\ UNCHANGED <<queue, admitted, delivered>>

\* Give up the packets before or after those from m to n.
GiveUp(p, m, n) ==
  /\ closed
  /\ queue' = [queue EXCEPT ![p] = SubSeq(@, m, n)]
  /\ UNCHANGED <<admitted, delivered, closed>>

Next ==
  \/ Close
  \/ \E p \in Paths :
       \/ \E n \in 1 .. MaxPkts - admitted : Admit(p, n)
       \/ \E n \in 1 .. Len(queue[p]) : Deliver(p, n)
       \/ \E m, n \in 0 .. Len(queue[p]) : GiveUp(p, m + 1, n)

Spec == Init /\ [][Next]_vars

=============================================================================
