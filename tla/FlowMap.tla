------------------------------- MODULE FlowMap -------------------------------
(***************************************************************************)
(* What a flow table promises: state kept under a key.  The state of a key *)
(* that is added is whatever its place held before, the table does not     *)
(* clear it; from then on it changes only when the user writes it.         *)
(***************************************************************************)
EXTENDS Integers, FiniteSets, Functions

CONSTANTS Keys, States, Capacity

VARIABLE map

Init == map = << >>

Add(k, s) ==
  /\ k \notin DOMAIN map /\ Cardinality(DOMAIN map) < Capacity
  /\ map' = [j \in DOMAIN map \cup {k} |-> IF j = k THEN s ELSE map[j]]

Write(k, s) == k \in DOMAIN map /\ map' = [map EXCEPT ![k] = s]

Remove(k) == k \in DOMAIN map /\ map' = Restrict(map, DOMAIN map \ {k})

Clear == map' = << >>

Next ==
  \/ \E k \in Keys, s \in States : Add(k, s) \/ Write(k, s)
  \/ \E k \in Keys : Remove(k)
  \/ Clear

Spec == Init /\ [][Next]_map

=============================================================================
