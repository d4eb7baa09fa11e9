-------------------------- MODULE ResourceAllocation --------------------------
(***************************************************************************)
(* The control plane: resource_allocation.py places the stages of a        *)
(* pipeline on the SmartNICs of the cluster, one NIC after the other for   *)
(* each stage, until the stage has the units it demands.                   *)
(*                                                                         *)
(* As the script assumes, the vectors G[s], A[s][n] and W[s] are one-hot: a*)
(* stage wants units of one resource (cores, regex engines, compression    *)
(* engines), so they are numbers here, of units of Kind[s].  Bandwidths are*)
(* integers, in a unit small enough for every W.                           *)
(***************************************************************************)
EXTENDS Integers, Sequences, FiniteSets, Functions

CONSTANTS
  NbStages,    \* stages of the pipeline
  NbNics,      \* NICs of the cluster
  Resource,    \* kinds of resource
  Kind,        \* the kind each stage wants
  W,           \* bandwidth one unit of a stage processes
  NicTypes,    \* resources a NIC may have free at first
  Demands,     \* units a stage may demand
  Bandwidths   \* bandwidth a NIC may have idle at first

S == 0 .. NbStages - 1
N == 0 .. NbNics - 1

ASSUME AllocationAssumption ==
  /\ NbStages \in Nat \ {0} /\ NbNics \in Nat \ {0}
  /\ Kind \in [S -> Resource] /\ W \in [S -> Nat \ {0}]
  /\ NicTypes \subseteq [Resource -> Nat]
  /\ Demands \subseteq Nat /\ Bandwidths \subseteq Nat

VARIABLES
  s,          \* the stage being placed (NbStages: all are)
  G,          \* units each stage still needs
  T,          \* free resources of each NIC
  B,          \* idle bandwidth of each NIC
  A,          \* units of each stage on each NIC
  crashed,    \* the script ended in an exception
  fellBack,   \* history: find_next_snic once returned -1
  demand, supply, bandwidth  \* history: G, T and B at the start

vars == <<s, G, T, B, A, crashed, fellBack, demand, supply, bandwidth>>
inputs == <<demand, supply, bandwidth>>

Lesser(a, b) == IF a <= b THEN a ELSE b
Greater(a, b) == IF a >= b THEN a ELSE b

Init ==
  /\ s = 0
  /\ demand \in [S -> Demands] /\ G = demand
  /\ supply \in [N -> NicTypes] /\ T = supply
  /\ bandwidth \in [N -> Bandwidths] /\ B = bandwidth
  /\ A = [st \in S |-> [n \in N |-> 0]]
  /\ crashed = FALSE
  /\ fellBack = FALSE

-----------------------------------------------------------------------------
(* Choosing the next NIC.                                                  *)

\* The bandwidth the previous stage brings to NIC n anyway.
SharableBw(st, n) == IF st = 0 THEN 0 ELSE A[st - 1][n] * W[st - 1]

AllocableBw(st, n) == SharableBw(st, n) + B[n]

\* Does NIC n already host another stage of the pipeline?
LocationKey(st, n) == IF \E o \in S \ {st} : A[o][n] # 0 THEN 1 ELSE 0

\* Operators whose name ends in Bug are variants with a plausible error, put in
\* the place of the operator after them to see that a property notices.
AcceptableBug(st) ==
  {n \in N : /\ T[n][Kind[st]] > 0
             /\ AllocableBw(st, n) # 0}

\* The NICs find_next_snic does not skip: they have units of the kind, the stage
\* is not on them yet, and there is bandwidth.
Acceptable(st) ==
  {n \in N : /\ T[n][Kind[st]] > 0
             /\ A[st][n] = 0
             /\ AllocableBw(st, n) # 0}

\* key_snic: location first, then bandwidth, then free units of the kind; what
\* the key compares after these, and the order of the list, break ties.
Preferred(st, m, n) ==
  LET key(i) == <<LocationKey(st, i), AllocableBw(st, i), T[i][Kind[st]]>>
  IN \E d \in 1 .. 3 : /\ \A c \in 1 .. d - 1 : key(m)[c] = key(n)[c]
                       /\ key(m)[d] > key(n)[d]

\* find_next_snic may return any of these.
BestNics(st) == {n \in Acceptable(st) : \A m \in Acceptable(st) : ~Preferred(st, m, n)}

-----------------------------------------------------------------------------
(* Placing units of the current stage on one NIC: allocate_one_snic.       *)

\* What the resources of NIC n allow.
Units(st, n) == Lesser(G[st], T[n][Kind[st]])

\* Does the previous stage bring at least what the rest of the stage requires?
NotLimitedByBw(st, n) == st # 0 /\ G[st] * W[st] <= SharableBw(st, n)

GiveBug(st, n, units) ==
  /\ A' = [A EXCEPT ![st][n] = @ + units]
  /\ G' = [G EXCEPT ![st] = @ - units]
  /\ T' = [T EXCEPT ![n][Kind[st]] = 0]

\* Units of the stage move from the free ones of NIC n.
Give(st, n, units) ==
  /\ A' = [A EXCEPT ![st][n] = @ + units]
  /\ G' = [G EXCEPT ![st] = @ - units]
  /\ T' = [T EXCEPT ![n][Kind[st]] = @ - units]

AllocateFreely(st, n) ==
  /\ NotLimitedByBw(st, n)
  /\ Give(st, n, Units(st, n))
  /\ UNCHANGED <<B, crashed>>

\* All the units there are, and the bandwidth the previous stage does not bring.
AllocateUnits(st, n) ==
  /\ ~NotLimitedByBw(st, n)
  /\ Units(st, n) * W[st] <= AllocableBw(st, n)
  /\ Give(st, n, Units(st, n))
  /\ B' = [B EXCEPT ![n] = Lesser(@, AllocableBw(st, n) - Units(st, n) * W[st])]
  /\ UNCHANGED crashed

AllocateOnBwBug(st, n) ==
  /\ ~NotLimitedByBw(st, n)
  /\ Units(st, n) * W[st] > AllocableBw(st, n)
  /\ LET d == AllocableBw(st, n) \div W[st] + 1
     IN IF d = 0
        THEN crashed' = TRUE /\ UNCHANGED <<A, G, T, B>>
        ELSE /\ Give(st, n, d)
             /\ B' = [B EXCEPT ![n] = Lesser(@, AllocableBw(st, n) - d * W[st])]
             /\ UNCHANGED crashed

AllocateOnBwZeroBug(st, n) ==
  /\ ~NotLimitedByBw(st, n)
  /\ Units(st, n) * W[st] > AllocableBw(st, n)
  /\ LET d == AllocableBw(st, n) \div W[st]
     IN /\ Give(st, n, d)
        /\ B' = [B EXCEPT ![n] = Lesser(@, AllocableBw(st, n) - d * W[st])]
        /\ UNCHANGED crashed

\* allocate_on_bw: the units the bandwidth allows.  When it does not allow one,
\* resource_get_one_hot finds no bandwidth and returns None, which the caller
\* then subtracts.
AllocateOnBw(st, n) ==
  /\ ~NotLimitedByBw(st, n)
  /\ Units(st, n) * W[st] > AllocableBw(st, n)
  /\ LET d == AllocableBw(st, n) \div W[st]
     IN IF d = 0
        THEN crashed' = TRUE /\ UNCHANGED <<A, G, T, B>>
        ELSE /\ Give(st, n, d)
             /\ B' = [B EXCEPT ![n] = Lesser(@, AllocableBw(st, n) - d * W[st])]
             /\ UNCHANGED crashed

AllocateOneSnic(st, n) ==
  AllocateFreely(st, n) \/ AllocateUnits(st, n) \/ AllocateOnBw(st, n)

-----------------------------------------------------------------------------
(* The two loops of resource_allocation.                                   *)

Running == s \in S /\ ~crashed

Place ==
  /\ Running /\ G[s] # 0
  /\ \E n \in BestNics(s) : AllocateOneSnic(s, n)
  /\ UNCHANGED <<s, fellBack, inputs>>

\* Index -1 is the last NIC of the list.
FallBack ==
  /\ Running /\ G[s] # 0
  /\ Acceptable(s) = {}
  /\ AllocateOneSnic(s, NbNics - 1)
  /\ fellBack' = TRUE
  /\ UNCHANGED <<s, inputs>>

NextStage ==
  /\ Running /\ G[s] = 0
  /\ s' = s + 1
  /\ UNCHANGED <<G, T, B, A, crashed, fellBack, inputs>>

Next == Place \/ FallBack \/ NextStage

Spec == Init /\ [][Next]_vars

\* The script runs.
FairSpec == Spec /\ WF_vars(Next)

-----------------------------------------------------------------------------

Total(f) == FoldFunction(LAMBDA x, y : x + y, 0, f)

\* Every variable has a value of its type; no count ever goes below zero, so no
\* NIC gives more units or bandwidth than it has and no stage gets too many.
TypeOK ==
  /\ s \in 0 .. NbStages
  /\ G \in [S -> Nat] /\ demand \in [S -> Nat]
  /\ T \in [N -> [Resource -> Nat]] /\ supply \in [N -> [Resource -> Nat]]
  /\ B \in [N -> Nat] /\ bandwidth \in [N -> Nat]
  /\ A \in [S -> [N -> Nat]]
  /\ crashed \in BOOLEAN /\ fellBack \in BOOLEAN

(* Units are moved, never made or lost, whichever of the branches placed them
   and also after find_next_snic has found no NIC. *)
UnitsConserved ==
  /\ \A st \in S : G[st] + Total(A[st]) = demand[st]
  /\ \A n \in N, k \in Resource :
       T[n][k] + Total([st \in S |-> IF Kind[st] = k THEN A[st][n] ELSE 0]) = supply[n][k]

(* The idle bandwidth taken from a NIC is exactly the traffic its stages get
   from outside: each stage processes W per unit, of which the units of the
   stage before it, on the same NIC, bring their share.  The update of B in
   allocate_one_snic is right only because a stage is placed on a NIC at most
   once, after the stage before it is complete. *)
BandwidthAccounted ==
  ~fellBack =>
    \A n \in N :
      bandwidth[n] - B[n] =
        Total([st \in S |-> Greater(0, A[st][n] * W[st] - SharableBw(st, n))])

(* While there are NICs to choose from, every turn of the loop places units, so
   the placement ends: with all demands met, with the exception, or with no NIC
   left. *)
Ends == <>(s = NbStages \/ crashed \/ fellBack)

(* The loop ends when the resource demand is met, and only the lack of a unit
   or of bandwidth in the whole cluster is in the way of that. *)
DemandMet ==
  <>(\/ \A st \in S : G[st] = 0
     \/ \E st \in S : G[st] # 0 /\ \A n \in N : T[n][Kind[st]] = 0 \/ AllocableBw(st, n) < W[st])

=============================================================================
