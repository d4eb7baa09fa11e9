---------------------- MODULE ResourceAllocation_proofs ----------------------
(***************************************************************************)
(* Proofs about the control plane, for every pipeline and cluster.         *)
(***************************************************************************)
EXTENDS ResourceAllocation, FiniteSetTheorems, WellFoundedInduction, TLAPS

\* Products of counts and bandwidths.
LEMMA ProductIs ==
  ASSUME NEW a \in Nat, NEW b \in Nat
  PROVE  a * b \in Nat
OBVIOUS

\* The units that a bandwidth allows take no more than it, and are fewer than units
\* that would take more.
LEMMA QuotientIs ==
  ASSUME NEW w \in Nat \ {0}, NEW bw \in Nat, NEW units \in Nat, units * w > bw
  PROVE  bw \div w \in Nat /\ (bw \div w) * w <= bw /\ bw \div w < units
<1> DEFINE q == bw \div w
<1>1. q \in Int /\ (w * q) + (bw % w) = bw /\ bw % w \in 0 .. w - 1
  OBVIOUS
<1>2. q \in Nat
  OBVIOUS
<1> HIDE DEF q
<1>3. q * w = w * q /\ q * w \in Int
  BY <1>2
<1>4. q * w <= bw
  BY <1>1, <1>3
<1>5. q < units
  <2>1. SUFFICES ASSUME q >= units PROVE FALSE
    BY <1>2
  <2>2. q * w >= units * w
    <3>1. PICK d \in Nat : q = units + d
      BY <1>2, <2>1
    <3>2. q * w = (units * w) + (d * w) /\ d * w \in Nat /\ units * w \in Nat
      BY <3>1
    <3>3. QED
      BY <3>2
  <2>3. QED
    BY <1>3, <1>4, <2>2, ProductIs
<1>6. QED
  BY <1>2, <1>4, <1>5 DEF q

\* The parameters, as the assumption types them.
LEMMA ParametersAre ==
  ASSUME NEW st \in S
  PROVE  /\ Kind[st] \in Resource /\ W[st] \in Nat \ {0}
         /\ st \in 0 .. NbStages - 1 /\ NbStages \in Nat \ {0}
         /\ st # 0 => st - 1 \in S
BY AllocationAssumption DEF S

\* The bandwidth shared is a count.
LEMMA SharableIs ==
  ASSUME TypeOK, NEW st \in S, NEW n \in N
  PROVE  SharableBw(st, n) \in Nat
<1>1. CASE st = 0
  BY <1>1 DEF SharableBw
<1>2. CASE st # 0
  <2>1. st - 1 \in S
    BY <1>2, ParametersAre
  <2>2. A[st - 1][n] \in Nat /\ W[st - 1] \in Nat
    BY <2>1, ParametersAre DEF TypeOK
  <2>3. QED
    BY <1>2, <2>2, ProductIs DEF SharableBw
<1>3. QED
  BY <1>1, <1>2

\* Bandwidths and units that a NIC offers a stage are counts.
LEMMA OffersAre ==
  ASSUME TypeOK, NEW st \in S, NEW n \in N
  PROVE  /\ AllocableBw(st, n) \in Nat
         /\ Units(st, n) \in Nat /\ Units(st, n) <= G[st] /\ Units(st, n) <= T[n][Kind[st]]
<1>1. SharableBw(st, n) \in Nat
  BY SharableIs
<1>2. B[n] \in Nat /\ G[st] \in Nat /\ T[n][Kind[st]] \in Nat
  BY ParametersAre DEF TypeOK
<1>3. QED
  BY <1>1, <1>2 DEF AllocableBw, Units, Lesser

\* Units that the stage needs and the NIC has can be given.
LEMMA GiveTyped ==
  ASSUME TypeOK, NEW st \in S, NEW n \in N, NEW units \in Nat,
         units <= G[st], units <= T[n][Kind[st]], Give(st, n, units)
  PROVE  /\ A' \in [S -> [N -> Nat]] /\ G' \in [S -> Nat]
         /\ T' \in [N -> [Resource -> Nat]]
<1>1. Kind[st] \in Resource
  BY ParametersAre
<1>2. /\ A \in [S -> [N -> Nat]] /\ G \in [S -> Nat] /\ T \in [N -> [Resource -> Nat]]
  BY DEF TypeOK
<1>3. A[st][n] + units \in Nat /\ G[st] - units \in Nat /\ T[n][Kind[st]] - units \in Nat
  BY <1>1, <1>2
<1>4. A' = [A EXCEPT ![st] = [A[st] EXCEPT ![n] = A[st][n] + units]]
  BY <1>2 DEF Give
<1>5. T' = [T EXCEPT ![n] = [T[n] EXCEPT ![Kind[st]] = T[n][Kind[st]] - units]]
  BY <1>2 DEF Give
<1>6. [A[st] EXCEPT ![n] = A[st][n] + units] \in [N -> Nat]
  BY <1>2, <1>3
<1>7. [T[n] EXCEPT ![Kind[st]] = T[n][Kind[st]] - units] \in [Resource -> Nat]
  BY <1>1, <1>2, <1>3
<1>8. A' \in [S -> [N -> Nat]]
  BY <1>2, <1>4, <1>6
<1>9. T' \in [N -> [Resource -> Nat]]
  BY <1>2, <1>5, <1>7
<1>10. G' \in [S -> Nat]
  BY <1>2, <1>3 DEF Give
<1>11. QED
  BY <1>8, <1>9, <1>10

\* A placement takes no more units and no more bandwidth than there are.
LEMMA AllocateTyped ==
  ASSUME TypeOK, NEW st \in S, NEW n \in N, AllocateOneSnic(st, n)
  PROVE  /\ A' \in [S -> [N -> Nat]] /\ G' \in [S -> Nat]
         /\ T' \in [N -> [Resource -> Nat]] /\ B' \in [N -> Nat] /\ crashed' \in BOOLEAN
<1> DEFINE bw == AllocableBw(st, n)
           units == Units(st, n)
<1>1. /\ bw \in Nat /\ units \in Nat /\ units <= G[st] /\ units <= T[n][Kind[st]]
      /\ W[st] \in Nat \ {0} /\ B \in [N -> Nat] /\ crashed \in BOOLEAN
      /\ G[st] \in Nat /\ T[n][Kind[st]] \in Nat
  BY OffersAre, ParametersAre DEF TypeOK
<1>2. CASE AllocateFreely(st, n)
  <2>1. Give(st, n, units) /\ UNCHANGED <<B, crashed>>
    BY <1>2 DEF AllocateFreely
  <2>2. QED
    BY <1>1, <2>1, GiveTyped
<1>3. CASE AllocateUnits(st, n)
  <2>1. /\ units * W[st] <= bw /\ Give(st, n, units) /\ crashed' = crashed
        /\ B' = [B EXCEPT ![n] = Lesser(B[n], bw - units * W[st])]
    BY <1>3 DEF AllocateUnits
  <2>2. units * W[st] \in Nat
    BY <1>1, ProductIs
  <2> HIDE DEF bw, units
  <2>3. Lesser(B[n], bw - units * W[st]) \in Nat
    BY <1>1, <2>1, <2>2 DEF Lesser
  <2>4. B' \in [N -> Nat]
    BY <1>1, <2>1, <2>3
  <2>5. QED
    BY <1>1, <2>1, <2>4, GiveTyped
<1>4. CASE AllocateOnBw(st, n)
  <2> DEFINE d == bw \div W[st]
  <2>1. /\ units * W[st] > bw
        /\ \/ crashed' = TRUE /\ UNCHANGED <<A, G, T, B>>
           \/ /\ Give(st, n, d) /\ crashed' = crashed
              /\ B' = [B EXCEPT ![n] = Lesser(B[n], bw - d * W[st])]
    BY <1>4 DEF AllocateOnBw
  <2> HIDE DEF bw, units
  <2>2. d \in Nat /\ d * W[st] <= bw /\ d < units
    BY <1>1, <2>1, QuotientIs
  <2>3. d * W[st] \in Nat
    BY <1>1, <2>2, ProductIs
  <2> HIDE DEF d
  <2>4. d <= G[st] /\ d <= T[n][Kind[st]]
    BY <1>1, <2>2
  <2>5. CASE crashed' = TRUE /\ UNCHANGED <<A, G, T, B>>
    BY <2>5 DEF TypeOK
  <2>6. CASE /\ Give(st, n, d) /\ crashed' = crashed
             /\ B' = [B EXCEPT ![n] = Lesser(B[n], bw - d * W[st])]
    <3>1. Lesser(B[n], bw - d * W[st]) \in Nat
      BY <1>1, <2>2, <2>3 DEF Lesser
    <3>2. B' \in [N -> Nat]
      BY <1>1, <2>6, <3>1
    <3>3. QED
      BY <1>1, <2>2, <2>4, <2>6, <3>2, GiveTyped
  <2>7. QED
    BY <2>1, <2>5, <2>6
<1>5. QED
  BY <1>2, <1>3, <1>4 DEF AllocateOneSnic

\* For every pipeline and cluster, and also where no NIC was found: no count goes below
\* zero, so no NIC gives what it does not have and no stage gets more than it demands.
THEOREM TypeCorrect == Spec => []TypeOK
<1>1. Init => TypeOK
  <2> SUFFICES ASSUME Init PROVE TypeOK
    OBVIOUS
  <2>1. Demands \subseteq Nat /\ NicTypes \subseteq [Resource -> Nat] /\ Bandwidths \subseteq Nat
        /\ NbStages \in Nat
    BY AllocationAssumption
  <2>2. demand \in [S -> Nat] /\ supply \in [N -> [Resource -> Nat]] /\ bandwidth \in [N -> Nat]
    BY <2>1 DEF Init
  <2>3. A \in [S -> [N -> Nat]] /\ s \in 0 .. NbStages
    BY <2>1 DEF Init
  <2>4. QED
    BY <2>2, <2>3 DEF Init, TypeOK
<1>2. TypeOK /\ [Next]_vars => TypeOK'
  <2> SUFFICES ASSUME TypeOK, [Next]_vars PROVE TypeOK'
    OBVIOUS
  <2>1. CASE Place
    <3>1. PICK n \in BestNics(s) : AllocateOneSnic(s, n)
      BY <2>1 DEF Place
    <3>2. n \in N /\ s \in S
      BY <2>1 DEF Place, Running, BestNics, Acceptable
    <3>3. UNCHANGED <<s, fellBack, inputs>>
      BY <2>1 DEF Place
    <3>4. QED
      BY <3>1, <3>2, <3>3, AllocateTyped DEF TypeOK, inputs
  <2>2. CASE FallBack
    <3>1. NbNics - 1 \in N /\ s \in S /\ AllocateOneSnic(s, NbNics - 1)
      BY <2>2, AllocationAssumption DEF FallBack, Running, N
    <3>2. fellBack' = TRUE /\ UNCHANGED <<s, inputs>>
      BY <2>2 DEF FallBack
    <3>3. QED
      BY <3>1, <3>2, AllocateTyped DEF TypeOK, inputs
  <2>3. CASE NextStage
    <3>1. s' \in 0 .. NbStages
      BY <2>3, AllocationAssumption DEF NextStage, Running, S
    <3>2. QED
      BY <2>3, <3>1 DEF NextStage, TypeOK, inputs
  <2>4. CASE UNCHANGED vars
    BY <2>4 DEF vars, TypeOK, inputs
  <2>5. QED
    BY <2>1, <2>2, <2>3, <2>4 DEF Next
<1>3. QED
  BY <1>1, <1>2, PTL DEF Spec

-----------------------------------------------------------------------------
(* Sums.  What Total computes is proved by induction, as the absence of a  *)
(* least counterexample.                                                   *)

\* A set of naturals with an element has a least one.
LEMMA LeastNatural ==
  ASSUME NEW Z \in SUBSET Nat, Z # {}
  PROVE  \E n \in Z : \A m \in Z : n <= m
<1> DEFINE R == OpToRel(<, Nat)
<1>1. \A n, m \in Nat : m < n => <<m, n>> \in R
  BY DEF OpToRel
<1>2. IsWellFoundedOn(R, Nat)
  BY NatLessThanWellFounded
<1> HIDE DEF R
<1>3. PICK n \in Z : \A m \in Z : ~(<<m, n>> \in R)
  BY <1>2, WFMin
<1>4. ASSUME NEW m \in Z PROVE n <= m
  <2>1. ~(m < n)
    BY <1>1, <1>3
  <2>2. QED
    BY <2>1
<1>5. QED
  BY <1>4

\* The element that a sum over U takes first.
Chosen(U) == CHOOSE x \in U : TRUE

\* The sum of the values f has on U, when h has the sums on smaller sets.
SumStep(h, f, U) == IF U = {} THEN 0 ELSE f[Chosen(U)] + h[U \ {Chosen(U)}]

\* h has the sums of f on all subsets of D.
Sums(h, f, D) == h = [U \in SUBSET D |-> SumStep(h, f, U)]

\* Taking the chosen element from a set leaves a smaller one.
LEMMA ChosenIs ==
  ASSUME NEW D, IsFiniteSet(D), NEW U \in SUBSET D, U # {}
  PROVE  /\ Chosen(U) \in U /\ Chosen(U) \in D /\ U \ {Chosen(U)} \in SUBSET D
         /\ Cardinality(U) \in Nat /\ Cardinality(U \ {Chosen(U)}) \in Nat
         /\ Cardinality(U \ {Chosen(U)}) = Cardinality(U) - 1
<1>1. Chosen(U) \in U
  BY DEF Chosen
<1>2. IsFiniteSet(U)
  BY FS_Subset
<1> DEFINE x == Chosen(U)
<1>3. x \in U
  BY <1>1
<1> HIDE DEF x
<1>4. IsFiniteSet(U \ {x}) /\ Cardinality(U \ {x}) = Cardinality(U) - 1
  BY <1>2, <1>3, FS_RemoveElement
<1>5. Cardinality(U) \in Nat /\ Cardinality(U \ {x}) \in Nat
  BY <1>2, <1>4, FS_CardinalityType
<1>6. QED
  BY <1>3, <1>4, <1>5 DEF x

\* Sums exist: those on sets of at most n elements give those on larger ones.
LEMMA SumsExist ==
  ASSUME NEW D, IsFiniteSet(D), NEW f \in [D -> Int]
  PROVE  \E h \in [SUBSET D -> Int] : Sums(h, f, D)
<1> DEFINE Upto(h, n) == \A U \in SUBSET D : Cardinality(U) <= n => h[U] = SumStep(h, f, U)
           Z == {n \in Nat : ~\E h \in [SUBSET D -> Int] : Upto(h, n)}
<1>1. ASSUME Z # {} PROVE FALSE
  <2>1. PICK n \in Z : \A m \in Z : n <= m
    BY <1>1, LeastNatural
  <2>2. n # 0
    <3> DEFINE h == [U \in SUBSET D |-> 0]
    <3>1. h \in [SUBSET D -> Int]
      OBVIOUS
    <3>2. ASSUME NEW U \in SUBSET D, Cardinality(U) <= 0 PROVE h[U] = SumStep(h, f, U)
      <4>1. ASSUME U # {} PROVE FALSE
        <5>1. /\ Cardinality(U) \in Nat /\ Cardinality(U \ {Chosen(U)}) \in Nat
              /\ Cardinality(U \ {Chosen(U)}) = Cardinality(U) - 1
          BY <4>1, ChosenIs
        <5>2. QED
          BY ONLY <3>2, <5>1
      <4>2. QED
        BY <4>1 DEF SumStep
    <3> HIDE DEF h
    <3>3. QED
      BY <3>1, <3>2
  <2>3. n - 1 \in Nat /\ n - 1 \notin Z
    <3>1. n \in Nat /\ (n - 1 \in Z => n <= n - 1)
      BY <2>1
    <3>2. n - 1 \in Nat /\ ~(n <= n - 1)
      BY ONLY <2>2, <3>1
    <3>3. QED
      BY <3>1, <3>2
  <2>4. PICK h \in [SUBSET D -> Int] : Upto(h, n - 1)
    BY <2>3
  <2> DEFINE g == [U \in SUBSET D |-> SumStep(h, f, U)]
  <2>5. g \in [SUBSET D -> Int]
    <3>1. ASSUME NEW U \in SUBSET D PROVE SumStep(h, f, U) \in Int
      <4>1. CASE U = {}
        BY <4>1 DEF SumStep
      <4>2. CASE U # {}
        <5>1. f[Chosen(U)] \in Int /\ h[U \ {Chosen(U)}] \in Int
          BY <4>2, ChosenIs
        <5>2. QED
          BY <4>2, <5>1 DEF SumStep
      <4>3. QED
        BY <4>1, <4>2
    <3>2. QED
      BY <3>1
  <2>6. ASSUME NEW U \in SUBSET D, Cardinality(U) <= n PROVE g[U] = SumStep(g, f, U)
    <3>1. g[U] = SumStep(h, f, U)
      OBVIOUS
    <3>2. CASE U = {}
      BY <3>1, <3>2 DEF SumStep
    <3>3. CASE U # {}
      <4> DEFINE V == U \ {Chosen(U)}
      <4>1. V \in SUBSET D /\ Cardinality(V) <= n - 1
        BY <2>6, <3>3, ChosenIs
      <4>2. h[V] = SumStep(h, f, V)
        BY <2>4, <4>1
      <4>3. g[V] = SumStep(h, f, V)
        BY <4>1
      <4>4. SumStep(g, f, U) = f[Chosen(U)] + g[V] /\ SumStep(h, f, U) = f[Chosen(U)] + h[V]
        BY <3>3, Zenon DEF SumStep
      <4> HIDE DEF g, V
      <4>5. QED
        BY <3>1, <4>2, <4>3, <4>4
    <3>4. QED
      BY <3>2, <3>3
  <2> HIDE DEF g
  <2>7. Upto(g, n)
    BY <2>6
  <2>8. QED
    BY <2>1, <2>5, <2>7
<1>2. Cardinality(D) \in Nat
  BY FS_CardinalityType
<1>3. PICK h \in [SUBSET D -> Int] : Upto(h, Cardinality(D))
  BY <1>1, <1>2
<1>4. \A U \in SUBSET D : h[U] = SumStep(h, f, U)
  BY <1>3, FS_Subset
<1>5. h = [U \in SUBSET D |-> h[U]]
  OBVIOUS
<1>6. Sums(h, f, D)
  BY <1>4, <1>5, Zenon DEF Sums
<1>7. QED
  BY <1>6

\* What holds of the empty set, and of every set from which taking the chosen element
\* leaves one of which it holds, holds of all subsets of a finite set.
LEMMA SubsetInduction ==
  ASSUME NEW D, IsFiniteSet(D), NEW P, {} \in P,
         \A U \in SUBSET D : U # {} /\ U \ {Chosen(U)} \in P => U \in P
  PROVE  \A U \in SUBSET D : U \in P
<1> DEFINE Z == {n \in Nat : \E U \in SUBSET D : Cardinality(U) = n /\ U \notin P}
<1>1. ASSUME Z # {} PROVE FALSE
  <2>1. PICK n \in Z : \A m \in Z : n <= m
    BY <1>1, LeastNatural
  <2>2. PICK U \in SUBSET D : Cardinality(U) = n /\ U \notin P
    BY <2>1
  <2>3. U # {}
    BY <2>2
  <2> DEFINE V == U \ {Chosen(U)}
  <2>4. V \in SUBSET D /\ Cardinality(V) \in Nat /\ Cardinality(V) = n - 1 /\ n \in Nat
    BY <2>2, <2>3, ChosenIs
  <2>5. V \in P
    <3>1. V \in P \/ Cardinality(V) \in Z
      BY <2>4
    <3>2. Cardinality(V) \in Z => n <= Cardinality(V)
      BY <2>1
    <3> HIDE DEF V, Z
    <3>3. QED
      BY ONLY <3>1, <3>2, <2>4
  <2>6. QED
    BY <2>2, <2>3, <2>5
<1>2. ASSUME NEW U \in SUBSET D PROVE U \in P
  <2>1. Cardinality(U) \in Nat
    BY FS_Subset, FS_CardinalityType
  <2>2. QED
    BY <1>1, <2>1
<1>3. QED
  BY <1>2

\* Sums are integers.
LEMMA SumsTyped ==
  ASSUME NEW D, IsFiniteSet(D), NEW f \in [D -> Int], NEW h, Sums(h, f, D)
  PROVE  /\ h \in [SUBSET D -> Int]
         /\ \A U \in SUBSET D : h[U] = SumStep(h, f, U)
<1>1. DOMAIN h = SUBSET D /\ h = [U \in SUBSET D |-> h[U]]
  BY DEF Sums
<1>2. \A U \in SUBSET D : h[U] = SumStep(h, f, U)
  BY DEF Sums
<1> DEFINE P == {U \in SUBSET D : h[U] \in Int}
<1>3. {} \in P
  <2>1. {} \in SUBSET D /\ SumStep(h, f, {}) = 0
    BY DEF SumStep
  <2>2. h[{}] = 0
    BY <1>2, <2>1
  <2>3. QED
    BY <2>1, <2>2
<1>4. ASSUME NEW U \in SUBSET D, U # {}, U \ {Chosen(U)} \in P PROVE U \in P
  <2>1. f[Chosen(U)] \in Int /\ h[U \ {Chosen(U)}] \in Int
    BY <1>4, ChosenIs
  <2>2. h[U] = f[Chosen(U)] + h[U \ {Chosen(U)}]
    BY <1>2, <1>4 DEF SumStep
  <2>3. QED
    BY <2>1, <2>2
<1> HIDE DEF P
<1>5. \A U \in SUBSET D : U \in P
  BY <1>3, <1>4, SubsetInduction
<1>6. QED
  BY <1>1, <1>2, <1>5 DEF P

\* h has the sums of f on the subsets of D, and the last one is its total.
SumsTo(h, f, D) ==
  /\ h \in [SUBSET D -> Int] /\ Total(f) = h[D]
  /\ \A U \in SUBSET D : h[U] = SumStep(h, f, U)

\* Total is the sum over the domain.
LEMMA TotalIs ==
  ASSUME NEW D, IsFiniteSet(D), NEW f \in [D -> Int]
  PROVE  \E h : SumsTo(h, f, D)
<1> DEFINE h == CHOOSE iter : iter = [U \in SUBSET D |-> SumStep(iter, f, U)]
<1>1. \E iter : iter = [U \in SUBSET D |-> SumStep(iter, f, U)]
  <2>1. PICK g : Sums(g, f, D)
    BY SumsExist
  <2>2. g = [U \in SUBSET D |-> SumStep(g, f, U)]
    BY <2>1, Zenon DEF Sums
  <2>3. QED
    BY <2>2, Zenon
<1>2. h = [U \in SUBSET D |-> SumStep(h, f, U)]
  BY <1>1
<1>3. Total(f) = h[D]
  BY Zenon DEF Total, FoldFunction, FoldFunctionOnSet, MapThenFoldSet, SumStep, Chosen
<1> HIDE DEF h
<1>4. Sums(h, f, D)
  BY <1>2 DEF Sums
<1>5. QED
  BY <1>3, <1>4, SumsTyped DEF SumsTo

\* Changing one value changes the total by the difference.
LEMMA TotalChange ==
  ASSUME NEW D, IsFiniteSet(D), NEW f \in [D -> Int], NEW g \in [D -> Int], NEW d \in D,
         \A e \in D : e # d => g[e] = f[e]
  PROVE  Total(f) \in Int /\ Total(g) \in Int /\ Total(g) = Total(f) + (g[d] - f[d])
<1>1. PICK p : SumsTo(p, f, D)
  BY TotalIs
<1>2. PICK q : SumsTo(q, g, D)
  BY TotalIs
<1> DEFINE Less(U) == IF d \in U THEN g[d] - f[d] ELSE 0
           P == {U \in SUBSET D : q[U] = p[U] + Less(U)}
<1>3. {} \in P
  <2>1. {} \in SUBSET D /\ SumStep(p, f, {}) = 0 /\ SumStep(q, g, {}) = 0 /\ Less({}) = 0
    BY DEF SumStep
  <2>2. p[{}] = 0 /\ q[{}] = 0
    BY <1>1, <1>2, <2>1 DEF SumsTo
  <2> HIDE DEF Less
  <2>3. QED
    BY <2>1, <2>2
<1>4. ASSUME NEW U \in SUBSET D, U # {}, U \ {Chosen(U)} \in P PROVE U \in P
  <2> DEFINE x == Chosen(U)
             V == U \ {x}
  <2>1. x \in U /\ x \in D /\ V \in SUBSET D
    BY <1>4, ChosenIs
  <2>2. p[U] = f[x] + p[V]
    BY <1>1, <1>4 DEF SumStep, SumsTo
  <2>3. q[U] = g[x] + q[V]
    BY <1>2, <1>4 DEF SumStep, SumsTo
  <2>4. q[V] = p[V] + Less(V)
    BY <1>4
  <2>5. p[V] \in Int /\ q[V] \in Int /\ f[x] \in Int /\ g[x] \in Int /\ f[d] \in Int /\ g[d] \in Int
    <3>1. p \in [SUBSET D -> Int] /\ q \in [SUBSET D -> Int]
      BY <1>1, <1>2 DEF SumsTo
    <3> HIDE DEF x, V
    <3>2. QED
      BY <2>1, <3>1
  <2> HIDE DEF x
  <2>6. CASE x = d
    <3>1. Less(V) = 0 /\ Less(U) = g[d] - f[d]
      BY <2>1, <2>6
    <3> HIDE DEF V, Less
    <3>2. QED
      BY <2>2, <2>3, <2>4, <2>5, <2>6, <3>1
  <2>7. CASE x # d
    <3>1. Less(V) = Less(U) /\ g[x] = f[x] /\ Less(U) \in Int
      BY <2>1, <2>5, <2>7
    <3> HIDE DEF V, Less
    <3>2. QED
      BY <2>2, <2>3, <2>4, <2>5, <3>1
  <2>8. QED
    BY <2>6, <2>7
<1> HIDE DEF P
<1>5. D \in P
  BY <1>3, <1>4, SubsetInduction
<1>6. q[D] = p[D] + (g[d] - f[d])
  BY <1>5 DEF P
<1>7. QED
  BY <1>1, <1>2, <1>6 DEF SumsTo

\* The total of zeros.
LEMMA TotalZero ==
  ASSUME NEW D, IsFiniteSet(D), NEW f \in [D -> Int], \A e \in D : f[e] = 0
  PROVE  Total(f) = 0
<1>1. PICK p : SumsTo(p, f, D)
  BY TotalIs
<1> DEFINE P == {U \in SUBSET D : p[U] = 0}
<1>2. {} \in P
  <2>1. {} \in SUBSET D /\ SumStep(p, f, {}) = 0
    BY DEF SumStep
  <2>2. p[{}] = 0
    BY <1>1, <2>1 DEF SumsTo
  <2>3. QED
    BY <2>1, <2>2
<1>3. ASSUME NEW U \in SUBSET D, U # {}, U \ {Chosen(U)} \in P PROVE U \in P
  <2>1. f[Chosen(U)] = 0
    BY <1>3, ChosenIs
  <2>2. p[U \ {Chosen(U)}] = 0
    BY <1>3
  <2>3. SumStep(p, f, U) = 0 + 0
    BY <1>3, <2>1, <2>2 DEF SumStep
  <2>4. p[U] = 0
    BY <1>1, <2>3 DEF SumsTo
  <2>5. QED
    BY <2>4
<1> HIDE DEF P
<1>4. D \in P
  BY <1>2, <1>3, SubsetInduction
<1>5. QED
  BY <1>1, <1>4 DEF P, SumsTo

-----------------------------------------------------------------------------
(* Units.                                                                  *)

\* There are finitely many stages and NICs.
LEMMA FiniteIs == IsFiniteSet(S) /\ IsFiniteSet(N)
<1>1. NbStages - 1 \in Int /\ NbNics - 1 \in Int
  BY AllocationAssumption
<1>2. QED
  BY <1>1, FS_Interval DEF S, N

\* The units of kind k that NIC n gives, stage by stage, when the stages have a.
Taken(a, n, k) == [st \in S |-> IF Kind[st] = k THEN a[st][n] ELSE 0]

\* a becomes b as stage st gets units on NIC n.
Given(a, b, st, n, units) ==
  /\ a \in [S -> [N -> Nat]] /\ b \in [S -> [N -> Nat]]
  /\ st \in S /\ n \in N /\ units \in Nat
  /\ b = [a EXCEPT ![st][n] = @ + units]

\* The units of a stage, and those taken from a NIC, grow by what is given, at that
\* stage and NIC, and nowhere else.
LEMMA GivenTotals ==
  ASSUME NEW a, NEW b, NEW st, NEW n, NEW units, Given(a, b, st, n, units)
  PROVE  /\ \A o \in S : /\ Total(a[o]) \in Int
                         /\ Total(b[o]) = Total(a[o]) + (IF o = st THEN units ELSE 0)
         /\ \A m \in N, k \in Resource :
              /\ Total(Taken(a, m, k)) \in Int
              /\ Total(Taken(b, m, k)) =
                   Total(Taken(a, m, k)) + (IF m = n /\ k = Kind[st] THEN units ELSE 0)
<1>1. /\ a \in [S -> [N -> Nat]] /\ b \in [S -> [N -> Nat]]
      /\ st \in S /\ n \in N /\ units \in Nat
  BY DEF Given
<1>2. /\ \A o \in S : o # st => b[o] = a[o]
      /\ \A m \in N : m # n => b[st][m] = a[st][m]
      /\ b[st][n] = a[st][n] + units
  BY <1>1 DEF Given
<1>3. b[st][n] - a[st][n] = units /\ a[st][n] \in Int /\ b[st][n] \in Int
  <2>1. a[st][n] \in Nat
    BY <1>1
  <2>2. QED
    BY <1>1, <1>2, <2>1
<1>4. ASSUME NEW o \in S
      PROVE  Total(a[o]) \in Int /\ Total(b[o]) = Total(a[o]) + (IF o = st THEN units ELSE 0)
  <2>1. a[o] \in [N -> Int] /\ b[o] \in [N -> Int]
    BY <1>1
  <2>2. \A m \in N : m # n => b[o][m] = a[o][m]
    BY <1>2
  <2>3. Total(a[o]) \in Int /\ Total(b[o]) = Total(a[o]) + (b[o][n] - a[o][n])
    BY <1>1, <2>1, <2>2, FiniteIs, TotalChange
  <2>4. b[o][n] - a[o][n] = IF o = st THEN units ELSE 0
    <3>1. a[o][n] \in Nat
      BY <1>1
    <3>2. QED
      BY <1>2, <1>3, <3>1
  <2>5. QED
    BY <2>3, <2>4
<1>5. ASSUME NEW m \in N, NEW k \in Resource
      PROVE  /\ Total(Taken(a, m, k)) \in Int
             /\ Total(Taken(b, m, k)) =
                  Total(Taken(a, m, k)) + (IF m = n /\ k = Kind[st] THEN units ELSE 0)
  <2> DEFINE f == Taken(a, m, k)
             g == Taken(b, m, k)
  <2>1. f \in [S -> Int] /\ g \in [S -> Int]
    BY <1>1 DEF Taken
  <2>2. \A o \in S : o # st => g[o] = f[o]
    BY <1>2 DEF Taken
  <2>3. g[st] - f[st] = IF m = n /\ k = Kind[st] THEN units ELSE 0
    <3>1. /\ f[st] = IF Kind[st] = k THEN a[st][m] ELSE 0
          /\ g[st] = IF Kind[st] = k THEN b[st][m] ELSE 0
          /\ a[st][m] \in Nat
      BY <1>1 DEF Taken
    <3>2. QED
      BY <1>2, <1>3, <3>1
  <2> HIDE DEF f, g
  <2>4. Total(f) \in Int /\ Total(g) = Total(f) + (g[st] - f[st])
    <3>1. st \in S /\ IsFiniteSet(S)
      BY <1>1, FiniteIs
    <3>2. QED
      BY ONLY <2>1, <2>2, <3>1, TotalChange
  <2>5. QED
    BY <2>3, <2>4 DEF f, g
<1>6. QED
  BY <1>4, <1>5

\* Giving units conserves them.
LEMMA GiveConserves ==
  ASSUME TypeOK, TypeOK', UNCHANGED inputs, UnitsConserved,
         NEW st \in S, NEW n \in N, NEW units \in Nat, Give(st, n, units)
  PROVE  UnitsConserved'
<1>1. Given(A, A', st, n, units)
  BY DEF TypeOK, Give, Given
<1>2. /\ A \in [S -> [N -> Nat]] /\ G \in [S -> Nat] /\ T \in [N -> [Resource -> Nat]]
      /\ Kind[st] \in Resource
  BY ParametersAre DEF TypeOK
<1>3. demand' = demand /\ supply' = supply
  BY DEF inputs
<1>4. ASSUME NEW o \in S PROVE G'[o] + Total(A'[o]) = demand'[o]
  <2>1. Total(A[o]) \in Int /\ Total(A'[o]) = Total(A[o]) + (IF o = st THEN units ELSE 0)
    BY <1>1, GivenTotals
  <2>2. G[o] \in Nat /\ G'[o] = IF o = st THEN G[o] - units ELSE G[o]
    BY <1>2 DEF Give
  <2>3. G[o] + Total(A[o]) = demand[o]
    BY DEF UnitsConserved, Taken
  <2>4. QED
    BY <1>3, <2>1, <2>2, <2>3
<1>5. ASSUME NEW m \in N, NEW k \in Resource
      PROVE  T'[m][k] + Total(Taken(A', m, k)) = supply'[m][k]
  <2>1. /\ Total(Taken(A, m, k)) \in Int
        /\ Total(Taken(A', m, k)) =
             Total(Taken(A, m, k)) + (IF m = n /\ k = Kind[st] THEN units ELSE 0)
    BY <1>1, GivenTotals
  <2>2. T[m][k] \in Nat /\ T'[m][k] = IF m = n /\ k = Kind[st] THEN T[m][k] - units ELSE T[m][k]
    <3>1. T' = [T EXCEPT ![n] = [T[n] EXCEPT ![Kind[st]] = T[n][Kind[st]] - units]]
      BY <1>2 DEF Give
    <3>2. QED
      BY <1>2, <3>1
  <2>3. T[m][k] + Total(Taken(A, m, k)) = supply[m][k]
    BY DEF UnitsConserved, Taken
  <2>4. QED
    BY <1>3, <2>1, <2>2, <2>3
<1>6. QED
  BY <1>4, <1>5, Zenon DEF UnitsConserved, Taken

\* A placement conserves units.
LEMMA AllocateConserves ==
  ASSUME TypeOK, TypeOK', UNCHANGED inputs, UnitsConserved,
         NEW st \in S, NEW n \in N, AllocateOneSnic(st, n)
  PROVE  UnitsConserved'
<1>1. CASE AllocateFreely(st, n) \/ AllocateUnits(st, n)
  <2>1. Give(st, n, Units(st, n))
    BY <1>1 DEF AllocateFreely, AllocateUnits
  <2>2. Units(st, n) \in Nat
    BY OffersAre
  <2>3. QED
    BY <2>1, <2>2, GiveConserves
<1>2. CASE AllocateOnBw(st, n)
  <2> DEFINE d == AllocableBw(st, n) \div W[st]
  <2>1. \/ UNCHANGED <<A, G, T>>
        \/ Give(st, n, d)
    BY <1>2 DEF AllocateOnBw
  <2>2. d \in Nat
    BY OffersAre, ParametersAre
  <2> HIDE DEF d
  <2>3. CASE UNCHANGED <<A, G, T>>
    BY <2>3 DEF UnitsConserved, inputs
  <2>4. CASE Give(st, n, d)
    BY <2>2, <2>4, GiveConserves
  <2>5. QED
    BY <2>1, <2>3, <2>4
<1>3. QED
  BY <1>1, <1>2 DEF AllocateOneSnic

\* For every pipeline and cluster: units are moved from the NICs to the stages, never made
\* or lost, in each branch of allocate_one_snic, and also where no NIC was found.
THEOREM UnitsAreConserved == Spec => []UnitsConserved
<1>1. Init => UnitsConserved
  <2> SUFFICES ASSUME Init PROVE UnitsConserved
    OBVIOUS
  <2>1. ASSUME NEW st \in S PROVE G[st] + Total(A[st]) = demand[st]
    <3>1. A[st] \in [N -> Int] /\ \A n \in N : A[st][n] = 0
      BY DEF Init
    <3>2. Total(A[st]) = 0
      BY <3>1, FiniteIs, TotalZero
    <3>3. G[st] = demand[st] /\ demand[st] \in Nat
      BY AllocationAssumption DEF Init
    <3>4. QED
      BY <3>2, <3>3
  <2>2. ASSUME NEW n \in N, NEW k \in Resource PROVE T[n][k] + Total(Taken(A, n, k)) = supply[n][k]
    <3> DEFINE f == Taken(A, n, k)
    <3>1. f \in [S -> Int] /\ \A st \in S : f[st] = 0
      BY DEF Init, Taken
    <3> HIDE DEF f
    <3>2. Total(f) = 0
      BY <3>1, FiniteIs, TotalZero
    <3>3. T[n][k] = supply[n][k] /\ supply[n][k] \in Nat
      BY AllocationAssumption DEF Init
    <3>4. QED
      BY <3>2, <3>3 DEF f
  <2>3. QED
    BY <2>1, <2>2, Zenon DEF UnitsConserved, Taken
<1>2. TypeOK /\ TypeOK' /\ UnitsConserved /\ [Next]_vars => UnitsConserved'
  <2> SUFFICES ASSUME TypeOK, TypeOK', UnitsConserved, [Next]_vars PROVE UnitsConserved'
    OBVIOUS
  <2>1. CASE Place
    <3>1. PICK n \in BestNics(s) : AllocateOneSnic(s, n)
      BY <2>1 DEF Place
    <3>2. n \in N /\ s \in S /\ UNCHANGED inputs
      BY <2>1 DEF Place, Running, BestNics, Acceptable
    <3>3. QED
      BY <3>1, <3>2, AllocateConserves
  <2>2. CASE FallBack
    <3>1. NbNics - 1 \in N /\ s \in S /\ AllocateOneSnic(s, NbNics - 1) /\ UNCHANGED inputs
      BY <2>2, AllocationAssumption DEF FallBack, Running, N
    <3>2. QED
      BY <3>1, AllocateConserves
  <2>3. CASE NextStage
    BY <2>3 DEF NextStage, UnitsConserved, inputs
  <2>4. CASE UNCHANGED vars
    BY <2>4 DEF vars, UnitsConserved, inputs
  <2>5. QED
    BY <2>1, <2>2, <2>3, <2>4 DEF Next
<1>3. QED
  BY <1>1, <1>2, TypeCorrect, PTL DEF Spec

-----------------------------------------------------------------------------
(* Bandwidth.                                                              *)

\* The stages after the one being placed are nowhere yet.
LaterEmpty == \A o \in S : o > s => \A n \in N : A[o][n] = 0

\* While NICs are found, the bandwidth adds up; it does because no unit of a later
\* stage has counted on what the current one brings.
BandwidthInv == LaterEmpty /\ BandwidthAccounted

\* What each stage takes from the idle bandwidth of NIC n.
FromOutside(n) == [st \in S |-> Greater(0, A[st][n] * W[st] - SharableBw(st, n))]

\* What stages take from outside are counts.
LEMMA FromOutsideIs ==
  ASSUME TypeOK, NEW n \in N
  PROVE  /\ FromOutside(n) \in [S -> Int]
         /\ \A st \in S : A[st][n] = 0 => FromOutside(n)[st] = 0
<1>1. ASSUME NEW st \in S
      PROVE  /\ Greater(0, A[st][n] * W[st] - SharableBw(st, n)) \in Int
             /\ A[st][n] = 0 => Greater(0, A[st][n] * W[st] - SharableBw(st, n)) = 0
  <2>1. A[st][n] \in Nat /\ W[st] \in Nat /\ SharableBw(st, n) \in Nat
    BY SharableIs, ParametersAre DEF TypeOK
  <2>2. A[st][n] * W[st] \in Nat /\ (A[st][n] = 0 => A[st][n] * W[st] = 0)
    BY <2>1, ProductIs
  <2>3. QED
    BY <2>1, <2>2 DEF Greater
<1>2. QED
  BY <1>1 DEF FromOutside

\* Stage s gets its first units on NIC n, which takes from its idle bandwidth what they
\* get from outside.
Settled(n, units) ==
  /\ s \in S /\ s' = s /\ n \in N /\ units \in Nat /\ A[s][n] = 0
  /\ A' = [A EXCEPT ![s][n] = @ + units]
  /\ B' = [B EXCEPT ![n] = @ - Greater(0, units * W[s] - SharableBw(s, n))]

\* The stages before the current one and the one after it get from outside what they got.
LEMMA SettledShares ==
  ASSUME TypeOK, TypeOK', LaterEmpty, NEW n, NEW units, Settled(n, units),
         NEW m \in N, NEW st \in S, m # n \/ st # s
  PROVE  FromOutside(m)'[st] = FromOutside(m)[st]
<1>1. /\ s \in S /\ n \in N /\ units \in Nat /\ A \in [S -> [N -> Nat]]
      /\ A' = [A EXCEPT ![s][n] = @ + units]
  BY DEF Settled, TypeOK
<1>2. FromOutside(m)'[st] = Greater(0, A'[st][m] * W[st] - SharableBw(st, m)')
  BY DEF FromOutside
<1>3. FromOutside(m)[st] = Greater(0, A[st][m] * W[st] - SharableBw(st, m))
  BY DEF FromOutside
<1>4. A'[st][m] = A[st][m]
  BY <1>1
<1>5. CASE m # n \/ st # s + 1
  <2>1. st # 0 => st - 1 \in S /\ A'[st - 1][m] = A[st - 1][m]
    <3>1. st # 0 => st - 1 \in S
      BY ParametersAre
    <3>2. st # s + 1 => st - 1 # s
      BY <1>1 DEF S
    <3>3. QED
      BY <1>1, <1>5, <3>1, <3>2
  <2>2. SharableBw(st, m)' = SharableBw(st, m)
    BY <2>1 DEF SharableBw
  <2>3. QED
    BY <1>2, <1>3, <1>4, <2>2
<1>6. CASE st = s + 1
  <2>1. st > s
    BY <1>1, <1>6 DEF S
  <2>2. A[st][m] = 0 /\ A'[st][m] = 0
    BY <1>4, <2>1 DEF LaterEmpty
  <2>3. FromOutside(m)[st] = 0
    BY <2>2, FromOutsideIs
  <2>4. FromOutside(m)'[st] = 0
    <3>1. SharableBw(st, m)' \in Nat
      <4>1. st - 1 \in S /\ st # 0
        BY <1>1, <1>6 DEF S
      <4>2. A'[st - 1][m] \in Nat /\ W[st - 1] \in Nat
        BY <4>1, ParametersAre DEF TypeOK
      <4>3. QED
        BY <4>1, <4>2, ProductIs DEF SharableBw
    <3>2. A'[st][m] * W[st] = 0
      BY <2>2, ParametersAre
    <3>3. QED
      BY <1>2, <3>1, <3>2 DEF Greater
  <2>5. QED
    BY <2>3, <2>4
<1>7. QED
  BY <1>5, <1>6

\* The same after a step.
LEMMA FromOutsideAfter ==
  ASSUME NEW m \in N
  PROVE  TypeOK' => FromOutside(m)' \in [S -> Int]
<1>1. TypeOK => FromOutside(m) \in [S -> Int]
  BY FromOutsideIs
<1>2. TypeOK' => (FromOutside(m) \in [S -> Int])'
  BY <1>1, PTL
<1>3. QED
  BY <1>2

\* The bandwidth still adds up after that.
LEMMA SettledAccounts ==
  ASSUME TypeOK, TypeOK', UNCHANGED inputs, ~fellBack, BandwidthInv,
         NEW n, NEW units, Settled(n, units)
  PROVE  BandwidthInv'
<1>1. /\ s \in S /\ s' = s /\ n \in N /\ units \in Nat /\ A \in [S -> [N -> Nat]] /\ A[s][n] = 0
      /\ A' = [A EXCEPT ![s][n] = @ + units] /\ LaterEmpty /\ B \in [N -> Nat]
      /\ B' = [B EXCEPT ![n] = @ - Greater(0, units * W[s] - SharableBw(s, n))]
  BY DEF Settled, TypeOK, BandwidthInv
<1>2. LaterEmpty'
  <2>1. ASSUME NEW o \in S, o > s, NEW m \in N PROVE A'[o][m] = 0
    <3>1. o # s
      BY <1>1, <2>1 DEF S
    <3>2. A'[o] = A[o]
      BY <1>1, <3>1
    <3>3. QED
      BY <1>1, <2>1, <3>2 DEF LaterEmpty
  <2>2. QED
    BY <1>1, <2>1 DEF LaterEmpty
<1>3. ASSUME NEW m \in N PROVE bandwidth'[m] - B'[m] = Total(FromOutside(m)')
  <2> DEFINE f == FromOutside(m)
             g == FromOutside(m)'
             d == g[s] - f[s]
  <2>1. f \in [S -> Int]
    BY FromOutsideIs
  <2>2. g \in [S -> Int]
    BY FromOutsideAfter
  <2>3. \A st \in S : st # s => g[st] = f[st]
    BY <1>1, SettledShares
  <2>4. f[s] \in Int /\ g[s] \in Int
    BY <1>1, <2>1, <2>2
  <2>5. bandwidth[m] - B[m] = Total(f)
    BY DEF BandwidthInv, BandwidthAccounted, FromOutside
  <2>6. B'[m] = B[m] - d
    <3>1. CASE m # n
      <4>1. g[s] = f[s]
        BY <1>1, <3>1, SettledShares
      <4>2. B'[m] = B[m] /\ B[m] \in Nat
        BY <1>1, <3>1
      <4>3. QED
        BY <2>4, <4>1, <4>2
    <3>2. CASE m = n
      <4>1. f[s] = 0
        BY <1>1, <3>2, FromOutsideIs
      <4>2. g[s] = Greater(0, units * W[s] - SharableBw(s, n))
        <5>1. A'[s][n] = units
          BY <1>1
        <5>2. SharableBw(s, n)' = SharableBw(s, n)
          <6>1. s # 0 => s - 1 \in S /\ s - 1 # s
            BY <1>1, ParametersAre DEF S
          <6>2. QED
            BY <1>1, <6>1 DEF SharableBw
        <5>3. g[s] = Greater(0, A'[s][n] * W[s] - SharableBw(s, n)')
          BY <1>1, <3>2 DEF FromOutside
        <5>4. QED
          BY <5>1, <5>2, <5>3
      <4>3. B'[n] = B[n] - g[s]
        BY <1>1, <4>2
      <4> HIDE DEF f, g
      <4>4. QED
        BY <2>4, <3>2, <4>1, <4>3
    <3>3. QED
      BY <3>1, <3>2
  <2> HIDE DEF f, g
  <2>7. Total(f) \in Int /\ Total(g) = Total(f) + d
    <3>1. s \in S /\ IsFiniteSet(S)
      BY <1>1, FiniteIs
    <3>2. QED
      BY ONLY <2>1, <2>2, <2>3, <3>1, TotalChange
  <2>8. bandwidth'[m] = bandwidth[m] /\ bandwidth[m] \in Nat /\ B[m] \in Nat /\ d \in Int
    BY <1>1, <2>4 DEF TypeOK, inputs
  <2>9. bandwidth'[m] - B'[m] = Total(g)
    BY ONLY <2>5, <2>6, <2>7, <2>8
  <2>10. QED
    BY <2>9 DEF g
<1>4. QED
  BY <1>2, <1>3, Zenon DEF BandwidthInv, BandwidthAccounted, FromOutside

\* So does a placement on a NIC where the stage is not yet.
LEMMA AllocateAccounts ==
  ASSUME TypeOK, TypeOK', UNCHANGED inputs, ~fellBack, BandwidthInv, s \in S, s' = s,
         fellBack' = fellBack, NEW n \in N, A[s][n] = 0, AllocateOneSnic(s, n)
  PROVE  BandwidthInv'
<1> DEFINE bw == AllocableBw(s, n)
           shared == SharableBw(s, n)
           units == Units(s, n)
<1>1. /\ bw = shared + B[n] /\ shared \in Nat /\ bw \in Nat /\ units \in Nat /\ units <= G[s]
      /\ W[s] \in Nat \ {0} /\ B \in [N -> Nat] /\ B[n] \in Nat /\ G[s] \in Nat
  BY OffersAre, SharableIs, ParametersAre DEF TypeOK, AllocableBw
<1>2. ASSUME NEW u \in Nat, Give(s, n, u), B' = [B EXCEPT ![n] = Lesser(B[n], bw - u * W[s])]
      PROVE  BandwidthInv'
  <2>1. u * W[s] \in Nat
    BY <1>1, ProductIs
  <2> HIDE DEF bw, shared
  <2>2. Lesser(B[n], bw - u * W[s]) = B[n] - Greater(0, u * W[s] - shared)
    BY <1>1, <2>1 DEF Lesser, Greater
  <2>3. Settled(n, u)
    BY <1>2, <2>2 DEF Settled, Give, shared
  <2>4. QED
    BY <2>3, SettledAccounts
<1>3. CASE AllocateFreely(s, n)
  <2>1. Give(s, n, units) /\ B' = B /\ G[s] * W[s] <= shared
    BY <1>3 DEF AllocateFreely, NotLimitedByBw
  <2> HIDE DEF bw, shared, units
  <2>2. units * W[s] <= G[s] * W[s] /\ units * W[s] \in Nat /\ G[s] * W[s] \in Nat
    <3>1. PICK d \in Nat : G[s] = units + d
      <4>1. G[s] - units \in Nat /\ G[s] = units + (G[s] - units)
        BY <1>1
      <4>2. QED
        BY <4>1
    <3>2. G[s] * W[s] = (units * W[s]) + (d * W[s])
      BY <1>1, <3>1
    <3>3. d * W[s] \in Nat /\ units * W[s] \in Nat /\ G[s] * W[s] \in Nat
      BY <1>1, ProductIs
    <3>4. QED
      BY <3>2, <3>3
  <2>3. Greater(0, units * W[s] - shared) = 0
    BY <1>1, <2>1, <2>2 DEF Greater
  <2>4. B' = [B EXCEPT ![n] = B[n] - Greater(0, units * W[s] - shared)]
    BY <1>1, <2>1, <2>3
  <2>5. Settled(n, units)
    BY <1>1, <2>1, <2>4 DEF Settled, Give, shared
  <2>6. QED
    BY <2>5, SettledAccounts
<1>4. CASE AllocateUnits(s, n)
  BY <1>1, <1>2, <1>4 DEF AllocateUnits
<1>5. CASE AllocateOnBw(s, n)
  <2> DEFINE d == bw \div W[s]
  <2>1. \/ UNCHANGED <<A, B>>
        \/ Give(s, n, d) /\ B' = [B EXCEPT ![n] = Lesser(B[n], bw - d * W[s])]
    BY <1>5 DEF AllocateOnBw
  <2>2. d \in Nat
    BY <1>1
  <2> HIDE DEF d, bw
  <2>3. CASE UNCHANGED <<A, B>>
    <3>1. UNCHANGED <<A, B, s, fellBack, bandwidth>>
      BY <2>3 DEF inputs
    <3>2. QED
      BY <3>1 DEF BandwidthInv, BandwidthAccounted, LaterEmpty, SharableBw
  <2>4. QED
    BY <1>2, <2>1, <2>2, <2>3
<1>6. QED
  BY <1>3, <1>4, <1>5 DEF AllocateOneSnic

\* A placement on the last NIC of the list, when none is acceptable, ends the accounting.
LEMMA FallBackAccounts ==
  ASSUME TypeOK, LaterEmpty, FallBack
  PROVE  BandwidthInv'
<1>1. /\ s \in S /\ s' = s /\ fellBack' = TRUE /\ AllocateOneSnic(s, NbNics - 1)
      /\ A \in [S -> [N -> Nat]]
  BY DEF FallBack, Running, TypeOK
<1>2. ASSUME NEW o \in S, o > s PROVE A'[o] = A[o]
  <2>1. o # s
    BY <1>1, <1>2 DEF S
  <2>2. QED
    BY <1>1, <2>1 DEF AllocateOneSnic, AllocateFreely, AllocateUnits, AllocateOnBw, Give
<1>3. QED
  BY <1>1, <1>2 DEF BandwidthInv, BandwidthAccounted, LaterEmpty

\* For every pipeline and cluster: as long as NICs are found, the idle bandwidth taken from
\* a NIC is exactly the traffic its stages get from outside.
THEOREM BandwidthIsAccounted == Spec => []BandwidthAccounted
<1>1. Init => BandwidthInv
  <2> SUFFICES ASSUME Init PROVE BandwidthInv
    OBVIOUS
  <2>1. LaterEmpty
    BY DEF Init, LaterEmpty
  <2>2. ASSUME NEW n \in N PROVE bandwidth[n] - B[n] = Total(FromOutside(n))
    <3> DEFINE f == FromOutside(n)
    <3>1. \A st \in S : f[st] = 0
      <4>1. ASSUME NEW st \in S PROVE f[st] = 0
        <5>1. A[st][n] * W[st] = 0
          BY ParametersAre DEF Init
        <5>2. SharableBw(st, n) = 0
          <6>1. st # 0 => st - 1 \in S /\ W[st - 1] \in Nat
            BY ParametersAre
          <6>2. QED
            BY <6>1 DEF Init, SharableBw
        <5>3. QED
          BY <5>1, <5>2 DEF FromOutside, Greater
      <4>2. QED
        BY <4>1
    <3>2. f \in [S -> Int]
      BY <3>1 DEF FromOutside
    <3> HIDE DEF f
    <3>3. Total(f) = 0
      BY <3>1, <3>2, FiniteIs, TotalZero
    <3>4. B[n] = bandwidth[n] /\ bandwidth[n] \in Nat
      BY AllocationAssumption DEF Init
    <3>5. QED
      BY <3>3, <3>4 DEF f
  <2>3. QED
    BY <2>1, <2>2, Zenon DEF BandwidthInv, BandwidthAccounted, FromOutside
<1>2. TypeOK /\ TypeOK' /\ BandwidthInv /\ [Next]_vars => BandwidthInv'
  <2> SUFFICES ASSUME TypeOK, TypeOK', BandwidthInv, [Next]_vars PROVE BandwidthInv'
    OBVIOUS
  <2>1. CASE Place
    <3>1. PICK n \in BestNics(s) : AllocateOneSnic(s, n)
      BY <2>1 DEF Place
    <3>2. /\ n \in N /\ A[s][n] = 0 /\ s \in S /\ s' = s /\ fellBack' = fellBack
          /\ UNCHANGED inputs
      BY <2>1 DEF Place, Running, BestNics, Acceptable
    <3>3. CASE ~fellBack
      BY <3>1, <3>2, <3>3, AllocateAccounts
    <3>4. CASE fellBack
      <4>1. ASSUME NEW o \in S, o > s PROVE A'[o] = A[o]
        <5>1. o # s /\ A \in [S -> [N -> Nat]]
          BY <3>2, <4>1 DEF S, TypeOK
        <5>2. QED
          BY <3>1, <5>1 DEF AllocateOneSnic, AllocateFreely, AllocateUnits, AllocateOnBw, Give
      <4>2. QED
        BY <3>2, <3>4, <4>1 DEF BandwidthInv, BandwidthAccounted, LaterEmpty
    <3>5. QED
      BY <3>3, <3>4
  <2>2. CASE FallBack
    BY <2>2, FallBackAccounts DEF BandwidthInv
  <2>3. CASE NextStage
    <3>1. s \in S /\ s' = s + 1 /\ UNCHANGED <<A, B, fellBack, bandwidth>>
      BY <2>3 DEF NextStage, Running, inputs
    <3>2. \A o \in S : o > s' => o > s
      BY <3>1 DEF S
    <3>3. LaterEmpty'
      BY <3>1, <3>2 DEF BandwidthInv, LaterEmpty
    <3>4. BandwidthAccounted'
      BY <3>1 DEF BandwidthInv, BandwidthAccounted, SharableBw
    <3>5. QED
      BY <3>3, <3>4 DEF BandwidthInv
  <2>4. CASE UNCHANGED vars
    BY <2>4 DEF vars, inputs, BandwidthInv, BandwidthAccounted, LaterEmpty, SharableBw
  <2>5. QED
    BY <2>1, <2>2, <2>3, <2>4 DEF Next
<1>3. BandwidthInv => BandwidthAccounted
  BY DEF BandwidthInv
<1>4. QED
  BY <1>1, <1>2, <1>3, TypeCorrect, PTL DEF Spec

-----------------------------------------------------------------------------
(* The end of the placement: what the loops reach, and why they get there. *)

\* The stages before the one being placed have all the units they demand.
EarlierMet == \A st \in S : st < s => G[st] = 0

\* A stage that has all its units is not given any again.
LEMMA EarlierStayMet ==
  TypeOK /\ EarlierMet /\ [Next]_vars => EarlierMet'
<1> SUFFICES ASSUME TypeOK, EarlierMet, [Next]_vars PROVE EarlierMet'
  OBVIOUS
<1>0. G \in [S -> Nat] /\ s \in Nat
  BY AllocationAssumption DEF TypeOK
<1>1. ASSUME NEW n, s \in S, AllocateOneSnic(s, n), s' = s PROVE EarlierMet'
  <2>1. \A st \in S \ {s} : G'[st] = G[st]
    BY <1>0, <1>1 DEF AllocateOneSnic, AllocateFreely, AllocateUnits, AllocateOnBw, Give
  <2>2. ASSUME NEW st \in S, st < s PROVE G'[st] = 0
    <3>1. st # s
      BY <1>0, <2>2 DEF S
    <3>2. QED
      BY <2>1, <2>2, <3>1 DEF EarlierMet
  <2>3. QED
    BY <1>1, <2>2 DEF EarlierMet
<1>2. CASE Place
  BY <1>1, <1>2 DEF Place, Running
<1>3. CASE FallBack
  BY <1>1, <1>3 DEF FallBack, Running
<1>4. CASE NextStage
  <2>1. s \in S /\ G[s] = 0 /\ s' = s + 1 /\ G' = G
    BY <1>4 DEF NextStage, Running
  <2>2. \A st \in S : st < s + 1 => st < s \/ st = s
    BY <1>0 DEF S
  <2>3. QED
    BY <2>1, <2>2 DEF EarlierMet
<1>5. CASE UNCHANGED vars
  BY <1>5 DEF vars, EarlierMet
<1>6. QED
  BY <1>2, <1>3, <1>4, <1>5 DEF Next

(* For every pipeline and cluster: when resource_allocation has gone through all stages,
   each has on the NICs together exactly the units it demanded; the outer loop leaves no
   stage half placed. *)
THEOREM PlacedInFull ==
  Spec => [](s = NbStages => \A st \in S : Total(A[st]) = demand[st])
<1>1. Init => EarlierMet
  BY DEF Init, EarlierMet, S
<1>2. ASSUME TypeOK, EarlierMet, UnitsConserved, s = NbStages, NEW st \in S
      PROVE  Total(A[st]) = demand[st]
  <2>1. st < s
    BY <1>2, ParametersAre
  <2>2. G[st] = 0
    BY <1>2, <2>1 DEF EarlierMet
  <2>3. A[st] \in [N -> Int]
    BY <1>2 DEF TypeOK
  <2>4. Total(A[st]) \in Int
    <3>1. PICK h : SumsTo(h, A[st], N)
      BY <2>3, FiniteIs, TotalIs
    <3>2. QED
      BY <3>1 DEF SumsTo
  <2>5. G[st] + Total(A[st]) = demand[st]
    BY <1>2 DEF UnitsConserved
  <2>6. QED
    BY <2>2, <2>4, <2>5
<1>3. TypeOK /\ EarlierMet /\ UnitsConserved
        => (s = NbStages => \A st \in S : Total(A[st]) = demand[st])
  BY <1>2
<1>4. QED
  BY <1>1, <1>3, EarlierStayMet, TypeCorrect, UnitsAreConserved, PTL DEF Spec

\* The total of counts is a count.
LEMMA TotalCount ==
  ASSUME NEW D, IsFiniteSet(D), NEW f \in [D -> Nat]
  PROVE  Total(f) \in Nat
<1>0. f \in [D -> Int]
  OBVIOUS
<1>1. PICK p : SumsTo(p, f, D)
  BY <1>0, TotalIs
<1> DEFINE P == {U \in SUBSET D : p[U] \in Nat}
<1>2. {} \in P
  <2>1. {} \in SUBSET D /\ SumStep(p, f, {}) = 0
    BY DEF SumStep
  <2>2. p[{}] = 0
    BY <1>1, <2>1 DEF SumsTo
  <2>3. QED
    BY <2>1, <2>2
<1>3. ASSUME NEW U \in SUBSET D, U # {}, U \ {Chosen(U)} \in P PROVE U \in P
  <2>1. f[Chosen(U)] \in Nat
    BY <1>3, ChosenIs
  <2>2. p[U \ {Chosen(U)}] \in Nat
    BY <1>3
  <2>3. SumStep(p, f, U) = f[Chosen(U)] + p[U \ {Chosen(U)}]
    BY <1>3 DEF SumStep
  <2>4. p[U] = f[Chosen(U)] + p[U \ {Chosen(U)}]
    BY <1>1, <2>3 DEF SumsTo
  <2>5. p[U] \in Nat
    BY ONLY <2>1, <2>2, <2>4
  <2>6. QED
    BY <2>5
<1> HIDE DEF P
<1>4. D \in P
  BY <1>2, <1>3, SubsetInduction
<1>5. QED
  BY <1>1, <1>4 DEF P, SumsTo

\* What is still to do: the units that are not placed, and the stages not gone through.
Owed == Total(G) + (NbStages - s)

\* It is a count.
LEMMA OwedIs ==
  ASSUME TypeOK
  PROVE  Owed \in Nat /\ Total(G) \in Nat
<1>1. G \in [S -> Nat] /\ s \in 0 .. NbStages /\ NbStages \in Nat
  BY AllocationAssumption DEF TypeOK
<1>2. Total(G) \in Nat
  BY <1>1, FiniteIs, TotalCount
<1>3. QED
  BY <1>1, <1>2 DEF Owed

\* A NIC that find_next_snic returns takes units, unless its bandwidth is not enough for
\* one of them.
LEMMA PlaceGives ==
  ASSUME TypeOK, s \in S, G[s] # 0, NEW n \in Acceptable(s), AllocateOneSnic(s, n)
  PROVE  crashed' \/ \E units \in Nat \ {0} : Give(s, n, units)
<1>1. n \in N /\ T[n][Kind[s]] > 0
  BY DEF Acceptable
<1>2. G[s] \in Nat /\ T[n][Kind[s]] \in Nat
  BY <1>1, ParametersAre DEF TypeOK
<1>3. Units(s, n) \in Nat \ {0}
  BY <1>1, <1>2 DEF Units, Lesser
<1>4. CASE AllocateFreely(s, n) \/ AllocateUnits(s, n)
  BY <1>3, <1>4 DEF AllocateFreely, AllocateUnits
<1>5. CASE AllocateOnBw(s, n)
  <2> DEFINE d == AllocableBw(s, n) \div W[s]
  <2>1. d \in Nat
    BY <1>1, OffersAre, ParametersAre
  <2>2. crashed' = TRUE \/ (d # 0 /\ Give(s, n, d))
    BY <1>5 DEF AllocateOnBw
  <2> HIDE DEF d
  <2>3. QED
    BY <2>1, <2>2
<1>6. QED
  BY <1>4, <1>5 DEF AllocateOneSnic

(* For every pipeline and cluster: as long as a NIC is found and resource_get_one_hot does
   not end the script, each turn of the loops makes less what is still to do, so that the
   loops take no more turns than there are units demanded and stages. *)
THEOREM EveryTurnCounts ==
  Spec => [][~crashed' /\ ~fellBack' => Owed \in Nat /\ Owed' \in Nat /\ Owed' < Owed]_vars
<1>1. ASSUME TypeOK, TypeOK', Next, ~crashed', ~fellBack' PROVE Owed' < Owed
  <2>0. /\ s \in Int /\ NbStages \in Int /\ G \in [S -> Nat] /\ G' \in [S -> Nat]
        /\ Total(G) \in Nat
    BY <1>1, OwedIs, AllocationAssumption DEF TypeOK
  <2>a. Total(G') \in Nat
    BY <2>0, FiniteIs, TotalCount
  <2>b. Owed' = Total(G') + (NbStages - s')
    BY Zenon DEF Owed
  <2>c. Owed = Total(G) + (NbStages - s)
    BY Zenon DEF Owed
  <2>1. CASE Place
    <3>1. PICK n \in BestNics(s) : AllocateOneSnic(s, n)
      BY <2>1 DEF Place
    <3>2. s \in S /\ G[s] # 0 /\ s' = s /\ n \in Acceptable(s)
      BY <2>1 DEF Place, Running, BestNics
    <3>3. PICK units \in Nat \ {0} : Give(s, n, units)
      BY <1>1, <3>1, <3>2, PlaceGives
    <3>4. /\ G \in [S -> Int] /\ G' \in [S -> Int] /\ \A st \in S : st # s => G'[st] = G[st]
          /\ G'[s] = G[s] - units
      BY <2>0, <3>2, <3>3 DEF Give
    <3> DEFINE f == G
               g == G'
    <3>5. /\ f \in [S -> Int] /\ g \in [S -> Int] /\ \A st \in S : st # s => g[st] = f[st]
      BY <3>4
    <3> HIDE DEF f, g
    <3>6. Total(g) = Total(f) + (g[s] - f[s])
      <4>1. IsFiniteSet(S) /\ s \in S
        BY <3>2, FiniteIs
      <4>2. QED
        BY ONLY <3>5, <4>1, TotalChange
    <3>7. Total(G') = Total(G) + (G'[s] - G[s])
      BY <3>6, Zenon DEF f, g
    <3>8. G[s] \in Nat
      BY <2>0, <3>2
    <3>9. QED
      BY <2>0, <2>a, <2>b, <2>c, <3>2, <3>4, <3>7, <3>8
  <2>2. CASE FallBack
    BY <1>1, <2>2 DEF FallBack
  <2>3. CASE NextStage
    <3>1. s' = s + 1 /\ G' = G
      BY <2>3 DEF NextStage
    <3>2. Total(G') = Total(G)
      BY <3>1, Zenon
    <3>3. QED
      BY <2>0, <2>a, <2>b, <2>c, <3>1, <3>2
  <2>4. QED
    BY <1>1, <2>1, <2>2, <2>3 DEF Next
<1>2. TypeOK /\ TypeOK' => Owed \in Nat /\ Owed' \in Nat
  <2>1. TypeOK => Owed \in Nat
    BY OwedIs
  <2>2. (TypeOK => Owed \in Nat)'
    BY <2>1, PTL
  <2>3. QED
    BY <2>1, <2>2
<1>3. TypeOK /\ TypeOK' /\ [Next]_vars
        => [~crashed' /\ ~fellBack' => Owed \in Nat /\ Owed' \in Nat /\ Owed' < Owed]_vars
  BY <1>1, <1>2
<1>4. QED
  BY <1>3, TypeCorrect, PTL DEF Spec

=============================================================================
