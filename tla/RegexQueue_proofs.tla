--------------------------- MODULE RegexQueue_proofs ---------------------------
(***************************************************************************)
(* Proofs about the regex queue, for every size of a batch and of the      *)
(* queue pair, any number of packets and any order of the answers: each    *)
(* packet is searched once, the counters are exact, and no step of a push  *)
(* undoes what another has done.                                           *)
(***************************************************************************)
EXTENDS RegexQueue, SequenceTheorems, FiniteSetTheorems, TLAPS

USE RegexAssumption

-----------------------------------------------------------------------------
(***************************************************************************)
(* The inductive invariant.  TypeOK alone does not carry over a call: that *)
(* the batch stays in its array needs that a call starts with room in it,  *)
(* and that the queue pair stays within its descriptors needs that what a  *)
(* push hands over is not in it yet.  The packets are staged in the order  *)
(* of the calls, so those handed over are the calls up to a number.        *)
(***************************************************************************)
BatchOpen == pc \in {"idle", "pull"} => Len(staged) < BatchSize /\ num_enqueued = 0

\* The packets that the accelerator has been given: all but the rest of the batch.
Given == (seen - Len(staged)) + num_enqueued

\* The batch has the last packets, and those given are in one of two places.
GivenOnce ==
  /\ Len(staged) <= seen
  /\ \A i \in 1 .. Len(staged) : staged[i] = (seen - Len(staged)) + i
  /\ device \cup responses = 1 .. Given
  /\ device \cap responses = {}

Inv == TypeOK /\ BatchOpen /\ GivenOnce

\* What is taken is a part of what is there to take.
LEMMA LesserIs ==
  ASSUME NEW a \in Nat, NEW b \in Nat
  PROVE  Lesser(a, b) \in 0 .. a /\ Lesser(a, b) \in 0 .. b
BY DEF Lesser

\* The sizes of the batch, of the queue pair and of what is answered in it.
LEMMA SizesAre ==
  ASSUME TypeOK
  PROVE  /\ Len(staged) \in Nat /\ num_enqueued \in 0 .. Len(staged) /\ seen \in Nat
         /\ IsFiniteSet(device) /\ Cardinality(device) \in 0 .. QueueDepth
         /\ IsFiniteSet(answered) /\ Cardinality(answered) \in 0 .. Cardinality(device)
         /\ (Cardinality(answered) = 0 <=> answered = {})
<1>1. Len(staged) \in Nat /\ num_enqueued \in 0 .. Len(staged) /\ seen \in Nat
  BY LenProperties DEF TypeOK
<1>2. IsFiniteSet(device) /\ Cardinality(device) <= QueueDepth /\ answered \in SUBSET device
  BY DEF TypeOK
<1>3. Cardinality(device) \in Nat
  BY <1>2, FS_CardinalityType
<1>4. IsFiniteSet(answered) /\ Cardinality(answered) <= Cardinality(device)
  BY <1>2, FS_Subset
<1>5. Cardinality(answered) \in Nat
  BY <1>4, FS_CardinalityType
<1>6. Cardinality(answered) = 0 <=> answered = {}
  BY <1>4, FS_EmptySet
<1>7. QED
  BY <1>1, <1>2, <1>3, <1>4, <1>5, <1>6

\* A turn of the push loop never takes more than the batch or the free descriptors.
LEMMA AcceptedIs ==
  ASSUME TypeOK
  PROVE  /\ Accepted \in 0 .. Len(staged) - num_enqueued
         /\ Accepted \in 0 .. QueueDepth - Cardinality(device)
<1>1. Len(staged) - num_enqueued \in Nat /\ QueueDepth - Cardinality(device) \in Nat
  BY SizesAre
<1>2. QED
  BY <1>1, LesserIs DEF Accepted

\* The next operations of the batch are the packets after those given.
LEMMA NextPieceIs ==
  ASSUME Inv, NEW k \in 0 .. Len(staged) - num_enqueued
  PROVE  /\ Given \in Nat
         /\ Piece(num_enqueued + 1, num_enqueued + k) = Given + 1 .. Given + k
<1> DEFINE n == Len(staged)
           m == num_enqueued
           first == seen - n
<1>1. /\ n \in Nat /\ m \in 0 .. n /\ seen \in Nat /\ n <= seen
      /\ \A i \in 1 .. n : staged[i] = first + i
  BY SizesAre DEF Inv, GivenOnce
<1>2. first \in Nat /\ k \in 0 .. n - m
  BY <1>1
<1>3. Given = first + m /\ Piece(m + 1, m + k) = {staged[i] : i \in m + 1 .. m + k}
  BY DEF Given, Piece
<1> HIDE DEF n, m, first
<1>4. ASSUME NEW i \in m + 1 .. m + k PROVE staged[i] \in first + m + 1 .. first + m + k
  <2>1. i \in 1 .. n
    BY <1>1, <1>2
  <2>2. QED
    BY <1>1, <1>2, <2>1
<1>5. ASSUME NEW x \in first + m + 1 .. first + m + k
      PROVE  \E i \in m + 1 .. m + k : x = staged[i]
  <2>1. x - first \in m + 1 .. m + k /\ x - first \in 1 .. n /\ x = first + (x - first)
    BY <1>1, <1>2
  <2>2. QED
    BY <1>1, <2>1
<1>6. {staged[i] : i \in m + 1 .. m + k} = first + m + 1 .. first + m + k
  BY <1>4, <1>5
<1>7. Given \in Nat
  BY <1>1, <1>2, <1>3
<1>8. QED
  BY <1>3, <1>6, <1>7 DEF m

\* What a push hands over was not in the queue pair, so that it holds as many more.
LEMMA EnqueueGives ==
  ASSUME Inv, Enqueue
  PROVE  /\ device' = device \cup (Given + 1 .. Given + Accepted)
         /\ device' \in SUBSET Nat /\ IsFiniteSet(device')
         /\ Cardinality(device') = Cardinality(device) + Accepted
         /\ Given' = Given + Accepted
<1> DEFINE piece == Given + 1 .. Given + Accepted
<1>1. /\ Accepted \in Nat /\ Accepted \in 0 .. Len(staged) - num_enqueued
      /\ device \in SUBSET Nat /\ IsFiniteSet(device) /\ Cardinality(device) \in Nat
  BY AcceptedIs, SizesAre DEF Inv, TypeOK
<1>2. Given \in Nat /\ Piece(num_enqueued + 1, num_enqueued + Accepted) = piece
  BY <1>1, NextPieceIs
<1>3. device' = device \cup piece
  BY <1>2 DEF Enqueue
<1>4. IsFiniteSet(piece) /\ Cardinality(piece) = Accepted
  <2> DEFINE a == Given + 1
             b == Given + Accepted
  <2>1. /\ a \in Int /\ b \in Int /\ (a > b <=> Accepted = 0) /\ b - a + 1 = Accepted
        /\ piece = a .. b
    BY <1>1, <1>2
  <2> HIDE DEF a, b, piece
  <2>2. IsFiniteSet(a .. b) /\ Cardinality(a .. b) = IF a > b THEN 0 ELSE b - a + 1
    BY ONLY <2>1, FS_Interval
  <2>3. QED
    BY <2>1, <2>2
<1>5. device \cap piece = {}
  <2>1. device \subseteq 1 .. Given
    BY DEF Inv, GivenOnce
  <2>2. QED
    BY <1>1, <1>2, <2>1
<1>6. piece \in SUBSET Nat
  BY <1>1, <1>2
<1>7. Given' = Given + Accepted
  <2>1. seen \in Nat /\ Len(staged) \in Nat /\ num_enqueued \in Nat
    BY SizesAre DEF Inv
  <2>2. QED
    BY <1>1, <2>1 DEF Given, Enqueue
<1> HIDE DEF piece
<1>8. IsFiniteSet(device \cup piece) /\ Cardinality(device \cup piece) = Cardinality(device) + Accepted
  <2>1. /\ IsFiniteSet(device \cup piece)
        /\ Cardinality(device \cup piece) =
             Cardinality(device) + Cardinality(piece) - Cardinality(device \cap piece)
    BY <1>1, <1>4, FS_Union
  <2>2. Cardinality(device \cap piece) = 0
    BY <1>5, FS_EmptySet, Zenon
  <2>3. QED
    BY <1>1, <1>4, <2>1, <2>2
<1>9. QED
  BY <1>1, <1>3, <1>6, <1>7, <1>8 DEF piece

\* What a pull takes out of the queue pair and of what is answered in it.
Took(ops) ==
  /\ ops \in SUBSET answered /\ ops \in SUBSET device
  /\ responses' = responses \cup ops
  /\ device' = device \ ops
  /\ answered' = answered \ ops
  /\ total_dequeued' = total_dequeued + Cardinality(ops)
  /\ Cardinality(ops) \in 0 .. Cardinality(answered)
  /\ (Cardinality(ops) = 0 => answered = {})
  /\ IsFiniteSet(device')
  /\ Cardinality(device') = Cardinality(device) - Cardinality(ops)
  /\ Cardinality(answered') = Cardinality(answered) - Cardinality(ops)

\* Whichever answered operations a burst returns, they leave the queue pair.
LEMMA DequeueTakes ==
  ASSUME Inv, Dequeue
  PROVE  \E ops : Took(ops)
<1>1. PICK ops \in Bursts :
        /\ responses' = responses \cup ops
        /\ device' = device \ ops
        /\ answered' = answered \ ops
        /\ total_dequeued' = total_dequeued + Cardinality(ops)
  BY DEF Dequeue
<1>2. /\ IsFiniteSet(device) /\ Cardinality(device) \in Nat
      /\ IsFiniteSet(answered) /\ Cardinality(answered) \in Nat
      /\ (Cardinality(answered) = 0 <=> answered = {})
      /\ answered \in SUBSET device /\ BatchSize \in Nat \ {0}
  BY SizesAre DEF Inv, TypeOK
<1>3. /\ ops \in SUBSET answered /\ ops \in SUBSET device
      /\ Cardinality(ops) = Lesser(BatchSize, Cardinality(answered))
  BY <1>1, <1>2 DEF Bursts
<1>4. /\ Cardinality(ops) \in 0 .. Cardinality(answered)
      /\ (Cardinality(ops) = 0 => answered = {})
  BY <1>2, <1>3 DEF Lesser
<1>5. device \cap ops = ops /\ answered \cap ops = ops
  BY <1>3
<1>6. /\ IsFiniteSet(device \ ops)
      /\ Cardinality(device \ ops) = Cardinality(device) - Cardinality(ops)
  BY <1>2, <1>5, FS_Difference
<1>7. Cardinality(answered \ ops) = Cardinality(answered) - Cardinality(ops)
  BY <1>2, <1>5, FS_Difference
<1>8. Took(ops)
  BY <1>1, <1>3, <1>4, <1>6, <1>7 DEF Took
<1>9. QED
  BY <1>8

\* The first call finds everything empty.
LEMMA InvInit == Init => Inv
<1> SUFFICES ASSUME Init PROVE Inv
  OBVIOUS
<1>1. staged = <<>> /\ staged \in Seq(Nat) /\ Len(staged) = 0
  BY EmptySeq DEF Init
<1>2. TypeOK
  BY <1>1, FS_EmptySet DEF Init, TypeOK
<1>3. Given = 0
  <2>1. seen = 0 /\ num_enqueued = 0 /\ Len(staged) = 0
    BY <1>1 DEF Init
  <2>2. QED
    BY ONLY <2>1 DEF Given
<1>4. QED
  BY <1>1, <1>2, <1>3 DEF Init, Inv, BatchOpen, GivenOnce

\* What a call, an answer and a release leave of it.
LEMMA InvStep == Inv /\ [Next]_vars => Inv'
<1> SUFFICES ASSUME Inv, [Next]_vars PROVE Inv'
  OBVIOUS
<1> USE DEF Inv, BatchOpen
<1>0. /\ Len(staged) \in Nat /\ num_enqueued \in 0 .. Len(staged) /\ seen \in Nat
      /\ staged \in Seq(Nat) /\ Cardinality(device) \in Nat
      /\ IsFiniteSet(device) /\ IsFiniteSet(answered) /\ Cardinality(answered) \in Nat
  BY SizesAre DEF TypeOK
<1>1. CASE Search
  <2>1. seen' = seen + 1 /\ seen' \in 0 .. MaxPkts /\ freed' \in 0 .. seen'
    BY <1>1 DEF Search, TypeOK
  <2>2. /\ staged' \in Seq(Nat) /\ Len(staged') = Len(staged) + 1
        /\ \A i \in 1 .. Len(staged) : staged'[i] = staged[i]
        /\ staged'[Len(staged) + 1] = seen + 1
    BY <1>0, <1>1, AppendProperties, seen + 1 \in Nat DEF Search
  <2>3. Len(staged') <= BatchSize /\ num_enqueued' = 0 /\ num_enqueued = 0
    BY <1>0, <1>1, <2>2 DEF Search
  <2>4. pc' \in {"push", "pull"} /\ (pc' = "pull" => Len(staged') < BatchSize)
    BY <1>0, <1>1, <2>2, <2>3 DEF Search, BatchFull
  <2>5. TypeOK'
    BY <1>0, <1>1, <2>1, <2>2, <2>3, <2>4 DEF Search, TypeOK
  <2>6. GivenOnce'
    <3>1. Given' = Given
      BY <1>0, <2>1, <2>2, <2>3 DEF Given
    <3>2. \A i \in 1 .. Len(staged') : staged'[i] = (seen' - Len(staged')) + i
      <4>1. ASSUME NEW i \in 1 .. Len(staged') PROVE staged'[i] = (seen' - Len(staged')) + i
        <5>1. i \in 1 .. Len(staged) \/ i = Len(staged) + 1
          BY <1>0, <2>2
        <5>2. seen' - Len(staged') = seen - Len(staged)
          BY <1>0, <2>1, <2>2
        <5>3. CASE i \in 1 .. Len(staged)
          BY <2>2, <5>2, <5>3 DEF GivenOnce
        <5>4. CASE i = Len(staged) + 1
          BY <1>0, <2>2, <5>2, <5>4
        <5>5. QED
          BY <5>1, <5>3, <5>4
      <4>2. QED
        BY <4>1
    <3>3. Len(staged') <= seen'
      BY <1>0, <2>1, <2>2 DEF GivenOnce
    <3>4. device' = device /\ responses' = responses
      BY <1>1 DEF Search
    <3>5. QED
      BY <3>1, <3>2, <3>3, <3>4 DEF GivenOnce
  <2>7. QED
    BY <2>3, <2>4, <2>5, <2>6
<1>2. CASE Enqueue
  <2>1. /\ Accepted \in 0 .. Len(staged) - num_enqueued
        /\ Accepted \in 0 .. QueueDepth - Cardinality(device)
    BY AcceptedIs
  <2>2. /\ device' = device \cup (Given + 1 .. Given + Accepted)
        /\ device' \in SUBSET Nat /\ IsFiniteSet(device')
        /\ Cardinality(device') = Cardinality(device) + Accepted
        /\ Given' = Given + Accepted
    BY <1>2, EnqueueGives
  <2>3. num_enqueued' \in 0 .. Len(staged) /\ Cardinality(device') <= QueueDepth
    BY <1>0, <1>2, <2>1, <2>2 DEF Enqueue
  <2>4. answered' \in SUBSET device'
    BY <1>2, <2>2 DEF Enqueue, TypeOK
  <2>5. TypeOK' /\ BatchOpen'
    BY <1>2, <2>2, <2>3, <2>4 DEF Enqueue, TypeOK
  <2>6. GivenOnce'
    <3>1. Given \in Nat /\ Accepted \in Nat
      BY <1>0, <2>1, NextPieceIs
    <3>2. /\ device \cup responses = 1 .. Given /\ device \cap responses = {}
          /\ responses' = responses
      BY <1>2 DEF Enqueue, GivenOnce
    <3>3. device' \cup responses' = 1 .. Given'
      <4>1. 1 .. Given + Accepted = (1 .. Given) \cup (Given + 1 .. Given + Accepted)
        BY <3>1
      <4>2. QED
        BY <2>2, <3>2, <4>1
    <3>4. device' \cap responses' = {}
      <4>1. (1 .. Given) \cap (Given + 1 .. Given + Accepted) = {}
        BY <3>1
      <4>2. QED
        BY <2>2, <3>2, <4>1
    <3>5. staged' = staged /\ seen' = seen
      BY <1>2 DEF Enqueue
    <3>6. QED
      BY <3>3, <3>4, <3>5 DEF GivenOnce
  <2>7. QED
    BY <2>5, <2>6
<1>3. CASE Dequeue
  <2>1. PICK ops : Took(ops)
    BY <1>3, DequeueTakes
  <2>2. /\ staged' = staged /\ num_enqueued' = num_enqueued /\ seen' = seen
        /\ freed' = freed /\ total_enqueued' = total_enqueued
        /\ pc' \in {"push", "idle"} /\ (pc' = "idle" => pc = "pull")
    BY <1>3 DEF Dequeue
  <2>3. /\ device' \in SUBSET Nat /\ IsFiniteSet(device') /\ Cardinality(device') <= QueueDepth
        /\ answered' \in SUBSET device' /\ responses' \in SUBSET Nat /\ total_dequeued' \in Nat
    <3>1. ops \in SUBSET device /\ Cardinality(ops) \in Nat
      BY <1>0, <2>1 DEF Took
    <3>2. device \in SUBSET Nat /\ responses \in SUBSET Nat /\ Cardinality(device) <= QueueDepth
          /\ answered \in SUBSET device /\ total_dequeued \in Nat
      BY DEF TypeOK
    <3>3. Cardinality(device') <= QueueDepth
      BY <1>0, <2>1, <3>1, <3>2 DEF Took
    <3>4. QED
      BY <2>1, <3>1, <3>2, <3>3 DEF Took
  <2>4. TypeOK' /\ BatchOpen'
    BY <2>2, <2>3 DEF TypeOK
  <2>5. GivenOnce'
    <3>1. Given' = Given
      BY <2>2 DEF Given
    <3>2. device' \cup responses' = device \cup responses /\ device' \cap responses' = {}
      BY <2>1 DEF Took, GivenOnce
    <3>3. QED
      BY <2>2, <3>1, <3>2 DEF GivenOnce
  <2>6. QED
    BY <2>4, <2>5
<1>4. CASE Pushed
  <2>1. staged' = <<>> /\ staged' \in Seq(Nat) /\ Len(staged') = 0
    BY <1>4, EmptySeq DEF Pushed
  <2>2. TypeOK' /\ BatchOpen'
    BY <1>0, <1>4, <2>1 DEF Pushed, TypeOK
  <2>3. GivenOnce'
    <3>1. Given' = Given
      BY <1>0, <1>4, <2>1 DEF Pushed, Given
    <3>2. QED
      BY <1>0, <1>4, <2>1, <3>1 DEF Pushed, GivenOnce
  <2>4. QED
    BY <2>2, <2>3
<1>5. CASE Answer
  BY <1>5 DEF Answer, TypeOK, GivenOnce, Given
<1>6. CASE Free
  BY <1>0, <1>6 DEF Free, TypeOK, GivenOnce, Given
<1>7. CASE UNCHANGED vars
  BY <1>7 DEF vars, TypeOK, GivenOnce, Given
<1>8. QED
  BY <1>1, <1>2, <1>3, <1>4, <1>5, <1>6, <1>7 DEF Next, InCall

(* search_live never writes behind the last entry of the batch, and the queue pair
   is never given more operations than it has descriptors for. *)
THEOREM RegexTypes == Spec => []TypeOK
<1>1. Inv => TypeOK
  BY DEF Inv
<1>2. QED
  BY InvInit, InvStep, <1>1, PTL DEF Spec

(* Every packet passed to regex() is searched once, for every size of a batch and of
   the queue pair and every order of the answers: a push that the queue pair takes in
   pieces neither repeats nor skips an operation, and no response is taken twice. *)
THEOREM EachSearchedOnce == Spec => []SearchedOnce
<1>1. Inv => SearchedOnce
  <2> SUFFICES ASSUME Inv PROVE SearchedOnce
    OBVIOUS
  <2> DEFINE k == Len(staged) - num_enqueued
             rest == Piece(num_enqueued + 1, Len(staged))
  <2>1. /\ Len(staged) \in Nat /\ num_enqueued \in 0 .. Len(staged) /\ seen \in Nat
        /\ Len(staged) <= seen
    BY SizesAre DEF Inv, GivenOnce
  <2>2. k \in 0 .. Len(staged) - num_enqueued /\ num_enqueued + k = Len(staged)
    BY <2>1
  <2>3. Given \in Nat /\ rest = Given + 1 .. Given + k
    BY <2>2, NextPieceIs
  <2>4. Given + k = seen
    BY <2>1 DEF Given
  <2>5. rest = Given + 1 .. seen /\ Given <= seen
    BY <2>2, <2>3, <2>4
  <2> HIDE DEF rest
  <2>6. /\ device \cup responses = 1 .. Given /\ device \cap responses = {}
    BY DEF Inv, GivenOnce
  <2>7. /\ (1 .. Given) \cup (Given + 1 .. seen) = 1 .. seen
        /\ (1 .. Given) \cap (Given + 1 .. seen) = {}
    BY <2>1, <2>3, <2>5
  <2>8. /\ rest \cup device \cup responses = 1 .. seen
        /\ rest \cap device = {} /\ rest \cap responses = {}
    BY <2>5, <2>6, <2>7
  <2>9. QED
    BY <2>6, <2>8 DEF SearchedOnce, rest
<1>2. QED
  BY InvInit, InvStep, <1>1, PTL DEF Spec

-----------------------------------------------------------------------------
(* total_enqueued and total_dequeued differ by the operations in flight, whatever
   the size of a batch, however a push is split: post_search may rely on them. *)
LEMMA CountersStep == Inv /\ CountersExact /\ [Next]_vars => CountersExact'
<1> SUFFICES ASSUME Inv, CountersExact, [Next]_vars PROVE CountersExact'
  OBVIOUS
<1>0. /\ Len(staged) \in Nat /\ Cardinality(device) \in Nat /\ num_enqueued \in Nat
      /\ total_enqueued \in Nat /\ total_dequeued \in Nat /\ Cardinality(answered) \in Nat
  BY SizesAre DEF Inv, TypeOK
<1> USE DEF CountersExact
<1>1. CASE Search
  BY <1>1 DEF Search
<1>2. CASE Enqueue
  <2>1. Accepted \in Nat
    BY <1>0, AcceptedIs DEF Inv
  <2>2. Cardinality(device') = Cardinality(device) + Accepted
    BY <1>2, EnqueueGives
  <2>3. /\ num_enqueued' = num_enqueued + Accepted
        /\ total_enqueued' = total_enqueued /\ total_dequeued' = total_dequeued
    BY <1>2 DEF Enqueue
  <2>4. /\ num_enqueued \in Nat /\ total_enqueued \in Nat /\ total_dequeued \in Nat
        /\ Cardinality(device) \in Nat
        /\ total_enqueued + num_enqueued - total_dequeued = Cardinality(device)
    BY <1>0
  <2>5. total_enqueued + (num_enqueued + Accepted) - total_dequeued = Cardinality(device) + Accepted
    BY ONLY <2>1, <2>4
  <2>6. QED
    BY <2>2, <2>3, <2>5
<1>3. CASE Dequeue
  <2>1. PICK ops : Took(ops)
    BY <1>3, DequeueTakes
  <2>2. /\ Cardinality(ops) \in Nat
        /\ Cardinality(device') = Cardinality(device) - Cardinality(ops)
        /\ total_dequeued' = total_dequeued + Cardinality(ops)
    BY <1>0, <2>1 DEF Took
  <2>3. total_enqueued' = total_enqueued /\ num_enqueued' = num_enqueued
    BY <1>3 DEF Dequeue
  <2>4. QED
    BY <1>0, <2>2, <2>3
<1>4. CASE Pushed
  BY <1>0, <1>4 DEF Pushed
<1>5. CASE Answer
  BY <1>5 DEF Answer
<1>6. CASE Free
  BY <1>6 DEF Free
<1>7. CASE UNCHANGED vars
  BY <1>7 DEF vars
<1>8. QED
  BY <1>1, <1>2, <1>3, <1>4, <1>5, <1>6, <1>7 DEF Next, InCall

(* The two totals that post_search compares account for exactly the operations in
   the queue pair, in every state of every call. *)
THEOREM CountersStayExact == Spec => []CountersExact
<1>1. Init => CountersExact
  BY FS_EmptySet DEF Init, CountersExact
<1>2. QED
  BY InvInit, InvStep, CountersStep, <1>1, PTL DEF Spec

-----------------------------------------------------------------------------
\* The worker is in the loop that pushes a batch.
InPush == pc \in {"push", "poll"}

\* What a push still has to do: an operation is to be handed over, answered, pulled.
PushWork ==
  3 * (Len(staged) - num_enqueued)
    + 2 * (Cardinality(device) - Cardinality(answered)) + Cardinality(answered)

\* A step of the push took something further.
WorkDone == PushWork \in Nat /\ PushWork' \in Nat /\ PushWork' < PushWork

\* A step of the push moved nothing: a hand-over found the queue pair full, so a
\* response is there to pull or an operation to answer; a pull found no response.
WaitsForAnswer ==
  /\ UNCHANGED <<staged, num_enqueued, device, answered>>
  /\ pc = "push" /\ pc' = "poll" =>
       Cardinality(device) = QueueDepth /\ (answered # {} \/ device \ answered # {})
  /\ pc = "poll" /\ pc' = "push" => answered = {}

\* What is left to do is a number, whatever the state of the batch.
LEMMA PushWorkIs == Inv => PushWork \in Nat
<1> SUFFICES ASSUME Inv PROVE PushWork \in Nat
  OBVIOUS
<1> DEFINE l == Len(staged)
           d == Cardinality(device)
           a == Cardinality(answered)
<1>1. l \in Nat /\ num_enqueued \in 0 .. l /\ d \in Nat /\ a \in 0 .. d
  BY SizesAre DEF Inv
<1> HIDE DEF l, d, a
<1>2. PushWork = 3 * (l - num_enqueued) + 2 * (d - a) + a
  BY Zenon DEF l, d, a, PushWork
<1>3. QED
  BY <1>1, <1>2

\* A step inside a push gets on or waits for the accelerator.
LEMMA PushStep ==
  Inv /\ Inv' /\ [Next]_vars => (InPush /\ InPush' => WorkDone \/ WaitsForAnswer)
<1> SUFFICES ASSUME Inv, Inv', [Next]_vars, InPush, InPush'
             PROVE  WorkDone \/ WaitsForAnswer
  OBVIOUS
<1> DEFINE l == Len(staged)
           d == Cardinality(device)
           a == Cardinality(answered)
<1>0. /\ l \in Nat /\ num_enqueued \in 0 .. l /\ d \in 0 .. QueueDepth /\ a \in 0 .. d
      /\ (a = 0 <=> answered = {})
      /\ QueueDepth \in Nat \ {0} /\ BatchSize \in Nat \ {0}
      /\ answered \in SUBSET device /\ IsFiniteSet(device) /\ IsFiniteSet(answered)
  BY SizesAre DEF Inv, TypeOK
<1>w. PushWork = 3 * (l - num_enqueued) + 2 * (d - a) + a
  BY Zenon DEF PushWork
<1>1. PushWork \in Nat
  BY PushWorkIs
<1>2. PushWork' \in Nat
  <2>1. (Inv => PushWork \in Nat)'
    BY PushWorkIs, PTL
  <2>2. QED
    BY <2>1
<1>3. CASE Search
  BY <1>3 DEF Search, InPush
<1>4. CASE Enqueue
  <2>1. Accepted \in 0 .. l - num_enqueued /\ Accepted \in 0 .. QueueDepth - d
    BY AcceptedIs DEF Inv
  <2>2. /\ staged' = staged /\ num_enqueued' = num_enqueued + Accepted
        /\ Cardinality(device') = d + Accepted /\ answered' = answered
        /\ device' = device \cup (Given + 1 .. Given + Accepted)
        /\ num_enqueued < l /\ pc = "push" /\ pc' = "poll"
    BY <1>4, EnqueueGives DEF Enqueue
  <2>3. CASE Accepted = 0
    <3>1. d = QueueDepth
      <4>1. l - num_enqueued \in Nat /\ l - num_enqueued # 0 /\ QueueDepth - d \in Nat
        BY <1>0, <2>2
      <4>2. Lesser(l - num_enqueued, QueueDepth - d) = 0
        BY <2>3 DEF Accepted
      <4>3. QueueDepth - d = 0
        BY <4>1, <4>2 DEF Lesser
      <4>4. QED
        BY <1>0, <4>3
    <3>2. answered # {} \/ device \ answered # {}
      <4>1. device # {}
        BY <1>0, <3>1, FS_EmptySet
      <4>2. QED
        BY <4>1
    <3>3. num_enqueued' = num_enqueued
      BY <1>0, <2>2, <2>3
    <3>4. device' = device
      <4>1. Given \in Nat
        BY <1>0, <2>1, NextPieceIs
      <4>2. Given + 1 .. Given + Accepted = {}
        BY <2>3, <4>1
      <4>3. QED
        BY <2>2, <4>2
    <3>5. QED
      BY <2>2, <3>1, <3>2, <3>3, <3>4 DEF WaitsForAnswer
  <2>4. CASE Accepted # 0
    <3>1. PushWork' = 3 * (l - (num_enqueued + Accepted)) + 2 * ((d + Accepted) - a) + a
      BY <2>2, Zenon DEF PushWork
    <3> HIDE DEF l, d, a
    <3>2. PushWork' < PushWork
      BY <1>0, <1>w, <2>1, <2>4, <3>1
    <3>3. QED
      BY <1>1, <1>2, <3>2 DEF WorkDone
  <2>5. QED
    BY <2>3, <2>4
<1>5. CASE Dequeue
  <2>1. PICK ops : Took(ops)
    BY <1>5, DequeueTakes
  <2> DEFINE n == Cardinality(ops)
  <2>2. /\ ops \in SUBSET device
        /\ n \in 0 .. a /\ (n = 0 => answered = {})
        /\ Cardinality(device') = d - n /\ Cardinality(answered') = a - n
        /\ device' = device \ ops /\ answered' = answered \ ops
    BY <2>1 DEF Took
  <2>3. pc = "poll" /\ pc' = "push" /\ staged' = staged /\ num_enqueued' = num_enqueued
    BY <1>5 DEF Dequeue, InPush
  <2>4. CASE n = 0
    <3>1. answered = {} /\ ops = {}
      BY <2>1, <2>2, <2>4 DEF Took
    <3>2. device' = device /\ answered' = answered
      BY <2>2, <3>1
    <3>3. QED
      BY <2>3, <3>1, <3>2 DEF WaitsForAnswer
  <2>5. CASE n # 0
    <3>1. PushWork' = 3 * (l - num_enqueued) + 2 * ((d - n) - (a - n)) + (a - n)
      BY <2>2, <2>3, Zenon DEF PushWork
    <3> HIDE DEF l, d, a, n
    <3>2. PushWork' < PushWork
      BY <1>0, <1>w, <2>2, <2>5, <3>1
    <3>3. QED
      BY <1>1, <1>2, <3>2 DEF WorkDone
  <2>6. QED
    BY <2>4, <2>5
<1>6. CASE Pushed
  BY <1>6 DEF Pushed, InPush
<1>7. CASE Answer
  <2>1. PICK op \in device \ answered : answered' = answered \cup {op}
    BY <1>7 DEF Answer
  <2>2. Cardinality(answered') = a + 1
    BY <1>0, <2>1, FS_AddElement
  <2>3. a + 1 \in 0 .. d
    <3>1. answered' \in SUBSET device
      BY <1>0, <2>1
    <3>2. Cardinality(answered') <= d
      BY <1>0, <3>1, FS_Subset
    <3>3. QED
      BY <1>0, <2>2, <3>2
  <2>4. PushWork' = 3 * (l - num_enqueued) + 2 * (d - (a + 1)) + (a + 1)
    BY <1>7, <2>2, Zenon DEF Answer, PushWork
  <2> HIDE DEF l, d, a
  <2>5. PushWork' < PushWork
    BY <1>0, <1>w, <2>3, <2>4
  <2>6. QED
    BY <1>1, <1>2, <2>5 DEF WorkDone
<1>8. CASE Free
  BY <1>8 DEF Free, WaitsForAnswer
<1>9. CASE UNCHANGED vars
  BY <1>9 DEF vars, WaitsForAnswer
<1>10. QED
  BY <1>3, <1>4, <1>5, <1>6, <1>7, <1>8, <1>9 DEF Next, InCall

(* The step of PushReturns: whatever the sizes, each step of worker and accelerator
   during a push of meili_regex brings it nearer its end, or it waits at a full queue
   pair in which there is something to pull or to answer; nothing is undone. *)
THEOREM PushGetsOn == Spec => [][InPush /\ InPush' => WorkDone \/ WaitsForAnswer]_vars
<1>1. Inv /\ Inv' /\ [Next]_vars =>
        [InPush /\ InPush' => WorkDone \/ WaitsForAnswer]_vars
  BY PushStep
<1>2. QED
  BY InvInit, InvStep, <1>1, PTL DEF Spec

=============================================================================
