--------------------------- MODULE DataPlane_proofs ---------------------------
(***************************************************************************)
(* Proofs about the data plane, for every number of instances and every    *)
(* ring and batch size that SizesAssumption allows: that main and a worker *)
(* never wait for each other, that main deals out only what it holds, that *)
(* the data plane implements PathService, that each packet is in one place *)
(* and main's count of those in flight is right, that packets of one path  *)
(* leave it in order, and the steps on which the end of a run rests.       *)
(***************************************************************************)
EXTENDS DataPlane, SequenceTheorems, FiniteSetTheorems, TLAPS

USE SizesAssumption

-----------------------------------------------------------------------------
(* Facts about the helpers.                                                *)

\* The round robin steps to the next instance and wraps after the last one.
LEMMA NextInstIs ==
  ASSUME NEW i \in Inst
  PROVE  /\ NextInst(i) \in Inst
         /\ NextInst(i) = IF i = NbInst - 1 THEN 0 ELSE i + 1
BY DEF NextInst, Inst

\* Taking n packets off a queue splits it into n packets and the others.
LEMMA TakeDrop ==
  ASSUME NEW s \in Seq(Nat), NEW n \in 0 .. Len(s)
  PROVE  /\ Take(s, n) \in Seq(Nat) /\ Len(Take(s, n)) = n
         /\ Drop(s, n) \in Seq(Nat) /\ Len(Drop(s, n)) = Len(s) - n
BY DEF Take, Drop

\* Taking all packets off a queue leaves none.
LEMMA DropAll ==
  ASSUME NEW s \in Seq(Nat)
  PROVE  Len(Drop(s, Len(s))) = 0
BY TakeDrop, SMTT(30)

\* Instance 0 exists.
LEMMA FirstInst == 0 \in Inst
BY DEF Inst

\* A burst is no more than what there is to move and than the room found for it.
LEMMA BurstFits ==
  ASSUME NEW a \in Nat, NEW len \in Nat, len <= RingCap,
         Lesser(a, RingCap - len) > 0
  PROVE  Lesser(a, RingCap - len) \in 0 .. a /\ Lesser(a, RingCap - len) <= RingCap - len
BY DEF Lesser

\* Queues put one behind the other.
LEMMA ConcatLen ==
  ASSUME NEW s \in Seq(Nat), NEW t \in Seq(Nat)
  PROVE  s \o t \in Seq(Nat) /\ Len(s \o t) = Len(s) + Len(t)
OBVIOUS

-----------------------------------------------------------------------------
(* Type correctness.                                                       *)

\* The types of the queues on the path through w, and their lengths.
LEMMA QueueTypes ==
  ASSUME TypeOK, NEW w \in Inst
  PROVE  /\ ring_in[w] \in Seq(Nat) /\ Len(ring_in[w]) \in 0 .. RingCap
         /\ ring_out[w] \in Seq(Nat) /\ Len(ring_out[w]) \in 0 .. RingCap
         /\ mbufs_out[w] \in Seq(Nat) /\ Len(mbufs_out[w]) \in 0 .. WorkerBurst
         /\ chunk \in Seq(Nat) /\ Len(chunk) \in 0 .. BatchIn
         /\ ring_in_index \in Inst /\ ring_out_index \in Inst
<1>1. /\ ring_in[w] \in Seq(Nat) /\ ring_out[w] \in Seq(Nat)
      /\ mbufs_out[w] \in Seq(Nat) /\ chunk \in Seq(Nat)
      /\ ring_in_index \in Inst /\ ring_out_index \in Inst
  BY DEF TypeOK
<1>2. /\ Len(ring_in[w]) <= RingCap /\ Len(ring_out[w]) <= RingCap
      /\ Len(mbufs_out[w]) <= WorkerBurst /\ Len(chunk) <= BatchIn
  BY DEF TypeOK
<1>3. \A q \in Seq(Nat) : Len(q) \in Nat
  OBVIOUS
<1>4. QED
  BY <1>1, <1>2, <1>3

\* At launch every queue is empty and every count zero.
LEMMA TypeInit == Init => TypeOK
BY DEF Init, TypeOK, Inst

\* One queue of an array of queues is replaced by one that fits.
LEMMA OneQueue ==
  ASSUME NEW f \in [Inst -> Seq(Nat)], NEW cap \in Nat,
         \A v \in Inst : Len(f[v]) <= cap,
         NEW w \in Inst, NEW q \in Seq(Nat), Len(q) <= cap
  PROVE  /\ [f EXCEPT ![w] = q] \in [Inst -> Seq(Nat)]
         /\ \A v \in Inst : Len([f EXCEPT ![w] = q][v]) <= cap
<1>1. \A v \in Inst : [f EXCEPT ![w] = q][v] = IF v = w THEN q ELSE f[v]
  OBVIOUS
<1>2. QED
  BY <1>1

\* No step of main, of a worker or of the environment leaves the types: what is put
\* into a ring is never more than the room that was found there.
LEMMA TypeStep == TypeOK /\ [Next]_vars => TypeOK'
<1> SUFFICES ASSUME TypeOK, [Next]_vars PROVE TypeOK'
  OBVIOUS
<1> USE DEF runVars, dealVars, histVars, workerVars, envVars
<1>0. /\ ring_in \in [Inst -> Seq(Nat)] /\ ring_out \in [Inst -> Seq(Nat)]
      /\ mbufs_out \in [Inst -> Seq(Nat)] /\ RingCap \in Nat /\ WorkerBurst \in Nat
      /\ \A v \in Inst : Len(ring_in[v]) <= RingCap
      /\ \A v \in Inst : Len(ring_out[v]) <= RingCap
      /\ \A v \in Inst : Len(mbufs_out[v]) <= WorkerBurst
  BY DEF TypeOK
<1>1. ASSUME NEW w \in Inst, Launch(w) PROVE TypeOK'
  BY <1>1 DEF Launch, TypeOK
<1>2. CASE StartMain
  BY <1>2 DEF StartMain, TypeOK
<1>3. CASE StartFails \/ LeaveLoop
  BY <1>3, FirstInst DEF StartFails, LeaveLoop, ToPostRun, TypeOK
<1>4. CASE PostSearch
  <2> DEFINE q == ring_out[ring_out_index]
             n == Lesser(BatchIn, Len(q))
  <2>0. /\ ring_out_index \in Inst /\ q \in Seq(Nat) /\ Len(q) <= RingCap
        /\ Len(q) \in Nat /\ flushed \in Seq(Nat)
    BY <1>0 DEF TypeOK
  <2>1. n \in 0 .. Len(q)
    BY <2>0 DEF Lesser
  <2>2. /\ flushed' = flushed \o Take(q, n) /\ ring_out_index' = NextInst(ring_out_index)
        /\ ring_out' = [ring_out EXCEPT ![ring_out_index] = Drop(q, n)]
        /\ main_pc' \in {"wait", "post"}
        /\ UNCHANGED <<runVars, dealVars, wait_on_deq, sent, leaked, workerVars,
                       envVars, ring_in>>
    BY <1>4 DEF PostSearch
  <2> HIDE DEF q, n
  <2>3. /\ Take(q, n) \in Seq(Nat) /\ Drop(q, n) \in Seq(Nat)
        /\ Len(Drop(q, n)) = Len(q) - n /\ n \in Nat
    BY <2>0, <2>1, TakeDrop
  <2>4. flushed' \in Seq(Nat)
    BY <2>0, <2>2, <2>3, ConcatLen
  <2>5. ring_out' \in [Inst -> Seq(Nat)] /\ \A v \in Inst : Len(ring_out'[v]) <= RingCap
    <3>1. Len(Drop(q, n)) <= RingCap
      BY ONLY <2>0, <2>3, <1>0
    <3>2. QED
      BY ONLY <1>0, <2>0, <2>2, <2>3, <3>1, OneQueue
  <2>6. ring_out_index' \in Inst
    BY <2>0, <2>2, NextInstIs
  <2>7. QED
    BY <2>2, <2>4, <2>5, <2>6 DEF TypeOK
<1>5. CASE WaitWorkers
  BY <1>5 DEF WaitWorkers, TypeOK
<1>6. ASSUME NEW n \in 1 .. EthBatch, Receive(n) PROVE TypeOK'
  BY <1>6 DEF Receive, TypeOK
<1>7. CASE PollIdle
  BY <1>7 DEF PollIdle, TypeOK
<1>8. CASE TakeChunk
  <2>1. ChunkSize \in Nat /\ ChunkSize <= BatchIn
    BY <1>8 DEF TakeChunk, ChunkSize, Lesser, TypeOK
  <2>2. chunk' \in Seq(Nat) /\ Len(chunk') = ChunkSize
    BY <1>8, <2>1 DEF TakeChunk, TypeOK
  <2>3. /\ main_pc' = "enq" /\ batch_cnt_enq' \in Nat /\ wait_on_deq' \in Int
        /\ seqn' \in Nat /\ rx_held' \in Int
    BY <1>8, <2>1 DEF TakeChunk, TypeOK
  <2>4. UNCHANGED <<runVars, wait_on_enq, ring_in_index, ring_out_index, histVars,
                    workerVars, envVars, ring_in, ring_out>>
    BY <1>8 DEF TakeChunk
  <2>5. QED
    BY <2>1, <2>2, <2>3, <2>4 DEF TypeOK
<1>9. CASE Enqueue
  <2> DEFINE q == ring_in[ring_in_index]
             n == Lesser(Len(chunk), Room(q))
  <2>0. /\ ring_in_index \in Inst /\ q \in Seq(Nat) /\ Len(q) <= RingCap
        /\ Len(q) \in Nat /\ chunk \in Seq(Nat) /\ Len(chunk) <= BatchIn
        /\ Len(chunk) \in Nat
    BY <1>0 DEF TypeOK
  <2>1. /\ n > 0
        /\ ring_in' = [ring_in EXCEPT ![ring_in_index] = q \o Take(chunk, n)]
        /\ chunk' = Drop(chunk, n)
        /\ UNCHANGED <<main_pc, runVars, rx_held, wait_on_enq, batch_cnt_enq, seqn,
                       ring_in_index, wait_on_deq, ring_out_index, histVars,
                       workerVars, envVars, ring_out>>
    BY <1>9 DEF Enqueue
  <2>2. n \in 0 .. Len(chunk) /\ n <= RingCap - Len(q)
    <3>1. n = Lesser(Len(chunk), RingCap - Len(q))
      BY Zenon DEF Room
    <3> HIDE DEF n, q
    <3>2. QED
      BY ONLY <2>0, <2>1, <3>1, BurstFits
  <2> HIDE DEF q, n
  <2>3. /\ Take(chunk, n) \in Seq(Nat) /\ Len(Take(chunk, n)) = n
        /\ Drop(chunk, n) \in Seq(Nat) /\ Len(Drop(chunk, n)) = Len(chunk) - n
    BY <2>0, <2>2, TakeDrop
  <2>4. q \o Take(chunk, n) \in Seq(Nat) /\ Len(q \o Take(chunk, n)) = Len(q) + n
    BY <2>0, <2>3, ConcatLen
  <2>5. Len(q \o Take(chunk, n)) <= RingCap /\ Len(Drop(chunk, n)) <= BatchIn
    BY <2>0, <2>2, <2>3, <2>4
  <2>6. ring_in' \in [Inst -> Seq(Nat)] /\ \A v \in Inst : Len(ring_in'[v]) <= RingCap
    BY <1>0, <2>0, <2>1, <2>4, <2>5, OneQueue
  <2>7. QED
    BY <2>1, <2>3, <2>5, <2>6 DEF TypeOK
<1>10. CASE EndEnqueue
  <2>1. /\ leaked' = leaked \o chunk /\ chunk' = <<>> /\ main_pc' = "deq"
        /\ ring_in_index' = NextInst(ring_in_index)
        /\ UNCHANGED <<runVars, rx_held, wait_on_enq, batch_cnt_enq, seqn,
                       wait_on_deq, ring_out_index, sent, flushed, workerVars,
                       envVars, ring_in, ring_out>>
    BY <1>10 DEF EndEnqueue
  <2>2. ring_in_index \in Inst /\ leaked \in Seq(Nat) /\ chunk \in Seq(Nat)
    BY DEF TypeOK
  <2>3. leaked' \in Seq(Nat) /\ ring_in_index' \in Inst
    BY <2>1, <2>2, ConcatLen, NextInstIs
  <2>4. chunk' \in Seq(Nat) /\ Len(chunk') <= BatchIn
    BY <2>1
  <2>5. main_pc' = "deq" /\ leaked' \in Seq(Nat) /\ ring_in_index' \in Inst
    BY <2>1, <2>3, Zenon
  <2>6. UNCHANGED <<runVars, rx_held, wait_on_enq, batch_cnt_enq, seqn,
                    wait_on_deq, ring_out_index, sent, flushed, workerVars,
                    envVars, ring_in, ring_out>>
    BY <2>1, Zenon
  <2>7. QED
    BY <2>4, <2>5, <2>6 DEF TypeOK
<1>11. CASE Aggregate
  <2> DEFINE q == ring_out[ring_out_index]
             n == Lesser(BatchOut, Len(q))
  <2>0. /\ ring_out_index \in Inst /\ q \in Seq(Nat) /\ Len(q) <= RingCap
        /\ Len(q) \in Nat /\ sent \in Seq(Nat) /\ wait_on_deq \in Int
        /\ wait_on_enq \in Int /\ batch_cnt_enq \in Nat
    BY <1>0 DEF TypeOK
  <2>1. n \in 0 .. Len(q)
    BY <2>0 DEF Lesser
  <2>2. /\ sent' = sent \o Take(q, n) /\ ring_out_index' = NextInst(ring_out_index)
        /\ ring_out' = [ring_out EXCEPT ![ring_out_index] = Drop(q, n)]
        /\ wait_on_deq' = wait_on_deq - n
        /\ wait_on_enq' = Greater(WaitFloor, wait_on_enq - batch_cnt_enq)
        /\ main_pc' = "inner"
        /\ UNCHANGED <<runVars, rx_held, batch_cnt_enq, chunk, seqn, ring_in_index,
                       flushed, leaked, workerVars, envVars, ring_in>>
    BY <1>11 DEF Aggregate
  <2> HIDE DEF q, n
  <2>3. /\ Take(q, n) \in Seq(Nat) /\ Drop(q, n) \in Seq(Nat)
        /\ Len(Drop(q, n)) = Len(q) - n /\ n \in Nat
    BY <2>0, <2>1, TakeDrop
  <2>4. sent' \in Seq(Nat)
    BY <2>0, <2>2, <2>3, ConcatLen
  <2>5. ring_out' \in [Inst -> Seq(Nat)] /\ \A v \in Inst : Len(ring_out'[v]) <= RingCap
    <3>1. Len(Drop(q, n)) <= RingCap
      BY ONLY <2>0, <2>3, <1>0
    <3>2. QED
      BY ONLY <1>0, <2>0, <2>2, <2>3, <3>1, OneQueue
  <2>6. ring_out_index' \in Inst
    BY <2>0, <2>2, NextInstIs
  <2>7. wait_on_deq' \in Int /\ wait_on_enq' \in Int
    BY <2>0, <2>2, <2>3 DEF Greater, WaitFloor
  <2>8. QED
    BY <2>2, <2>4, <2>5, <2>6, <2>7 DEF TypeOK
<1>12. CASE EndInner
  BY <1>12 DEF EndInner, TypeOK
<1>13. ASSUME NEW w \in Inst, WorkerCheck(w) PROVE TypeOK'
  <2>1. worker_pc' \in [Inst -> {"idle", "head", "deq", "out", "exit"}]
    BY <1>13 DEF WorkerCheck, TypeOK
  <2>2. UNCHANGED <<main_pc, runVars, dealVars, wait_on_deq, ring_out_index,
                    histVars, mbufs_out, envVars, ring_in, ring_out>>
    BY <1>13 DEF WorkerCheck
  <2>3. QED
    BY <2>1, <2>2 DEF TypeOK
<1>14. ASSUME NEW w \in Inst, WorkerDequeue(w) PROVE TypeOK'
  <2> DEFINE q == ring_in[w]
             n == Lesser(WorkerBurst, Len(q))
  <2>0. q \in Seq(Nat) /\ Len(q) <= RingCap /\ Len(q) \in Nat
    BY <1>0
  <2>1. n \in 0 .. Len(q) /\ n <= WorkerBurst
    BY <2>0 DEF Lesser
  <2>2. /\ mbufs_out' = [mbufs_out EXCEPT ![w] = Take(q, n)]
        /\ ring_in' = [ring_in EXCEPT ![w] = Drop(q, n)]
        /\ UNCHANGED <<main_pc, runVars, dealVars, wait_on_deq, ring_out_index,
                       histVars, envVars, ring_out>>
    BY <1>14 DEF WorkerDequeue
  <2>3. worker_pc' \in [Inst -> {"idle", "head", "deq", "out", "exit"}]
    BY <1>14 DEF WorkerDequeue, TypeOK
  <2> HIDE DEF q, n
  <2>4. /\ Take(q, n) \in Seq(Nat) /\ Len(Take(q, n)) = n
        /\ Drop(q, n) \in Seq(Nat) /\ Len(Drop(q, n)) = Len(q) - n
    BY <2>0, <2>1, TakeDrop
  <2>5. Len(Take(q, n)) <= WorkerBurst /\ Len(Drop(q, n)) <= RingCap
    BY <1>0, <2>0, <2>1, <2>4
  <2>6. ring_in' \in [Inst -> Seq(Nat)] /\ \A v \in Inst : Len(ring_in'[v]) <= RingCap
    BY <1>0, <2>2, <2>4, <2>5, OneQueue
  <2>7. /\ mbufs_out' \in [Inst -> Seq(Nat)]
        /\ \A v \in Inst : Len(mbufs_out'[v]) <= WorkerBurst
    BY <1>0, <2>2, <2>4, <2>5, OneQueue
  <2>8. QED
    BY <2>2, <2>3, <2>6, <2>7 DEF TypeOK
<1>15. ASSUME NEW w \in Inst, WorkerEnqueue(w) PROVE TypeOK'
  <2> DEFINE q == ring_out[w]
             m == mbufs_out[w]
             n == Lesser(Len(m), Room(q))
  <2>0. /\ q \in Seq(Nat) /\ Len(q) <= RingCap /\ Len(q) \in Nat
        /\ m \in Seq(Nat) /\ Len(m) <= WorkerBurst /\ Len(m) \in Nat
    BY <1>0
  <2>1. /\ n > 0
        /\ ring_out' = [ring_out EXCEPT ![w] = q \o Take(m, n)]
        /\ mbufs_out' = [mbufs_out EXCEPT ![w] = Drop(m, n)]
        /\ UNCHANGED <<main_pc, runVars, dealVars, wait_on_deq, ring_out_index,
                       histVars, envVars, ring_in>>
    BY <1>15 DEF WorkerEnqueue
  <2>2. n \in 0 .. Len(m) /\ n <= RingCap - Len(q)
    <3>1. n = Lesser(Len(m), RingCap - Len(q))
      BY Zenon DEF Room
    <3> HIDE DEF n, m, q
    <3>2. QED
      BY ONLY <2>0, <2>1, <3>1, BurstFits
  <2>3. worker_pc' \in [Inst -> {"idle", "head", "deq", "out", "exit"}]
    BY <1>15 DEF WorkerEnqueue, TypeOK
  <2> HIDE DEF q, m, n
  <2>4. /\ Take(m, n) \in Seq(Nat) /\ Len(Take(m, n)) = n
        /\ Drop(m, n) \in Seq(Nat) /\ Len(Drop(m, n)) = Len(m) - n
    BY <2>0, <2>2, TakeDrop
  <2>5. q \o Take(m, n) \in Seq(Nat) /\ Len(q \o Take(m, n)) = Len(q) + n
    BY <2>0, <2>4, ConcatLen
  <2>6. Len(q \o Take(m, n)) <= RingCap /\ Len(Drop(m, n)) <= WorkerBurst
    BY <1>0, <2>0, <2>2, <2>4, <2>5
  <2>7. ring_out' \in [Inst -> Seq(Nat)] /\ \A v \in Inst : Len(ring_out'[v]) <= RingCap
    BY <1>0, <2>1, <2>5, <2>6, OneQueue
  <2>8. /\ mbufs_out' \in [Inst -> Seq(Nat)]
        /\ \A v \in Inst : Len(mbufs_out'[v]) <= WorkerBurst
    BY <1>0, <2>1, <2>4, <2>6, OneQueue
  <2>9. QED
    BY <2>1, <2>3, <2>7, <2>8 DEF TypeOK
<1>16. CASE Signal \/ TimeUp
  BY <1>16 DEF Signal, TimeUp, TypeOK
<1>17. CASE UNCHANGED vars
  BY <1>17 DEF vars, TypeOK
<1>18. QED
  BY <1>1, <1>2, <1>3, <1>4, <1>5, <1>6, <1>7, <1>8, <1>9, <1>10, <1>11,
     <1>12, <1>13, <1>14, <1>15, <1>16, <1>17 DEF Next, Main, Worker

(* Type correctness of the data plane: rings never hold more than their
   capacity, chunks and bursts never more than their sizes. *)
THEOREM TypeCorrect == Spec => []TypeOK
BY TypeInit, TypeStep, PTL DEF Spec

-----------------------------------------------------------------------------
(* The bound on the paths.                                                 *)

\* The packets on the path through instance w, counted place by place.
InRing(w) == Len(ring_in[w])
InHands(w) == Len(mbufs_out[w])
OutRing(w) == Len(ring_out[w])
ChunkOn(w) == IF main_pc = "enq" /\ ring_in_index = w THEN Len(chunk) ELSE 0

Load(w) == OutRing(w) + InHands(w) + InRing(w) + ChunkOn(w)

Bound(w) == RingCap + WorkerBurst + (IF DealtSince(w) THEN BatchIn ELSE 0)

\* The same facts of the queues after the step.
LEMMA QueueTypesPrimed ==
  ASSUME TypeOK', NEW w \in Inst
  PROVE  /\ ring_in'[w] \in Seq(Nat) /\ Len(ring_in'[w]) \in Nat
         /\ ring_out'[w] \in Seq(Nat) /\ Len(ring_out'[w]) \in Nat
         /\ mbufs_out'[w] \in Seq(Nat) /\ Len(mbufs_out'[w]) \in Nat
         /\ chunk' \in Seq(Nat) /\ Len(chunk') \in Nat
<1>1. /\ ring_in'[w] \in Seq(Nat) /\ ring_out'[w] \in Seq(Nat)
      /\ mbufs_out'[w] \in Seq(Nat) /\ chunk' \in Seq(Nat)
  BY DEF TypeOK
<1>2. \A q \in Seq(Nat) : Len(q) \in Nat
  OBVIOUS
<1>3. QED
  BY <1>1, <1>2

\* The length of a path is its load.
LEMMA PathLen ==
  ASSUME NEW a \in Seq(Nat), NEW b \in Seq(Nat), NEW c \in Seq(Nat),
         NEW d \in Seq(Nat), NEW P \in BOOLEAN
  PROVE  Len(a \o b \o c \o (IF P THEN d ELSE <<>>))
           = Len(a) + Len(b) + Len(c) + (IF P THEN Len(d) ELSE 0)
<1>1. <<>> \in Seq(Nat) /\ Len(<<>>) = 0
  OBVIOUS
<1>2. Len(a \o b \o c \o d) = Len(a) + Len(b) + Len(c) + Len(d)
  BY ConcatLen, SMTT(30)
<1>3. Len(a \o b \o c \o <<>>) = Len(a) + Len(b) + Len(c) + 0
  BY <1>1, ConcatLen, SMTT(30)
<1>4. CASE P
  BY <1>2, <1>4
<1>5. CASE ~P
  BY <1>3, <1>5
<1>6. QED
  BY <1>4, <1>5

\* The load of a path, the sum of what its queues hold, is the length of Path(w).
LEMMA LoadIs ==
  /\ TypeOK => \A w \in Inst : Load(w) \in Nat /\ Len(Path(w)) = Load(w)
  /\ TypeOK' => \A w \in Inst : Load(w)' \in Nat /\ Len(Path(w))' = Load(w)'
<1>1. ASSUME TypeOK, NEW w \in Inst PROVE Load(w) \in Nat /\ Len(Path(w)) = Load(w)
  <2> DEFINE P == main_pc = "enq" /\ ring_in_index = w
  <2>1. Len(ring_out[w] \o mbufs_out[w] \o ring_in[w] \o (IF P THEN chunk ELSE <<>>))
          = Len(ring_out[w]) + Len(mbufs_out[w]) + Len(ring_in[w])
              + (IF P THEN Len(chunk) ELSE 0)
    BY <1>1, QueueTypes, PathLen
  <2>2. Len(Path(w)) = Load(w)
    BY <2>1, Zenon DEF Load, OutRing, InHands, InRing, ChunkOn, Path
  <2>3. Load(w) \in Nat
    <3>1. /\ Len(ring_in[w]) \in Nat /\ Len(ring_out[w]) \in Nat
          /\ Len(mbufs_out[w]) \in Nat /\ Len(chunk) \in Nat
      BY <1>1, QueueTypes
    <3>2. (IF P THEN Len(chunk) ELSE 0) \in Nat
      BY <3>1
    <3>3. \A a, b, c, d \in Nat : a + b + c + d \in Nat
      OBVIOUS
    <3>4. QED
      BY <3>1, <3>2, <3>3, Zenon DEF Load, OutRing, InHands, InRing, ChunkOn
  <2>4. QED
    BY <2>2, <2>3
<1>2. ASSUME TypeOK', NEW w \in Inst
      PROVE Load(w)' \in Nat /\ Len(Path(w))' = Load(w)'
  <2> DEFINE P == main_pc' = "enq" /\ ring_in_index' = w
  <2>1. Len(ring_out'[w] \o mbufs_out'[w] \o ring_in'[w] \o (IF P THEN chunk' ELSE <<>>))
          = Len(ring_out'[w]) + Len(mbufs_out'[w]) + Len(ring_in'[w])
              + (IF P THEN Len(chunk') ELSE 0)
    BY <1>2, QueueTypesPrimed, PathLen
  <2>2. Len(Path(w))' = Load(w)'
    BY <2>1, Zenon DEF Load, OutRing, InHands, InRing, ChunkOn, Path
  <2>3. Load(w)' \in Nat
    <3>1. /\ Len(ring_in'[w]) \in Nat /\ Len(ring_out'[w]) \in Nat
          /\ Len(mbufs_out'[w]) \in Nat /\ Len(chunk') \in Nat
      BY <1>2, QueueTypesPrimed
    <3>2. (IF P THEN Len(chunk') ELSE 0) \in Nat
      BY <3>1
    <3>3. \A a, b, c, d \in Nat : a + b + c + d \in Nat
      OBVIOUS
    <3>4. QED
      BY <3>1, <3>2, <3>3, Zenon DEF Load, OutRing, InHands, InRing, ChunkOn
  <2>4. QED
    BY <2>2, <2>3
<1>3. QED
  BY <1>1, <1>2

-----------------------------------------------------------------------------
\* A step of the round robin brings every instance one closer, but the one it
\* leaves behind goes to the end of the line.
LEMMA DistanceIs ==
  ASSUME NEW i \in Inst, NEW w \in Inst
  PROVE  /\ Distance(i, w) \in Inst
         /\ Distance(i, w) = 0 <=> i = w
         /\ Distance(NextInst(i), w) =
              IF i = w THEN NbInst - 1 ELSE Distance(i, w) - 1
BY NextInstIs DEF Distance, Inst

\* The paths start empty.
LEMMA BoundInit == Init => PathBounded
<1> SUFFICES ASSUME Init PROVE PathBounded
  OBVIOUS
<1>1. \A w \in Inst : Load(w) = 0
  BY DEF Init, Load, OutRing, InHands, InRing, ChunkOn
<1>2. QED
  BY <1>1, TypeInit, LoadIs DEF PathBounded

\* A worker takes a burst only on its way to the loop that pushes it out, and goes
\* back to the loop condition only when all of it is in ring_out.
LEMMA HandsStep == TypeOK /\ HandsEmpty /\ [Next]_vars => HandsEmpty'
<1> SUFFICES ASSUME TypeOK, HandsEmpty, [Next]_vars,
                    NEW w \in Inst, worker_pc'[w] # "out"
             PROVE  mbufs_out'[w] = <<>>
  BY DEF HandsEmpty
<1> USE DEF HandsEmpty, runVars, dealVars, histVars, workerVars, envVars
<1>0. /\ worker_pc \in [Inst -> {"idle", "head", "deq", "out", "exit"}]
      /\ mbufs_out \in [Inst -> Seq(Nat)]
  BY DEF TypeOK
<1>1. ASSUME NEW v \in Inst, Launch(v) PROVE mbufs_out'[w] = <<>>
  BY <1>0, <1>1 DEF Launch
<1>2. ASSUME NEW v \in Inst, WorkerCheck(v) PROVE mbufs_out'[w] = <<>>
  BY <1>0, <1>2 DEF WorkerCheck
<1>3. ASSUME NEW v \in Inst, WorkerDequeue(v) PROVE mbufs_out'[w] = <<>>
  <2>1. CASE v # w
    BY <1>0, <1>3, <2>1 DEF WorkerDequeue
  <2>2. CASE v = w
    <3> DEFINE n == Lesser(WorkerBurst, Len(ring_in[w]))
    <3>1. n = 0
      BY <1>0, <1>3, <2>2 DEF WorkerDequeue
    <3>2. Len(Take(ring_in[w], n)) = 0 /\ Take(ring_in[w], n) \in Seq(Nat)
      BY <3>1, QueueTypes, TakeDrop, SMTT(30)
    <3>3. mbufs_out'[w] = Take(ring_in[w], n)
      BY <1>0, <1>3, <2>2 DEF WorkerDequeue
    <3>4. QED
      BY <3>2, <3>3
  <2>3. QED
    BY <2>1, <2>2
<1>4. ASSUME NEW v \in Inst, WorkerEnqueue(v) PROVE mbufs_out'[w] = <<>>
  <2>1. CASE v # w
    BY <1>0, <1>4, <2>1 DEF WorkerEnqueue
  <2>2. CASE v = w
    <3>1. /\ mbufs_out'[w] = Drop(mbufs_out[w], Len(mbufs_out[w]))
      BY <1>0, <1>4, <2>2 DEF WorkerEnqueue
    <3>2. Len(mbufs_out'[w]) = 0 /\ mbufs_out'[w] \in Seq(Nat)
      BY <3>1, QueueTypes, TakeDrop, SMTT(30)
    <3>3. QED
      BY <3>2
  <2>3. QED
    BY <2>1, <2>2
<1>5. CASE UNCHANGED workerVars
  BY <1>5
<1>6. QED
  BY <1>1, <1>2, <1>3, <1>4, <1>5
     DEF Next, Main, Worker, StartMain, StartFails, LeaveLoop, ToPostRun,
         PostSearch, WaitWorkers, Receive, PollIdle, TakeChunk, Enqueue,
         EndEnqueue, Aggregate, EndInner, Signal, TimeUp, vars

(* The transfers between the queues: what each does to their lengths.      *)

\* What each operation does to the lengths of the queues of the instance it moves
\* packets of: pipeline_post_search takes from a ring_out, ...
LEMMA PostSearchLens ==
  ASSUME TypeOK, PostSearch, NEW w \in Inst
  PROVE  OutRing(w)' <= OutRing(w)
<1> DEFINE q == ring_out[ring_out_index]
           n == Lesser(BatchIn, Len(q))
<1>1. n \in 0 .. Len(q) /\ q \in Seq(Nat)
  BY QueueTypes DEF Lesser
<1>2. Len(Drop(q, n)) <= Len(q)
  BY <1>1, TakeDrop, SMTT(30)
<1>3. ring_out'[w] = IF w = ring_out_index THEN Drop(q, n) ELSE ring_out[w]
  BY DEF TypeOK, PostSearch
<1>4. QED
  BY <1>2, <1>3, QueueTypes DEF OutRing

\* ... so does the collection of run_dpdk, ...
LEMMA AggregateLens ==
  ASSUME TypeOK, Aggregate, NEW w \in Inst
  PROVE  OutRing(w)' = IF w = ring_out_index THEN 0 ELSE OutRing(w)
<1> DEFINE q == ring_out[ring_out_index]
           n == Lesser(BatchOut, Len(q))
<1>1. n = Len(q) /\ q \in Seq(Nat) /\ n \in 0 .. Len(q)
  BY QueueTypes DEF Lesser
<1>2. Len(Drop(q, n)) = 0
  BY <1>1, DropAll
<1>3. ring_out'[w] = IF w = ring_out_index THEN Drop(q, n) ELSE ring_out[w]
  BY DEF TypeOK, Aggregate
<1>4. QED
  BY <1>2, <1>3 DEF OutRing

\* ... main's enqueue moves packets from the chunk to a ring_in, ...
LEMMA EnqueueLens ==
  ASSUME TypeOK, Enqueue, NEW w \in Inst
  PROVE  IF w = ring_in_index
         THEN InRing(w)' + Len(chunk') = InRing(w) + Len(chunk)
         ELSE InRing(w)' = InRing(w)
<1> DEFINE q == ring_in[ring_in_index]
           n == Lesser(Len(chunk), Room(q))
<1>1. n \in 0 .. Len(chunk) /\ q \in Seq(Nat) /\ chunk \in Seq(Nat)
  BY QueueTypes DEF Enqueue, Lesser, Room
<1>2. /\ Take(chunk, n) \in Seq(Nat) /\ Len(Take(chunk, n)) = n
      /\ Len(Drop(chunk, n)) = Len(chunk) - n
  BY <1>1, TakeDrop, SMTT(30)
<1>3. Len(q \o Take(chunk, n)) = Len(q) + n
  BY <1>1, <1>2, ConcatLen, ZenonT(60)
<1>4. /\ chunk' = Drop(chunk, n)
      /\ ring_in'[w] = IF w = ring_in_index THEN q \o Take(chunk, n) ELSE ring_in[w]
  BY DEF TypeOK, Enqueue
<1>5. Len(q) \in Nat /\ Len(chunk) \in Nat /\ n \in Nat
  BY <1>1
<1>6. CASE w = ring_in_index
  <2>1. InRing(w)' = Len(q) + n /\ Len(chunk') = Len(chunk) - n /\ InRing(w) = Len(q)
    BY <1>2, <1>3, <1>4, <1>6 DEF InRing
  <2> HIDE DEF q, n
  <2>2. QED
    BY <1>5, <1>6, <2>1
<1>7. CASE w # ring_in_index
  BY <1>4, <1>7 DEF InRing
<1>8. QED
  BY <1>6, <1>7

\* ... a worker's dequeue from its ring_in to its hands, ...
LEMMA WorkerDequeueLens ==
  ASSUME TypeOK, HandsEmpty, NEW v \in Inst, WorkerDequeue(v), NEW w \in Inst
  PROVE  InHands(w)' + InRing(w)' = InHands(w) + InRing(w)
<1> DEFINE n == Lesser(WorkerBurst, Len(ring_in[v]))
<1>1. n \in 0 .. Len(ring_in[v]) /\ ring_in[v] \in Seq(Nat)
  BY QueueTypes DEF Lesser
<1>2. Len(Take(ring_in[v], n)) = n /\ Len(Drop(ring_in[v], n)) = Len(ring_in[v]) - n
  BY <1>1, TakeDrop, SMTT(30)
<1>3. mbufs_out[v] = <<>>
  BY DEF HandsEmpty, WorkerDequeue
<1>4. /\ mbufs_out'[w] = IF w = v THEN Take(ring_in[v], n) ELSE mbufs_out[w]
      /\ ring_in'[w] = IF w = v THEN Drop(ring_in[v], n) ELSE ring_in[w]
  BY DEF TypeOK, WorkerDequeue
<1>5. Len(mbufs_out[v]) = 0 /\ Len(ring_in[v]) \in Nat /\ n \in Nat
  BY <1>1, <1>3
<1>6. CASE w = v
  <2>1. InHands(w)' = n /\ InRing(w)' = InRing(w) - n
    BY <1>2, <1>4, <1>6 DEF InHands, InRing
  <2>2. InHands(w) = 0 /\ InRing(w) \in Nat
    BY <1>5, <1>6 DEF InHands, InRing
  <2> HIDE DEF n
  <2>3. QED
    BY <1>5, <2>1, <2>2
<1>7. CASE w # v
  BY <1>4, <1>7 DEF InHands, InRing
<1>8. QED
  BY <1>6, <1>7

\* ... and its enqueue from there to its ring_out.
LEMMA WorkerEnqueueLens ==
  ASSUME TypeOK, NEW v \in Inst, WorkerEnqueue(v), NEW w \in Inst
  PROVE  InHands(w)' + OutRing(w)' = InHands(w) + OutRing(w)
<1> DEFINE q == mbufs_out[v]
           n == Lesser(Len(q), Room(ring_out[v]))
<1>1. n \in 0 .. Len(q) /\ q \in Seq(Nat) /\ ring_out[v] \in Seq(Nat)
  <2>1. /\ q \in Seq(Nat) /\ Len(q) \in Nat /\ ring_out[v] \in Seq(Nat)
        /\ Room(ring_out[v]) \in Nat
    BY QueueTypes DEF Room
  <2>2. QED
    BY <2>1 DEF Lesser
<1>2. /\ Take(q, n) \in Seq(Nat) /\ Len(Take(q, n)) = n
      /\ Len(Drop(q, n)) = Len(q) - n
  BY <1>1, TakeDrop, Zenon
<1>3. Len(ring_out[v] \o Take(q, n)) = Len(ring_out[v]) + n
  BY <1>1, <1>2, ConcatLen, ZenonT(60)
<1>4. /\ mbufs_out'[w] = IF w = v THEN Drop(q, n) ELSE mbufs_out[w]
      /\ ring_out'[w] = IF w = v THEN ring_out[v] \o Take(q, n) ELSE ring_out[w]
  BY DEF TypeOK, WorkerEnqueue
<1>5. Len(ring_out[v]) \in Nat /\ Len(q) \in Nat /\ n \in Nat
  BY <1>1
<1>6. CASE w = v
  <2>1. InHands(w)' = InHands(w) - n /\ OutRing(w)' = OutRing(w) + n
    BY <1>2, <1>3, <1>4, <1>6 DEF InHands, OutRing
  <2>2. InHands(w) \in Nat /\ OutRing(w) \in Nat
    BY <1>5, <1>6 DEF InHands, OutRing
  <2> HIDE DEF q, n
  <2>3. QED
    BY <1>5, <2>1, <2>2
<1>7. CASE w # v
  BY <1>4, <1>7 DEF InHands, OutRing
<1>8. QED
  BY <1>6, <1>7

\* The round robin argument: a path grows only by the chunk dealt to it, and before
\* the next one main has been at its ring_out and left no more than a full ring_in and
\* a burst behind.
LEMMA BoundStep == TypeOK /\ HandsEmpty /\ PathBounded /\ [Next]_vars => PathBounded'
<1> SUFFICES ASSUME TypeOK, HandsEmpty, PathBounded, [Next]_vars,
                    NEW w \in Inst
             PROVE  Load(w)' <= Bound(w)'
  BY TypeStep, LoadIs DEF PathBounded, Bound
<1> DEFINE toDeal == Distance(ring_in_index, w)
           toCollect == Distance(ring_out_index, w)
<1>a. TypeOK' /\ Load(w) \in Nat /\ Load(w)' \in Nat /\ Load(w) <= Bound(w)
  BY TypeStep, LoadIs DEF PathBounded, Bound
<1>b. toDeal \in Inst /\ toCollect \in Inst /\ (toDeal = 0 <=> ring_in_index = w)
        /\ (toCollect = 0 <=> ring_out_index = w)
  BY DistanceIs DEF TypeOK
<1>c. /\ InRing(w) \in 0 .. RingCap /\ OutRing(w) \in 0 .. RingCap
      /\ InHands(w) \in 0 .. WorkerBurst /\ Len(chunk) \in 0 .. BatchIn
      /\ ring_in_index \in Inst /\ ring_out_index \in Inst
  BY QueueTypes DEF InRing, OutRing, InHands
<1>d. /\ InRing(w)' \in Nat /\ OutRing(w)' \in Nat
      /\ InHands(w)' \in Nat /\ Len(chunk') \in Nat
  BY <1>a, QueueTypesPrimed DEF InRing, OutRing, InHands
<1>e. ChunkOn(w) \in Nat /\ ChunkOn(w)' \in Nat
  BY <1>c, <1>d DEF ChunkOn
<1>g. InRing(w) \in Nat /\ OutRing(w) \in Nat /\ InHands(w) \in Nat /\ Len(chunk) \in Nat
  BY <1>c
<1>f. RingCap + WorkerBurst <= Bound(w)'
  BY DEF Bound
<1> HIDE DEF toDeal, toCollect
<1> USE DEF runVars, dealVars, histVars, workerVars, envVars
<1>1. CASE StartMain \/ (\E v \in Inst : Launch(v)) \/ EndInner \/ PollIdle
           \/ \E n \in 1 .. EthBatch : Receive(n)
  <2>1. Load(w)' = Load(w)
    BY <1>1 DEF StartMain, Launch, EndInner, PollIdle, Receive, Load, OutRing,
       InHands, InRing, ChunkOn
  <2>2. DealtSince(w) => DealtSince(w)'
    BY <1>1, <1>b DEF StartMain, Launch, EndInner, PollIdle, Receive, DealtSince,
       Inst, toDeal, toCollect
  <2>3. QED
    BY <1>a, <2>1, <2>2 DEF Bound
<1>2. CASE StartFails \/ LeaveLoop \/ WaitWorkers
  <2>1. Load(w)' = Load(w) /\ DealtSince(w)'
    BY <1>2 DEF StartFails, LeaveLoop, ToPostRun, WaitWorkers, Load, OutRing,
       InHands, InRing, ChunkOn, DealtSince
  <2>2. QED
    BY <1>a, <2>1 DEF Bound
<1>3. CASE PostSearch
  <2>1. DealtSince(w)'
    BY <1>3 DEF PostSearch, DealtSince
  <2>2. UNCHANGED <<mbufs_out, ring_in>> /\ main_pc # "enq" /\ main_pc' # "enq"
    BY <1>3 DEF PostSearch
  <2>3. Load(w)' <= Load(w)
    BY <1>3, <1>c, <1>d, <2>2, PostSearchLens DEF Load, OutRing, InHands, InRing, ChunkOn
  <2>4. QED
    BY <1>a, <2>1, <2>3 DEF Bound
<1>4. CASE TakeChunk
  <2>1. ChunkSize \in Nat /\ ChunkSize <= BatchIn
    BY <1>4 DEF TakeChunk, ChunkSize, Lesser, TypeOK
  <2>2. /\ main_pc = "inner" /\ main_pc' = "enq"
        /\ UNCHANGED <<ring_in, ring_out, mbufs_out, ring_in_index, ring_out_index>>
    BY <1>4 DEF TakeChunk
  <2>0. OutRing(w)' = OutRing(w) /\ InHands(w)' = InHands(w) /\ InRing(w)' = InRing(w)
    BY <2>2 DEF OutRing, InHands, InRing
  <2>3. Len(chunk') = ChunkSize
    BY <1>4, <2>1 DEF TakeChunk
  <2>4. ChunkOn(w) = 0 /\ ChunkOn(w)' = IF toDeal = 0 THEN ChunkSize ELSE 0
    BY <1>b, <2>2, <2>3 DEF ChunkOn
  <2>5. CASE toDeal = 0
    <3>1. ~DealtSince(w) /\ DealtSince(w)'
      BY <1>b, <2>2, <2>5 DEF DealtSince, Inst, toDeal, toCollect
    <3>2. Load(w)' = Load(w) + ChunkSize
      BY <1>c, <2>0, <2>1, <2>4, <2>5 DEF Load
    <3>3. QED
      BY <1>a, <2>1, <3>1, <3>2 DEF Bound
  <2>6. CASE toDeal # 0
    <3>1. DealtSince(w) => DealtSince(w)'
      BY <1>b, <2>2, <2>6 DEF DealtSince, Inst, toDeal, toCollect
    <3>2. Load(w)' = Load(w)
      BY <2>0, <2>4, <2>6 DEF Load
    <3>3. QED
      BY <1>a, <3>1, <3>2 DEF Bound
  <2>7. QED
    BY <2>5, <2>6
<1>5. CASE Enqueue
  <2>1. /\ main_pc = "enq" /\ main_pc' = "enq"
        /\ UNCHANGED <<ring_out, mbufs_out, ring_in_index, ring_out_index>>
    BY <1>5 DEF Enqueue
  <2>0. OutRing(w)' = OutRing(w) /\ InHands(w)' = InHands(w)
    BY <2>1 DEF OutRing, InHands
  <2>2. Load(w)' = Load(w)
    <3>1. CASE ring_in_index = w
      <4>1. ChunkOn(w) = Len(chunk) /\ ChunkOn(w)' = Len(chunk')
        BY <2>1, <3>1 DEF ChunkOn
      <4>2. InRing(w)' + Len(chunk') = InRing(w) + Len(chunk)
        BY <1>5, <3>1, EnqueueLens
      <4>3. OutRing(w) + InHands(w) + InRing(w)' + Len(chunk')
              = OutRing(w) + InHands(w) + InRing(w) + Len(chunk)
        <5> DEFINE o == OutRing(w)
                   h == InHands(w)
                   i == InRing(w)
                   c == Len(chunk)
                   j == InRing(w)'
                   d == Len(chunk')
        <5>1. /\ o \in Nat /\ h \in Nat /\ i \in Nat /\ c \in Nat
              /\ j \in Nat /\ d \in Nat /\ j + d = i + c
          BY <1>d, <1>g, <4>2, Zenon
        <5> HIDE DEF o, h, i, c, j, d
        <5>2. o + h + j + d = o + h + i + c
          BY ONLY <5>1
        <5>3. QED
          BY ONLY <5>2, Zenon DEF o, h, i, c, j, d
      <4>4. QED
        BY <2>0, <4>1, <4>3 DEF Load
    <3>2. CASE ring_in_index # w
      <4>1. ChunkOn(w) = 0 /\ ChunkOn(w)' = 0
        BY <2>1, <3>2 DEF ChunkOn
      <4>2. InRing(w)' = InRing(w)
        BY <1>5, <3>2, EnqueueLens
      <4>3. QED
        BY <2>0, <4>1, <4>2 DEF Load
    <3>3. QED
      BY <3>1, <3>2
  <2>3. DealtSince(w)' = DealtSince(w)
    BY <2>1 DEF DealtSince
  <2>4. QED
    BY <1>a, <2>2, <2>3 DEF Bound
<1>6. CASE EndEnqueue
  <2>1. /\ main_pc = "enq" /\ main_pc' = "deq"
        /\ UNCHANGED <<ring_in, ring_out, mbufs_out, ring_out_index>>
        /\ ring_in_index' = NextInst(ring_in_index)
    BY <1>6 DEF EndEnqueue
  <2>2. Load(w)' <= Load(w)
    <3>1. ChunkOn(w)' = 0
      BY <2>1 DEF ChunkOn
    <3>2. OutRing(w)' = OutRing(w) /\ InHands(w)' = InHands(w) /\ InRing(w)' = InRing(w)
      BY <2>1 DEF OutRing, InHands, InRing
    <3>3. QED
      BY <1>c, <1>e, <3>1, <3>2 DEF Load
  <2>3. DealtSince(w) => DealtSince(w)'
    <3>1. Distance(ring_in_index', w) = IF toDeal = 0 THEN NbInst - 1 ELSE toDeal - 1
      BY <1>b, <1>c, <2>1, DistanceIs DEF toDeal
    <3>2. QED
      BY <1>b, <2>1, <3>1 DEF DealtSince, Inst, toDeal, toCollect
  <2>4. QED
    BY <1>a, <2>2, <2>3 DEF Bound
<1>7. CASE Aggregate
  <2>1. /\ main_pc = "deq" /\ main_pc' = "inner"
        /\ UNCHANGED <<ring_in, mbufs_out, ring_in_index>>
        /\ ring_out_index' = NextInst(ring_out_index)
    BY <1>7 DEF Aggregate
  <2>0. InHands(w)' = InHands(w) /\ InRing(w)' = InRing(w)
    BY <2>1 DEF InHands, InRing
  <2>2. Distance(ring_out_index', w) =
          IF toCollect = 0 THEN NbInst - 1 ELSE toCollect - 1
    BY <1>b, <1>c, <2>1, DistanceIs DEF toCollect
  <2>3. CASE toCollect = 0
    <3>1. OutRing(w)' = 0
      BY <1>7, <1>b, <2>3, AggregateLens
    <3>2. ChunkOn(w)' = 0
      BY <2>1 DEF ChunkOn
    <3>3. Load(w)' = InHands(w) + InRing(w)
      BY <1>c, <2>0, <3>1, <3>2 DEF Load
    <3>4. Load(w)' <= RingCap + WorkerBurst
      BY <1>c, <3>3
    <3>5. Bound(w)' \in Nat
      BY DEF Bound
    <3>6. QED
      BY <1>a, <1>f, <3>4, <3>5
  <2>4. CASE toCollect # 0
    <3>1. Load(w)' = Load(w)
      BY <1>7, <1>b, <1>c, <1>d, <2>1, <2>4, AggregateLens DEF Load, OutRing, InHands, InRing, ChunkOn
    <3>2. DealtSince(w) => DealtSince(w)'
      BY <1>b, <2>1, <2>2, <2>4 DEF DealtSince, Inst, toDeal, toCollect
    <3>3. QED
      BY <1>a, <3>1, <3>2 DEF Bound
  <2>5. QED
    BY <2>3, <2>4
<1>8. ASSUME NEW v \in Inst, Worker(v) PROVE Load(w)' <= Bound(w)'
  <2>1. UNCHANGED <<main_pc, chunk, ring_in_index, ring_out_index>>
    BY <1>8 DEF Worker, WorkerCheck, WorkerDequeue, WorkerEnqueue
  <2>2. Load(w)' = Load(w)
    <3>0. ChunkOn(w)' = ChunkOn(w)
      BY <2>1 DEF ChunkOn
    <3>1. CASE WorkerCheck(v)
      BY <3>0, <3>1 DEF WorkerCheck, Load, OutRing, InHands, InRing
    <3>2. CASE WorkerDequeue(v)
      <4>1. OutRing(w)' = OutRing(w)
        BY <3>2 DEF WorkerDequeue, OutRing
      <4>2. InHands(w)' + InRing(w)' = InHands(w) + InRing(w)
        BY <3>2, WorkerDequeueLens
      <4>3. OutRing(w) + InHands(w)' + InRing(w)' + ChunkOn(w)
              = OutRing(w) + InHands(w) + InRing(w) + ChunkOn(w)
        <5> DEFINE o == OutRing(w)
                   c == ChunkOn(w)
                   h == InHands(w)
                   i == InRing(w)
                   g == InHands(w)'
                   j == InRing(w)'
        <5>1. /\ o \in Nat /\ c \in Nat /\ h \in Nat /\ i \in Nat
              /\ g \in Nat /\ j \in Nat /\ g + j = h + i
          BY <1>d, <1>e, <1>g, <4>2, Zenon
        <5> HIDE DEF o, c, h, i, g, j
        <5>2. o + g + j + c = o + h + i + c
          BY ONLY <5>1
        <5>3. QED
          BY ONLY <5>2, Zenon DEF o, c, h, i, g, j
      <4>4. QED
        BY <3>0, <4>1, <4>3 DEF Load
    <3>3. CASE WorkerEnqueue(v)
      <4>1. InRing(w)' = InRing(w)
        BY <3>3 DEF WorkerEnqueue, InRing
      <4>2. InHands(w)' + OutRing(w)' = InHands(w) + OutRing(w)
        BY <3>3, WorkerEnqueueLens
      <4>3. OutRing(w)' + InHands(w)' + InRing(w) + ChunkOn(w)
              = OutRing(w) + InHands(w) + InRing(w) + ChunkOn(w)
        BY <1>d, <1>e, <1>g, <4>2, SMTT(30)
      <4>4. QED
        BY <3>0, <4>1, <4>3 DEF Load
    <3>4. QED
      BY <1>8, <3>1, <3>2, <3>3 DEF Worker
  <2>3. QED
    BY <1>a, <2>1, <2>2 DEF Bound, DealtSince
<1>9. CASE Signal \/ TimeUp \/ UNCHANGED vars
  BY <1>9, <1>a DEF Signal, TimeUp, vars, Load, OutRing, InHands, InRing, ChunkOn,
     Bound, DealtSince
<1>10. QED
  BY <1>1, <1>2, <1>3, <1>4, <1>5, <1>6, <1>7, <1>8, <1>9 DEF Next, Main

(* A worker that is not pushing packets into its ring_out holds none. *)
THEOREM HandsStayEmpty == Spec => []HandsEmpty
<1>1. Init => HandsEmpty
  BY DEF Init, HandsEmpty
<1>2. QED
  BY <1>1, TypeInit, TypeStep, HandsStep, PTL DEF Spec

(* Between two visits to a ring_out its path is dealt at most one chunk, so no
   path ever holds more than a full ring_in, a worker's burst and a chunk. *)
THEOREM PathsStayBounded == Spec => []PathBounded
BY TypeCorrect, HandsStayEmpty, BoundInit, BoundStep, PTL DEF Spec

(* A bounded path is too short for both of its rings to be full at once, with
   a packet more on either side. *)
LEMMA BoundedNotCircular == TypeOK /\ PathBounded => NoCircularWait
<1> SUFFICES ASSUME TypeOK, PathBounded, NEW w \in Inst,
                    main_pc = "enq", ring_in_index = w, chunk # <<>>,
                    Room(ring_in[w]) = 0, mbufs_out[w] # <<>>, Room(ring_out[w]) = 0
             PROVE  FALSE
  BY DEF NoCircularWait
<1>1. \A q \in Seq(Nat) : q # <<>> => Len(q) \in Nat /\ Len(q) >= 1
  OBVIOUS
<1>2. Load(w) >= 2 * RingCap + 2
  <2>1. InRing(w) = RingCap /\ OutRing(w) = RingCap
    <3>1. \A c, l \in Nat : c - l = 0 => l = c
      OBVIOUS
    <3>2. Len(ring_in[w]) \in Nat /\ Len(ring_out[w]) \in Nat
      BY QueueTypes
    <3>3. QED
      BY <3>1, <3>2 DEF Room, InRing, OutRing
  <2>2. InHands(w) \in Nat /\ InHands(w) >= 1
    BY <1>1, QueueTypes DEF InHands
  <2>3. ChunkOn(w) \in Nat /\ ChunkOn(w) >= 1
    BY <1>1, QueueTypes DEF ChunkOn
  <2>4. QED
    BY <2>1, <2>2, <2>3 DEF Load
<1>3. Load(w) <= RingCap + WorkerBurst + BatchIn
  BY LoadIs DEF PathBounded
<1>4. QED
  BY <1>2, <1>3, LoadIs

(* The spin of main for room in a ring_in and the spin of the worker behind it
   for room in its ring_out never wait for each other. *)
THEOREM NeverCircularWait == Spec => []NoCircularWait
BY TypeCorrect, PathsStayBounded, BoundedNotCircular, PTL

HIDE SizesAssumption

-----------------------------------------------------------------------------
(* The counters of a burst.                                                *)

\* The burst and its counters, wherever main is in its two loops: between taking a
\* chunk and closing it, batch_cnt_wait_on_enq is ahead by the chunk; outside the
\* inner loop nothing is left of it, unless a signal ended that loop.
BurstInv ==
  /\ rx_held >= 0 /\ seqn + rx_held <= MaxPkts
  /\ main_pc = "launch" => wait_on_enq <= 0
  /\ main_pc = "poll" /\ ~force_quit => wait_on_enq <= 0
  /\ main_pc = "inner" /\ wait_on_enq > 0 => rx_held = wait_on_enq
  /\ main_pc = "enq" => wait_on_enq > 0 /\ rx_held = wait_on_enq - batch_cnt_enq
  /\ main_pc = "deq" /\ wait_on_enq > 0 => rx_held = wait_on_enq - batch_cnt_enq

\* The run goes on while main is in its loops, and is over behind them.
RunningInv ==
  /\ main_pc \in {"launch", "poll", "inner", "enq", "deq"} => running
  /\ main_pc \in {"post", "wait", "done"} => ~running

\* Nothing is held when the run begins.
LEMMA BurstInit == Init => BurstInv
BY SizesAssumption DEF Init, BurstInv

\* The run is on when it begins.
LEMMA RunningInit == Init => RunningInv
BY DEF Init, RunningInv

\* An idle poll enters the inner loop behind a burst that is used up; closing a chunk
\* again only takes the counter further below zero, and main leaves the loop.
LEMMA BurstStep == TypeOK /\ BurstInv /\ [Next]_vars => BurstInv'
<1> SUFFICES ASSUME TypeOK, BurstInv, [Next]_vars PROVE BurstInv'
  OBVIOUS
<1>0. /\ rx_held \in Int /\ wait_on_enq \in Int /\ batch_cnt_enq \in Nat /\ seqn \in Nat
      /\ MaxPkts \in Nat /\ EthBatch \in Nat \ {0} /\ BatchIn \in Nat \ {0}
  BY SizesAssumption DEF TypeOK
<1> USE <1>0 DEF BurstInv, runVars, dealVars, histVars, workerVars, envVars
<1>1. ASSUME NEW w \in Inst, Launch(w) PROVE BurstInv'
  BY <1>1 DEF Launch
<1>2. CASE StartMain
  BY <1>2 DEF StartMain
<1>3. CASE StartFails \/ LeaveLoop
  BY <1>3 DEF StartFails, LeaveLoop, ToPostRun
<1>4. CASE PostSearch
  BY <1>4 DEF PostSearch
<1>5. CASE WaitWorkers
  BY <1>5 DEF WaitWorkers
<1>6. ASSUME NEW n \in 1 .. EthBatch, Receive(n) PROVE BurstInv'
  BY <1>6 DEF Receive
<1>7. CASE PollIdle
  BY <1>7 DEF PollIdle
<1>8. CASE TakeChunk
  <2>1. ChunkSize \in 0 .. wait_on_enq
    BY <1>8 DEF TakeChunk, ChunkSize, Lesser
  <2>2. QED
    BY <1>8, <2>1 DEF TakeChunk
<1>9. CASE Enqueue
  BY <1>9 DEF Enqueue
<1>10. CASE EndEnqueue
  BY <1>10 DEF EndEnqueue
<1>11. CASE Aggregate
  BY <1>11 DEF Aggregate, Greater, WaitFloor
<1>12. CASE EndInner
  BY <1>12 DEF EndInner
<1>13. ASSUME NEW w \in Inst, Worker(w) PROVE BurstInv'
  BY <1>13 DEF Worker, WorkerCheck, WorkerDequeue, WorkerEnqueue
<1>14. CASE Signal \/ TimeUp
  BY <1>14 DEF Signal, TimeUp
<1>15. CASE UNCHANGED vars
  BY <1>15 DEF vars
<1>16. QED
  BY <1>1, <1>2, <1>3, <1>4, <1>5, <1>6, <1>7, <1>8, <1>9, <1>10, <1>11,
     <1>12, <1>13, <1>14, <1>15 DEF Next, Main

\* Only leaving the loops and a failed start end the run.
LEMMA RunningStep == TypeOK /\ RunningInv /\ [Next]_vars => RunningInv'
<1> SUFFICES ASSUME TypeOK, RunningInv, [Next]_vars PROVE RunningInv'
  OBVIOUS
<1> USE DEF RunningInv, runVars, dealVars, histVars, workerVars, envVars
<1>1. CASE \E w \in Inst : Launch(w)
  BY <1>1 DEF Launch
<1>2. CASE StartMain \/ StartFails \/ LeaveLoop
  BY <1>2 DEF StartMain, StartFails, LeaveLoop, ToPostRun
<1>3. CASE PostSearch
  BY <1>3 DEF PostSearch
<1>4. CASE WaitWorkers
  BY <1>4 DEF WaitWorkers
<1>5. CASE \E n \in 1 .. EthBatch : Receive(n)
  BY <1>5 DEF Receive
<1>6. CASE PollIdle \/ TakeChunk \/ EndInner
  BY <1>6 DEF PollIdle, TakeChunk, EndInner
<1>7. CASE Enqueue \/ EndEnqueue
  BY <1>7 DEF Enqueue, EndEnqueue
<1>8. CASE Aggregate
  BY <1>8 DEF Aggregate
<1>9. CASE \E w \in Inst : Worker(w)
  <2>1. running' = running /\ main_pc' = main_pc
    BY <1>9, Zenon DEF Worker, WorkerCheck, WorkerDequeue, WorkerEnqueue
  <2>2. QED
    BY <2>1
<1>10. CASE Signal \/ TimeUp \/ UNCHANGED vars
  BY <1>10 DEF Signal, TimeUp, vars
<1>11. QED
  BY <1>1, <1>2, <1>3, <1>4, <1>5, <1>6, <1>7, <1>8, <1>9, <1>10 DEF Next, Main

(* Main never deals out mbufs that it does not hold, whatever the bursts, the idle
   polls and the signal: the jump into the inner loop with the counters of an older
   burst is harmless for every batch size. *)
THEOREM NeverDealsTwice == Spec => []DealsOnlyWhatItHolds
<1>1. BurstInv => DealsOnlyWhatItHolds
  BY DEF BurstInv, DealsOnlyWhatItHolds
<1>2. QED
  BY <1>1, TypeInit, TypeStep, BurstInit, BurstStep, PTL DEF Spec

-----------------------------------------------------------------------------
(* Facts about queues.                                                     *)

\* An empty queue in front of or behind another changes nothing.
LEMMA NoQueue ==
  ASSUME NEW a \in Seq(Nat)
  PROVE  a \o <<>> = a /\ <<>> \o a = a
BY ConcatEmptySeq

\* Queues can be put together in any order.
LEMMA QueuesAssociate ==
  ASSUME NEW a \in Seq(Nat), NEW b \in Seq(Nat), NEW c \in Seq(Nat)
  PROVE  (a \o b) \o c = a \o (b \o c)
BY ConcatAssociative

\* Concatenation under a name of its own, and what it does with queues: the
\* provers then need not look at the packets one by one.
Cat(a, b) == a \o b
Queues == Seq(Nat)

\* Concatenation makes queues of queues.
LEMMA CatQueue == \A a, b \in Queues : Cat(a, b) \in Queues
BY ConcatLen DEF Cat, Queues

\* It can be done in any order, ...
LEMMA CatAssociates ==
  \A a, b, c \in Queues : Cat(Cat(a, b), c) = Cat(a, Cat(b, c))
BY QueuesAssociate, Zenon DEF Cat, Queues

\* ... also with the four parts of a path.
LEMMA CatParts ==
  \A a, b, c, d \in Queues :
    /\ Cat(Cat(a, b), c) \in Queues /\ Cat(Cat(b, c), d) \in Queues
    /\ Cat(Cat(Cat(a, b), c), d) = Cat(a, Cat(Cat(b, c), d))
BY CatQueue, CatAssociates

\* A queue is what is taken off it, followed by what is left.
LEMMA SplitQueue ==
  ASSUME NEW q \in Seq(Nat), NEW n \in 0 .. Len(q)
  PROVE  Take(q, n) \o Drop(q, n) = q
<1>1. Len(q) \in Nat
  BY LenProperties
<1>2. 1 \in 1 .. Len(q) + 1 /\ n \in 1 - 1 .. Len(q) /\ Len(q) \in n .. Len(q)
  BY <1>1
<1>3. SubSeq(q, 1, n) \o SubSeq(q, n + 1, Len(q)) = SubSeq(q, 1, Len(q))
  BY <1>2, ConcatAdjacentSubSeq, Zenon
<1>4. QED
  BY <1>3, SubSeqFull DEF Take, Drop

\* A burst that found room is part of what there was to move.
LEMMA AtMostAll ==
  ASSUME NEW a \in Nat, NEW b \in Int, Lesser(a, b) > 0
  PROVE  Lesser(a, b) \in 0 .. a
BY DEF Lesser

\* Packets that move from the head of a queue to the end of the one before it.
LEMMA MoveUp ==
  ASSUME NEW a \in Seq(Nat), NEW q \in Seq(Nat), NEW n \in 0 .. Len(q)
  PROVE  (a \o Take(q, n)) \o Drop(q, n) = a \o q
<1>1. Take(q, n) \in Seq(Nat) /\ Drop(q, n) \in Seq(Nat)
  BY TakeDrop
<1>2. (a \o Take(q, n)) \o Drop(q, n) = a \o (Take(q, n) \o Drop(q, n))
  BY <1>1, QueuesAssociate, Zenon
<1>3. QED
  BY <1>2, SplitQueue

\* Two queues with the same elements in front of and behind a place n.
LEMMA FrontOff ==
  ASSUME NEW a \in Seq(Nat), NEW r \in Seq(Nat), NEW n \in 0 .. Len(a)
  PROVE  /\ SubSeq(a \o r, 1, n) = Take(a, n)
         /\ SubSeq(a \o r, n + 1, Len(a \o r)) = Drop(a, n) \o r
         /\ Len(a \o r) \in Nat /\ n <= Len(a \o r)
<1>1. /\ Len(a) \in Nat /\ Len(r) \in Nat /\ n \in Nat /\ n <= Len(a)
      /\ Len(a \o r) = Len(a) + Len(r) /\ a \o r \in Seq(Nat)
      /\ \A i \in 1 .. Len(a) : a[i] \in Nat
      /\ \A i \in 1 .. Len(a) + Len(r) : (a \o r)[i] \in Nat
  <2>1. a \o r \in Seq(Nat) /\ Len(a \o r) = Len(a) + Len(r)
    BY ConcatProperties
  <2>2. QED
    BY <2>1, ElementOfSeq, LenProperties
<1>2. /\ Take(a, n) \in Seq(Nat) /\ Len(Take(a, n)) = n
      /\ \A i \in 1 .. n : Take(a, n)[i] = a[i]
  <2>1. \A i \in 1 .. n : a[i] \in Nat
    BY <1>1
  <2>2. QED
    BY ONLY <1>1, <2>1, SubSeqProperties, SMTT(30) DEF Take
<1>3. /\ Drop(a, n) \in Seq(Nat) /\ Len(Drop(a, n)) = Len(a) - n
      /\ \A i \in 1 .. Len(a) - n : Drop(a, n)[i] = a[n + i]
  <2>1. \A i \in n + 1 .. Len(a) : a[i] \in Nat
    BY <1>1
  <2>2. n + 1 \in Int /\ Len(a) \in Int /\ Len(a) - (n + 1) + 1 = Len(a) - n
        /\ (IF n + 1 <= Len(a) THEN Len(a) - (n + 1) + 1 ELSE 0) = Len(a) - n
        /\ \A i \in 1 .. Len(a) - n : (n + 1) + i - 1 = n + i
    BY <1>1
  <2> DEFINE m == n + 1
             k == Len(a)
  <2>3. m \in Int /\ k \in Int /\ \A i \in m .. k : a[i] \in Nat
    BY <2>1, <2>2
  <2> HIDE DEF m, k
  <2>4. /\ SubSeq(a, m, k) \in Seq(Nat)
        /\ Len(SubSeq(a, m, k)) = IF m <= k THEN k - m + 1 ELSE 0
        /\ \A i \in 1 .. k - m + 1 : SubSeq(a, m, k)[i] = a[m + i - 1]
    BY ONLY <2>3, SubSeqProperties
  <2> DEFINE z == SubSeq(a, m, k)
  <2>5. /\ z \in Seq(Nat) /\ Len(z) = IF m <= k THEN k - m + 1 ELSE 0
        /\ \A i \in 1 .. k - m + 1 : z[i] = a[m + i - 1]
    BY <2>4
  <2> HIDE DEF z
  <2>6. Len(z) = Len(a) - n /\ \A i \in 1 .. Len(a) - n : z[i] = a[n + i]
    BY <2>2, <2>5 DEF m, k
  <2>7. z = Drop(a, n)
    BY Zenon DEF z, m, k, Drop
  <2>8. QED
    BY <2>5, <2>6, <2>7, Zenon
<1> DEFINE f == SubSeq(a \o r, 1, n)
           b == SubSeq(a \o r, n + 1, Len(a \o r))
           L == Len(a) + Len(r)
<1>4. f \in Seq(Nat) /\ Len(f) = n /\ \A i \in 1 .. n : f[i] = (a \o r)[i]
  <2>1. \A i \in 1 .. n : (a \o r)[i] \in Nat
    BY <1>1
  <2>2. QED
    BY ONLY <1>1, <2>1, SubSeqProperties, SMTT(30)
<1>5. b \in Seq(Nat) /\ Len(b) = L - n /\ \A i \in 1 .. L - n : b[i] = (a \o r)[n + i]
  <2>1. \A i \in n + 1 .. L : (a \o r)[i] \in Nat
    BY <1>1
  <2>2. QED
    BY ONLY <1>1, <2>1, SubSeqProperties, SMTT(30)
<1>6. \A i \in 1 .. L : (a \o r)[i] = IF i <= Len(a) THEN a[i] ELSE r[i - Len(a)]
  BY ConcatProperties
<1>7. /\ Drop(a, n) \o r \in Seq(Nat) /\ Len(Drop(a, n) \o r) = L - n
      /\ \A i \in 1 .. L - n :
           (Drop(a, n) \o r)[i] = IF i <= Len(a) - n THEN Drop(a, n)[i] ELSE r[i - (Len(a) - n)]
  <2>1. /\ Drop(a, n) \o r \in Seq(Nat)
        /\ Len(Drop(a, n) \o r) = Len(Drop(a, n)) + Len(r)
        /\ \A i \in 1 .. Len(Drop(a, n)) + Len(r) :
             (Drop(a, n) \o r)[i] = IF i <= Len(Drop(a, n)) THEN Drop(a, n)[i]
                                    ELSE r[i - Len(Drop(a, n))]
    BY <1>3, ConcatProperties
  <2>2. Len(Drop(a, n)) + Len(r) = L - n
    BY <1>1, <1>3
  <2>3. QED
    BY <1>3, <2>1, <2>2, Zenon
<1>8. f = Take(a, n)
  <2>1. \A i \in 1 .. n : f[i] = Take(a, n)[i]
    BY <1>1, <1>2, <1>4, <1>6
  <2> HIDE DEF f
  <2>2. QED
    BY <1>2, <1>4, <2>1, SeqEqual, Zenon
<1>9. b = Drop(a, n) \o r
  <2>1. ASSUME NEW i \in 1 .. L - n PROVE b[i] = (Drop(a, n) \o r)[i]
    <3>1. n + i \in 1 .. L /\ (n + i <= Len(a) <=> i <= Len(a) - n)
          /\ n + i - Len(a) = i - (Len(a) - n)
      BY <1>1
    <3>2. b[i] = IF i <= Len(a) - n THEN a[n + i] ELSE r[i - (Len(a) - n)]
      BY <1>5, <1>6, <3>1
    <3>3. i <= Len(a) - n => i \in 1 .. Len(a) - n
      BY <1>1
    <3> HIDE DEF b, L
    <3>4. QED
      BY <1>3, <1>7, <3>2, <3>3, Zenon
  <2> HIDE DEF b, L
  <2>2. QED
    BY <1>5, <1>7, <2>1, SeqEqual, Zenon
<1>10. Len(a \o r) \in Nat /\ n <= Len(a \o r)
  BY <1>1
<1>11. QED
  BY <1>8, <1>9, <1>10, Zenon

\* The front of two queues is the first of them.
LEMMA BackOff ==
  ASSUME NEW a \in Seq(Nat), NEW r \in Seq(Nat)
  PROVE  SubSeq(a \o r, 1, Len(a)) = a /\ Len(a) \in 0 .. Len(a \o r)
<1>1. Len(a) \in 0 .. Len(a)
  BY LenProperties
<1>2. Take(a, Len(a)) = a
  BY SubSeqFull DEF Take
<1>3. QED
  BY <1>1, <1>2, FrontOff

-----------------------------------------------------------------------------
(* A step of the data plane as a step of PathService.                      *)

\* What a path is made of, and what it is when the parts are put together otherwise.
LEMMA PathParts ==
  ASSUME NEW a \in Seq(Nat), NEW b \in Seq(Nat), NEW c \in Seq(Nat), NEW d \in Seq(Nat)
  PROVE  /\ a \o b \o c \in Seq(Nat) /\ b \o c \o d \in Seq(Nat)
         /\ a \o b \o c \o d = a \o (b \o c \o d)
<1>1. a \in Queues /\ b \in Queues /\ c \in Queues /\ d \in Queues
  BY Zenon DEF Queues
<1>2. /\ Cat(Cat(a, b), c) \in Queues /\ Cat(Cat(b, c), d) \in Queues
      /\ Cat(Cat(Cat(a, b), c), d) = Cat(a, Cat(Cat(b, c), d))
  BY <1>1, CatParts
<1>3. QED
  BY <1>2, Zenon DEF Cat, Queues

\* The end of the path through w that main still holds.
OnHold(w) == IF main_pc = "enq" /\ ring_in_index = w THEN chunk ELSE <<>>

\* The parts of a path are queues of packets.
LEMMA PartTypes ==
  ASSUME TypeOK, NEW w \in Inst
  PROVE  /\ ring_out[w] \in Seq(Nat) /\ mbufs_out[w] \in Seq(Nat)
         /\ ring_in[w] \in Seq(Nat) /\ OnHold(w) \in Seq(Nat)
         /\ Path(w) = ring_out[w] \o mbufs_out[w] \o ring_in[w] \o OnHold(w)
         /\ Path(w) \in Seq(Nat) /\ Len(Path(w)) \in Nat
<1>1. /\ ring_out[w] \in Seq(Nat) /\ mbufs_out[w] \in Seq(Nat)
      /\ ring_in[w] \in Seq(Nat) /\ chunk \in Seq(Nat)
  BY QueueTypes
<1>2. OnHold(w) \in Seq(Nat)
  BY <1>1, EmptySeq DEF OnHold
<1>3. Path(w) = ring_out[w] \o mbufs_out[w] \o ring_in[w] \o OnHold(w)
  BY Zenon DEF Path, OnHold
<1>4. ring_out[w] \o mbufs_out[w] \o ring_in[w] \o OnHold(w) \in Seq(Nat)
  <2>1. ring_out[w] \o mbufs_out[w] \o ring_in[w] \in Seq(Nat)
    BY <1>1, <1>2, PathParts
  <2>2. QED
    BY <1>2, <2>1, ConcatProperties
<1>5. QED
  BY <1>1, <1>2, <1>3, <1>4, LenProperties

\* The paths are seen as the queues of PathService; what leaves them, what was
\* numbered and whether the run is stopped as they are: a stutter.
LEMMA PathsStutter ==
  ASSUME \A w \in Inst : Path(w)' = Path(w), seqn' = seqn, sent' = sent, Closed' = Closed
  PROVE  UNCHANGED Paths!vars
<1>1. [w \in Inst |-> Path(w)]' = [w \in Inst |-> Path(w)]
  BY Zenon
<1>2. QED
  BY <1>1, Zenon DEF Paths!vars

\* Steps that touch no part of a path.
LEMMA PathsUnchanged ==
  ASSUME UNCHANGED <<ring_in, ring_out, mbufs_out>>, main_pc # "enq", main_pc' # "enq"
  PROVE  \A w \in Inst : Path(w)' = Path(w)
BY Zenon DEF Path

\* A stop is a close, or nothing if the run was stopped before.
LEMMA PathsClose ==
  ASSUME \A w \in Inst : Path(w)' = Path(w), seqn' = seqn, sent' = sent, Closed'
  PROVE  [Paths!Next]_(Paths!vars)
<1>1. [w \in Inst |-> Path(w)]' = [w \in Inst |-> Path(w)]
  BY Zenon
<1>2. CASE Closed
  <2>1. Closed' = Closed
    BY <1>2, Zenon DEF Closed
  <2>2. QED
    BY <2>1, PathsStutter
<1>3. CASE ~Closed
  <2>1. Paths!Close
    BY <1>1, <1>3, Zenon DEF Paths!Close
  <2>2. QED
    BY <2>1 DEF Paths!Next
<1>4. QED
  BY <1>2, <1>3

\* PathService's queues after a step that changes the path through p only.
LEMMA OnePath ==
  \A p \in Inst : \A q :
    /\ Path(p)' = q
    /\ \A w \in Inst \ {p} : Path(w)' = Path(w)
    => [w \in Inst |-> Path(w)]' = [[w \in Inst |-> Path(w)] EXCEPT ![p] = q]
<1> SUFFICES ASSUME NEW p \in Inst, NEW q, Path(p)' = q,
                    \A w \in Inst \ {p} : Path(w)' = Path(w)
             PROVE  [w \in Inst |-> Path(w)'] = [[w \in Inst |-> Path(w)] EXCEPT ![p] = q]
  BY Zenon
<1> DEFINE f == [w \in Inst |-> Path(w)]
           g == [w \in Inst |-> Path(w)']
<1>1. /\ f = [w \in Inst |-> f[w]] /\ g = [w \in Inst |-> g[w]]
      /\ \A w \in Inst : f[w] = Path(w) /\ g[w] = Path(w)'
  BY Zenon
<1> HIDE DEF f, g
<1>2. \A w \in Inst : g[w] = IF w = p THEN q ELSE f[w]
  BY <1>1, Zenon
<1>3. [f EXCEPT ![p] = q] = [w \in Inst |-> IF w = p THEN q ELSE f[w]]
  BY <1>1, Zenon
<1>4. g = [f EXCEPT ![p] = q]
  BY <1>1, <1>2, <1>3, Zenon
<1>5. QED
  BY <1>4, Zenon DEF f, g

\* Numbering a chunk puts it behind the packets of the path it is dealt to.
LEMMA ChunkBehind ==
  \A p \in Inst : TypeOK /\ TakeChunk /\ p = ring_in_index =>
    /\ Path(p)' = Path(p) \o [k \in 1 .. ChunkSize |-> seqn + k]
    /\ \A w \in Inst \ {p} : Path(w)' = Path(w)
<1> SUFFICES ASSUME NEW p \in Inst, TypeOK, TakeChunk, p = ring_in_index
             PROVE  /\ Path(p)' = Path(p) \o [k \in 1 .. ChunkSize |-> seqn + k]
                    /\ \A w \in Inst \ {p} : Path(w)' = Path(w)
  BY Zenon
<1> DEFINE new == [k \in 1 .. ChunkSize |-> seqn + k]
<1>1. /\ main_pc = "inner" /\ main_pc' = "enq" /\ ring_in_index' = p
      /\ chunk' = new /\ ring_in' = ring_in /\ ring_out' = ring_out
      /\ mbufs_out' = mbufs_out
  BY DEF TakeChunk, workerVars
<1>2. \A w \in Inst : OnHold(w) = <<>>
  BY <1>1 DEF OnHold
<1>3. \A w \in Inst \ {p} : Path(w)' = Path(w)
  BY <1>1 DEF Path
<1>4. Path(p)' = Path(p) \o new
  <2>1. /\ ring_out[p] \o mbufs_out[p] \o ring_in[p] \in Seq(Nat)
        /\ Path(p) = ring_out[p] \o mbufs_out[p] \o ring_in[p] \o <<>>
    <3>1. /\ ring_out[p] \in Seq(Nat) /\ mbufs_out[p] \in Seq(Nat)
          /\ ring_in[p] \in Seq(Nat)
          /\ Path(p) = ring_out[p] \o mbufs_out[p] \o ring_in[p] \o OnHold(p)
      BY PartTypes, Zenon
    <3>2. ring_out[p] \o mbufs_out[p] \o ring_in[p] \in Seq(Nat)
      <4>1. /\ ring_out[p] \in Queues /\ mbufs_out[p] \in Queues /\ ring_in[p] \in Queues
        BY <3>1, Zenon DEF Queues
      <4>2. Cat(Cat(ring_out[p], mbufs_out[p]), ring_in[p]) \in Queues
        BY <4>1, CatParts
      <4>3. QED
        BY <4>2, Zenon DEF Cat, Queues
    <3>3. QED
      BY <1>2, <3>1, <3>2, Zenon
  <2>2. Path(p) = ring_out[p] \o mbufs_out[p] \o ring_in[p]
    BY <2>1, NoQueue
  <2>3. Path(p)' = ring_out[p] \o mbufs_out[p] \o ring_in[p] \o new
    BY <1>1, Zenon DEF Path
  <2>4. QED
    BY <2>2, <2>3, Zenon
<1>5. QED
  BY <1>3, <1>4

\* seq_exec numbers a chunk: the packets are admitted to the path they are dealt to.
LEMMA TakeChunkAdmits ==
  TypeOK /\ BurstInv /\ RunningInv /\ TakeChunk => Paths!Next
<1> SUFFICES ASSUME TypeOK, BurstInv, RunningInv, TakeChunk PROVE Paths!Next
  OBVIOUS
<1>0. PICK p \in Inst : p = ring_in_index
  BY DEF TypeOK
<1> DEFINE new == [k \in 1 .. ChunkSize |-> seqn + k]
<1>1. /\ main_pc = "inner" /\ main_pc' = "enq" /\ ring_in_index' = p
      /\ chunk' = new /\ ring_in' = ring_in /\ ring_out' = ring_out
      /\ mbufs_out' = mbufs_out /\ seqn' = seqn + ChunkSize /\ sent' = sent
      /\ ~force_quit /\ force_quit' = force_quit /\ running' = running
  BY <1>0 DEF TakeChunk, runVars, dealVars, histVars, workerVars, envVars
<1>2. ChunkSize \in 1 .. MaxPkts - seqn
  BY SizesAssumption DEF TakeChunk, ChunkSize, Lesser, BurstInv, TypeOK
<1>3. ~Closed /\ Closed' = Closed
  BY <1>1, Zenon DEF Closed, RunningInv
<1>5. Path(p)' = Path(p) \o new /\ \A w \in Inst \ {p} : Path(w)' = Path(w)
  BY <1>0, ChunkBehind, Zenon
<1> HIDE DEF new
<1>7. [w \in Inst |-> Path(w)]'
        = [[w \in Inst |-> Path(w)] EXCEPT ![p] = Path(p) \o new]
  BY <1>5, OnePath, Zenon
<1>8. [w \in Inst |-> Path(w)][p] = Path(p)
  BY <1>1, Zenon
<1>9. Paths!Admit(p, ChunkSize)
  BY <1>1, <1>3, <1>7, <1>8, Zenon DEF Paths!Admit, new
<1>10. QED
  <2>1. p \in Paths!Paths
    BY <1>1, Zenon DEF Paths!Paths, Inst
  <2>2. QED
    BY <1>2, <1>9, <2>1, Zenon DEF Paths!Next

\* A burst of the spin loop of main, of a worker's dequeue or of its spin loop moves
\* packets from one part of a path to the part in front of it: the path stays as it is.
LEMMA EnqueueStutters == TypeOK /\ Enqueue => UNCHANGED Paths!vars
<1> SUFFICES ASSUME TypeOK, Enqueue PROVE UNCHANGED Paths!vars
  OBVIOUS
<1>0. PICK p \in Inst : p = ring_in_index
  BY DEF TypeOK
<1> DEFINE n == Lesser(Len(chunk), Room(ring_in[p]))
           a == ring_out[p] \o mbufs_out[p]
<1>1. /\ main_pc = "enq" /\ main_pc' = "enq" /\ ring_in_index' = ring_in_index
      /\ ring_in' = [ring_in EXCEPT ![p] = @ \o Take(chunk, n)] /\ chunk' = Drop(chunk, n)
      /\ ring_out' = ring_out /\ mbufs_out' = mbufs_out /\ seqn' = seqn /\ sent' = sent
      /\ force_quit' = force_quit /\ running' = running /\ n > 0
  BY <1>0, Zenon DEF Enqueue, runVars, dealVars, histVars, workerVars, envVars
<1>2. n \in 0 .. Len(chunk)
  BY <1>1, QueueTypes, SizesAssumption DEF Lesser, Room
<1>3. \A w \in Inst \ {p} : Path(w)' = Path(w)
  BY <1>0, <1>1 DEF Path, TypeOK
<1>4. Path(p)' = Path(p)
  <2>1. /\ ring_in[p] \in Seq(Nat) /\ chunk \in Seq(Nat)
        /\ Take(chunk, n) \in Seq(Nat) /\ Drop(chunk, n) \in Seq(Nat)
    BY <1>2, QueueTypes, TakeDrop, Zenon
  <2>2. a \in Seq(Nat)
    BY QueueTypes, ConcatProperties
  <2>3. ring_in'[p] = ring_in[p] \o Take(chunk, n)
    BY <1>1 DEF TypeOK
  <2>4. Path(p) = (a \o ring_in[p]) \o chunk
    BY <1>0, <1>1, Zenon DEF Path
  <2>5. Path(p)' = (a \o (ring_in[p] \o Take(chunk, n))) \o Drop(chunk, n)
    BY <1>0, <1>1, <2>3, Zenon DEF Path
  <2> HIDE DEF a, n
  <2>6. a \o ring_in[p] \in Seq(Nat)
    BY <2>1, <2>2, ConcatLen, Zenon
  <2>7. a \o (ring_in[p] \o Take(chunk, n)) = (a \o ring_in[p]) \o Take(chunk, n)
    BY <2>1, <2>2, QueuesAssociate, Zenon
  <2>8. ((a \o ring_in[p]) \o Take(chunk, n)) \o Drop(chunk, n) = (a \o ring_in[p]) \o chunk
    BY <1>2, <2>1, <2>6, MoveUp, Zenon
  <2>9. QED
    BY <2>4, <2>5, <2>7, <2>8, Zenon
<1>5. Closed' = Closed
  BY <1>1, Zenon DEF Closed
<1>6. QED
  BY <1>1, <1>3, <1>4, <1>5, PathsStutter, Zenon

\* A worker takes from its ring_in what it holds then: the path stays as it is.
LEMMA WorkerDequeueStutters ==
  \A w \in Inst : TypeOK /\ HandsEmpty /\ WorkerDequeue(w) => UNCHANGED Paths!vars
<1> SUFFICES ASSUME TypeOK, HandsEmpty, NEW p \in Inst, WorkerDequeue(p)
             PROVE  UNCHANGED Paths!vars
  OBVIOUS
<1> DEFINE n == Lesser(WorkerBurst, Len(ring_in[p]))
           h == OnHold(p)
<1>1. /\ worker_pc[p] = "deq" /\ main_pc' = main_pc /\ ring_in_index' = ring_in_index
      /\ mbufs_out' = [mbufs_out EXCEPT ![p] = Take(ring_in[p], n)]
      /\ ring_in' = [ring_in EXCEPT ![p] = Drop(@, n)] /\ chunk' = chunk
      /\ ring_out' = ring_out /\ seqn' = seqn /\ sent' = sent
      /\ force_quit' = force_quit /\ running' = running
  BY Zenon DEF WorkerDequeue, runVars, dealVars, histVars, workerVars, envVars
<1>2. n \in 0 .. Len(ring_in[p])
  BY QueueTypes, SizesAssumption DEF Lesser
<1>3. \A w \in Inst \ {p} : Path(w)' = Path(w)
  BY <1>1 DEF Path, TypeOK
<1>4. Path(p)' = Path(p)
  <2>1. /\ ring_in[p] \in Seq(Nat) /\ ring_out[p] \in Seq(Nat) /\ mbufs_out[p] = <<>>
        /\ Take(ring_in[p], n) \in Seq(Nat) /\ Drop(ring_in[p], n) \in Seq(Nat)
    BY <1>1, <1>2, QueueTypes, TakeDrop, Zenon DEF HandsEmpty
  <2>2. mbufs_out'[p] = Take(ring_in[p], n) /\ ring_in'[p] = Drop(ring_in[p], n)
    BY <1>1 DEF TypeOK
  <2>3. Path(p) = ((ring_out[p] \o <<>>) \o ring_in[p]) \o h
    BY <2>1, Zenon DEF Path, OnHold
  <2>4. Path(p)' = ((ring_out[p] \o Take(ring_in[p], n)) \o Drop(ring_in[p], n)) \o h
    BY <1>1, <2>2, Zenon DEF Path, OnHold
  <2> HIDE DEF n, h
  <2>5. ring_out[p] \o <<>> = ring_out[p]
    BY <2>1, NoQueue, Zenon
  <2>6. (ring_out[p] \o Take(ring_in[p], n)) \o Drop(ring_in[p], n) = ring_out[p] \o ring_in[p]
    BY <1>2, <2>1, MoveUp, Zenon
  <2>7. QED
    BY <2>3, <2>4, <2>5, <2>6, Zenon
<1>5. Closed' = Closed
  BY <1>1, Zenon DEF Closed
<1>6. QED
  BY <1>1, <1>3, <1>4, <1>5, PathsStutter, Zenon

\* A worker puts into its ring_out what it held before: the path stays as it is.
LEMMA WorkerEnqueueStutters ==
  \A w \in Inst : TypeOK /\ WorkerEnqueue(w) => UNCHANGED Paths!vars
<1> SUFFICES ASSUME TypeOK, NEW p \in Inst, WorkerEnqueue(p)
             PROVE  UNCHANGED Paths!vars
  OBVIOUS
<1> DEFINE n == Lesser(Len(mbufs_out[p]), Room(ring_out[p]))
           h == OnHold(p)
<1>1. /\ main_pc' = main_pc /\ ring_in_index' = ring_in_index /\ n > 0
      /\ ring_out' = [ring_out EXCEPT ![p] = @ \o Take(mbufs_out[p], n)]
      /\ mbufs_out' = [mbufs_out EXCEPT ![p] = Drop(@, n)] /\ chunk' = chunk
      /\ ring_in' = ring_in /\ seqn' = seqn /\ sent' = sent
      /\ force_quit' = force_quit /\ running' = running
  BY Zenon DEF WorkerEnqueue, runVars, dealVars, histVars, workerVars, envVars
<1>2. n \in 0 .. Len(mbufs_out[p])
  <2>1. /\ Len(mbufs_out[p]) \in Nat /\ Len(ring_out[p]) \in Nat /\ RingCap \in Nat
    BY QueueTypes, LenProperties, SizesAssumption
  <2>2. n > 0
    BY <1>1
  <2>3. Room(ring_out[p]) \in Int
    BY <2>1 DEF Room
  <2>4. QED
    BY <2>1, <2>2, <2>3, AtMostAll, Zenon
<1>3. \A w \in Inst \ {p} : Path(w)' = Path(w)
  BY <1>1 DEF Path, TypeOK
<1>4. Path(p)' = Path(p)
  <2>1. /\ mbufs_out[p] \in Seq(Nat) /\ ring_out[p] \in Seq(Nat)
        /\ Take(mbufs_out[p], n) \in Seq(Nat) /\ Drop(mbufs_out[p], n) \in Seq(Nat)
    BY <1>2, QueueTypes, TakeDrop, Zenon
  <2>2. /\ mbufs_out'[p] = Drop(mbufs_out[p], n)
        /\ ring_out'[p] = ring_out[p] \o Take(mbufs_out[p], n)
    BY <1>1 DEF TypeOK
  <2>3. Path(p) = ((ring_out[p] \o mbufs_out[p]) \o ring_in[p]) \o h
    BY Zenon DEF Path, OnHold
  <2>4. Path(p)' = (((ring_out[p] \o Take(mbufs_out[p], n)) \o Drop(mbufs_out[p], n))
                      \o ring_in[p]) \o h
    BY <1>1, <2>2, Zenon DEF Path, OnHold
  <2> HIDE DEF n, h
  <2>5. (ring_out[p] \o Take(mbufs_out[p], n)) \o Drop(mbufs_out[p], n)
          = ring_out[p] \o mbufs_out[p]
    BY <1>2, <2>1, MoveUp, Zenon
  <2>6. QED
    BY <2>3, <2>4, <2>5, Zenon
<1>5. Closed' = Closed
  BY <1>1, Zenon DEF Closed
<1>6. QED
  BY <1>1, <1>3, <1>4, <1>5, PathsStutter, Zenon

\* A path begins with the ring_out that main empties.
LEMMA PathFront ==
  \A p \in Inst : TypeOK =>
    \E r \in Seq(Nat) : /\ Path(p) = ring_out[p] \o r
                        /\ r = mbufs_out[p] \o ring_in[p] \o OnHold(p)
<1> SUFFICES ASSUME NEW p \in Inst, TypeOK
             PROVE \E r \in Seq(Nat) : /\ Path(p) = ring_out[p] \o r
                                       /\ r = mbufs_out[p] \o ring_in[p] \o OnHold(p)
  BY Zenon
<1> DEFINE a == ring_out[p]
           b == mbufs_out[p]
           c == ring_in[p]
           d == OnHold(p)
<1>1. /\ a \in Seq(Nat) /\ b \in Seq(Nat) /\ c \in Seq(Nat) /\ d \in Seq(Nat)
      /\ Path(p) = a \o b \o c \o d
  BY PartTypes, Zenon
<1> HIDE DEF a, b, c, d
<1>2. b \o c \o d \in Seq(Nat) /\ a \o b \o c \o d = a \o (b \o c \o d)
  <2>1. a \in Queues /\ b \in Queues /\ c \in Queues /\ d \in Queues
    BY <1>1, Zenon DEF Queues
  <2>2. /\ Cat(Cat(b, c), d) \in Queues
        /\ Cat(Cat(Cat(a, b), c), d) = Cat(a, Cat(Cat(b, c), d))
    BY <2>1, CatParts
  <2>3. QED
    BY <2>2, Zenon DEF Cat, Queues
<1>3. Path(p) = a \o (b \o c \o d) /\ b \o c \o d \in Seq(Nat)
  BY <1>1, <1>2, Zenon
<1>4. QED
  BY <1>3, Zenon DEF a, b, c, d

\* Taking n packets off a ring_out takes them off the head of its path.
LEMMA CollectStep ==
  \A p \in Inst : \A n \in 0 .. Len(ring_out[p]) :
    /\ TypeOK /\ main_pc # "enq" /\ main_pc' # "enq"
    /\ ring_out' = [ring_out EXCEPT ![p] = Drop(@, n)]
    /\ UNCHANGED <<ring_in, mbufs_out>>
    => /\ \A w \in Inst \ {p} : Path(w)' = Path(w)
       /\ Path(p)' = SubSeq(Path(p), n + 1, Len(Path(p)))
       /\ Take(ring_out[p], n) = SubSeq(Path(p), 1, n)
       /\ n \in 0 .. Len(Path(p))
<1> SUFFICES ASSUME NEW p \in Inst, NEW n \in 0 .. Len(ring_out[p]),
                    TypeOK, main_pc # "enq", main_pc' # "enq",
                    ring_out' = [ring_out EXCEPT ![p] = Drop(@, n)],
                    UNCHANGED <<ring_in, mbufs_out>>
             PROVE  /\ \A w \in Inst \ {p} : Path(w)' = Path(w)
                    /\ Path(p)' = SubSeq(Path(p), n + 1, Len(Path(p)))
                    /\ Take(ring_out[p], n) = SubSeq(Path(p), 1, n)
                    /\ n \in 0 .. Len(Path(p))
  BY Zenon
<1>1. \A w \in Inst \ {p} : Path(w)' = Path(w)
  BY DEF Path, TypeOK
<1>2. PICK r \in Seq(Nat) : /\ Path(p) = ring_out[p] \o r
                            /\ r = mbufs_out[p] \o ring_in[p] \o OnHold(p)
  BY PathFront, Zenon
<1>3. /\ ring_out[p] \in Seq(Nat) /\ mbufs_out[p] \in Seq(Nat) /\ ring_in[p] \in Seq(Nat)
      /\ Drop(ring_out[p], n) \in Seq(Nat) /\ <<>> \in Seq(Nat)
  BY QueueTypes, TakeDrop, EmptySeq, Zenon
<1>4. /\ SubSeq(ring_out[p] \o r, 1, n) = Take(ring_out[p], n)
      /\ SubSeq(ring_out[p] \o r, n + 1, Len(ring_out[p] \o r)) = Drop(ring_out[p], n) \o r
      /\ Len(ring_out[p] \o r) \in Nat /\ n <= Len(ring_out[p] \o r)
  BY <1>3, FrontOff, Zenon
<1>5. Path(p)' = Drop(ring_out[p], n) \o r
  <2>1. OnHold(p) = <<>>
    BY Zenon DEF OnHold
  <2>2. ring_out'[p] = Drop(ring_out[p], n)
    BY DEF TypeOK
  <2>3. Path(p)' = Drop(ring_out[p], n) \o mbufs_out[p] \o ring_in[p] \o <<>>
    BY <2>2, Zenon DEF Path
  <2>4. r = mbufs_out[p] \o ring_in[p] \o <<>>
    BY <1>2, <2>1, Zenon
  <2> DEFINE a == Drop(ring_out[p], n)
             b == mbufs_out[p]
             c == ring_in[p]
             d == <<>>
  <2>5. a \o b \o c \o d = a \o (b \o c \o d)
    <3>1. a \in Seq(Nat) /\ b \in Seq(Nat) /\ c \in Seq(Nat) /\ d \in Seq(Nat)
      BY <1>3, Zenon
    <3> HIDE DEF a, b, c, d
    <3>2. a \in Queues /\ b \in Queues /\ c \in Queues /\ d \in Queues
      BY <3>1, Zenon DEF Queues
    <3>3. Cat(Cat(Cat(a, b), c), d) = Cat(a, Cat(Cat(b, c), d))
      BY <3>2, CatParts
    <3>4. QED
      BY <3>3, Zenon DEF Cat
  <2>6. QED
    BY <2>3, <2>4, <2>5, Zenon
<1>6. n \in 0 .. Len(Path(p))
  <2>1. n \in Nat
    BY <1>3, LenProperties
  <2>2. Len(Path(p)) \in Nat /\ n <= Len(Path(p))
    BY <1>2, <1>4, Zenon
  <2>3. QED
    BY <2>1, <2>2
<1>7. QED
  BY <1>1, <1>2, <1>4, <1>5, <1>6, Zenon

\* Collecting a burst delivers it from the head of a path.
LEMMA AggregateDelivers ==
  TypeOK /\ Aggregate => [Paths!Next]_(Paths!vars)
<1> SUFFICES ASSUME TypeOK, Aggregate PROVE [Paths!Next]_(Paths!vars)
  OBVIOUS
<1>0. PICK p \in Inst : p = ring_out_index
  BY DEF TypeOK
<1> DEFINE n == Lesser(BatchOut, Len(ring_out[p]))
<1>1. /\ main_pc = "deq" /\ main_pc' = "inner" /\ sent' = sent \o Take(ring_out[p], n)
      /\ ring_out' = [ring_out EXCEPT ![p] = Drop(@, n)]
      /\ ring_in' = ring_in /\ mbufs_out' = mbufs_out /\ seqn' = seqn
      /\ force_quit' = force_quit /\ running' = running
  BY <1>0, Zenon DEF Aggregate, runVars, dealVars, histVars, workerVars, envVars
<1>2. n \in 0 .. Len(ring_out[p])
  BY QueueTypes, SizesAssumption DEF Lesser
<1> HIDE DEF n
<1>3. /\ \A w \in Inst \ {p} : Path(w)' = Path(w)
      /\ Path(p)' = SubSeq(Path(p), n + 1, Len(Path(p)))
      /\ Take(ring_out[p], n) = SubSeq(Path(p), 1, n)
      /\ n \in 0 .. Len(Path(p))
  BY <1>1, <1>2, CollectStep, Zenon
<1>4. Closed' = Closed
  BY <1>1, Zenon DEF Closed
<1>5. [w \in Inst |-> Path(w)]'
        = [[w \in Inst |-> Path(w)] EXCEPT ![p] = SubSeq(Path(p), n + 1, Len(Path(p)))]
  BY <1>3, OnePath, Zenon
<1>6. [w \in Inst |-> Path(w)][p] = Path(p)
  BY Zenon
<1>7. Paths!Deliver(p, n)
  BY <1>1, <1>3, <1>4, <1>5, <1>6, Zenon DEF Paths!Deliver
<1>8. CASE n > 0
  <2>1. n \in 1 .. Len(Path(p)) /\ p \in Paths!Paths
    BY <1>3, <1>8 DEF Paths!Paths, Inst
  <2>2. QED
    BY <1>6, <1>7, <2>1, Zenon DEF Paths!Next
<1>9. CASE n = 0
  <2>1. ring_out[p] \in Seq(Nat) /\ sent \in Seq(Nat)
    BY DEF TypeOK
  <2>2. Take(ring_out[p], n) = <<>> /\ Drop(ring_out[p], n) = ring_out[p]
    <3>1. Take(ring_out[p], 0) = <<>>
      BY SubSeqEmpty DEF Take
    <3>2. Drop(ring_out[p], 0) = ring_out[p]
      BY <2>1, SubSeqFull DEF Drop
    <3>3. QED
      BY <1>9, <3>1, <3>2, Zenon
  <2>3. sent' = sent
    BY <1>1, <2>1, <2>2, NoQueue, Zenon
  <2>4. ring_out' = ring_out
    BY <1>1, <2>1, <2>2 DEF TypeOK
  <2>5. \A w \in Inst : Path(w)' = Path(w)
    BY <1>1, <2>4, PathsUnchanged
  <2>6. QED
    BY <1>1, <1>4, <2>3, <2>5, PathsStutter, Zenon
<1>10. QED
  BY <1>2, <1>8, <1>9

\* What post_search frees is given up at the head of a path, the run being over.
LEMMA PostSearchGivesUp ==
  TypeOK /\ RunningInv /\ PostSearch => Paths!Next
<1> SUFFICES ASSUME TypeOK, RunningInv, PostSearch PROVE Paths!Next
  OBVIOUS
<1>0. PICK p \in Inst : p = ring_out_index
  BY DEF TypeOK
<1> DEFINE n == Lesser(BatchIn, Len(ring_out[p]))
<1>1. /\ main_pc = "post" /\ main_pc' # "enq" /\ sent' = sent
      /\ ring_out' = [ring_out EXCEPT ![p] = Drop(@, n)]
      /\ ring_in' = ring_in /\ mbufs_out' = mbufs_out /\ seqn' = seqn
      /\ force_quit' = force_quit /\ running' = running
  BY <1>0 DEF PostSearch, runVars, dealVars, histVars, workerVars, envVars
<1>2. n \in 0 .. Len(ring_out[p])
  BY QueueTypes, SizesAssumption DEF Lesser
<1> HIDE DEF n
<1>3. /\ \A w \in Inst \ {p} : Path(w)' = Path(w)
      /\ Path(p)' = SubSeq(Path(p), n + 1, Len(Path(p)))
      /\ n \in 0 .. Len(Path(p))
  BY <1>1, <1>2, CollectStep, Zenon
<1>4. Closed /\ Closed' = Closed
  BY <1>1, Zenon DEF Closed, RunningInv
<1>5. [w \in Inst |-> Path(w)]'
        = [[w \in Inst |-> Path(w)] EXCEPT ![p] = SubSeq(Path(p), n + 1, Len(Path(p)))]
  BY <1>3, OnePath, Zenon
<1>6. [w \in Inst |-> Path(w)][p] = Path(p)
  BY Zenon
<1>7. Paths!GiveUp(p, n + 1, Len(Path(p)))
  BY <1>1, <1>4, <1>5, <1>6, Zenon DEF Paths!GiveUp
<1>8. p \in Paths!Paths
  BY DEF Paths!Paths, Inst
<1>9. Len(Path(p)) \in 0 .. Len(Path(p))
  BY PartTypes
<1>10. QED
  BY <1>3, <1>6, <1>7, <1>8, <1>9, Zenon DEF Paths!Next

\* Ending the spin loop takes what is left of the chunk off the end of its path.
LEMMA ChunkGivenUp ==
  \A p \in Inst : TypeOK /\ EndEnqueue /\ p = ring_in_index =>
    /\ Path(p)' \in Seq(Nat) /\ Path(p) = Path(p)' \o chunk
    /\ \A w \in Inst \ {p} : Path(w)' = Path(w)
<1> SUFFICES ASSUME NEW p \in Inst, TypeOK, EndEnqueue, p = ring_in_index
             PROVE  /\ Path(p)' \in Seq(Nat) /\ Path(p) = Path(p)' \o chunk
                    /\ \A w \in Inst \ {p} : Path(w)' = Path(w)
  BY Zenon
<1> DEFINE a == ring_out[p] \o mbufs_out[p] \o ring_in[p]
<1>1. /\ main_pc = "enq" /\ main_pc' = "deq"
      /\ UNCHANGED <<ring_out, ring_in, mbufs_out>>
  BY Zenon DEF EndEnqueue, workerVars
<1>2. \A w \in Inst \ {p} : Path(w)' = Path(w)
  BY <1>1 DEF Path
<1>3. /\ a \in Seq(Nat) /\ Path(p) = a \o chunk
  <2>1. /\ ring_out[p] \in Seq(Nat) /\ mbufs_out[p] \in Seq(Nat)
        /\ ring_in[p] \in Seq(Nat) /\ chunk \in Seq(Nat)
    BY QueueTypes, Zenon
  <2>2. a \in Seq(Nat)
    <3>1. ring_out[p] \o mbufs_out[p] \in Seq(Nat)
      BY <2>1, ConcatLen, Zenon
    <3>2. QED
      BY <2>1, <3>1, ConcatLen, Zenon
  <2>3. Path(p) = a \o chunk
    BY <1>1, Zenon DEF Path
  <2>4. QED
    BY <2>2, <2>3, Zenon
<1>4. Path(p)' = a
  <2>1. Path(p)' = a \o <<>>
    BY <1>1, Zenon DEF Path
  <2>2. QED
    BY <1>3, <2>1, NoQueue, Zenon
<1> HIDE DEF a
<1>5. QED
  BY <1>2, <1>3, <1>4, Zenon

\* A chunk that a signal made main give up is given up at the end of its path.
LEMMA EndEnqueueGivesUp ==
  TypeOK /\ EndEnqueue => [Paths!Next]_(Paths!vars)
<1> SUFFICES ASSUME TypeOK, EndEnqueue PROVE [Paths!Next]_(Paths!vars)
  OBVIOUS
<1>0. PICK p \in Inst : p = ring_in_index
  BY DEF TypeOK
<1> DEFINE a == Path(p)'
<1>1. /\ main_pc = "enq" /\ main_pc' = "deq" /\ (chunk = <<>> \/ force_quit)
      /\ UNCHANGED <<ring_out, ring_in, mbufs_out, seqn, sent, force_quit, running>>
  BY Zenon DEF EndEnqueue, runVars, dealVars, histVars, workerVars, envVars
<1>2. /\ a \in Seq(Nat) /\ Path(p) = a \o chunk /\ Path(p)' = a
      /\ \A w \in Inst \ {p} : Path(w)' = Path(w)
  BY <1>0, ChunkGivenUp, Zenon
<1>3. chunk \in Seq(Nat)
  BY QueueTypes
<1> HIDE DEF a
<1>5. Closed' = Closed
  BY <1>1, Zenon DEF Closed
<1>6. CASE chunk = <<>>
  <2>1. Path(p)' = Path(p)
    BY <1>2, <1>6, NoQueue, Zenon
  <2>2. QED
    BY <1>1, <1>2, <1>5, <2>1, PathsStutter, Zenon
<1>7. CASE force_quit
  <2>1. Closed
    BY <1>7, Zenon DEF Closed
  <2>2. Path(p)' = SubSeq(Path(p), 1, Len(a)) /\ Len(a) \in 0 .. Len(Path(p))
    BY ONLY <1>2, <1>3, BackOff
  <2>3. [w \in Inst |-> Path(w)]'
          = [[w \in Inst |-> Path(w)] EXCEPT ![p] = SubSeq(Path(p), 1, Len(a))]
    BY <1>2, <2>2, OnePath, Zenon
  <2>4. [w \in Inst |-> Path(w)][p] = Path(p)
    BY Zenon
  <2>5. Paths!GiveUp(p, 1, Len(a))
    BY <1>1, <1>5, <2>1, <2>3, <2>4, Zenon DEF Paths!GiveUp
  <2>6. p \in Paths!Paths /\ 0 \in 0 .. Len(Path(p)) /\ 1 = 0 + 1
    BY PartTypes DEF Paths!Paths, Inst
  <2>7. QED
    BY <2>2, <2>4, <2>5, <2>6, Zenon DEF Paths!Next
<1>8. QED
  BY <1>1, <1>6, <1>7

-----------------------------------------------------------------------------
(* The refinement.                                                         *)

\* Steps of a lcore or of the environment that touch no queue of packets: polls, the
\* launch, the checks of the loops, the clock.
LEMMA QuietStutters ==
  ASSUME UNCHANGED <<ring_out, ring_in, mbufs_out, chunk, seqn, sent, ring_in_index,
                     force_quit, running>>,
         main_pc' = main_pc \/ (main_pc # "enq" /\ main_pc' # "enq")
  PROVE  UNCHANGED Paths!vars
<1>1. \A w \in Inst : Path(w)' = Path(w)
  BY Zenon DEF Path
<1>2. Closed' = Closed
  BY Zenon DEF Closed
<1>3. QED
  BY <1>1, <1>2, PathsStutter, Zenon

\* A signal, and the end of main's loop, stop the service.
LEMMA StopCloses ==
  ASSUME UNCHANGED <<ring_out, ring_in, mbufs_out, chunk, seqn, sent, ring_in_index>>,
         main_pc' = main_pc \/ (main_pc # "enq" /\ main_pc' # "enq"),
         force_quit' \/ ~running'
  PROVE  [Paths!Next]_(Paths!vars)
<1>1. \A w \in Inst : Path(w)' = Path(w)
  BY Zenon DEF Path
<1>2. Closed'
  BY Zenon DEF Closed
<1>3. QED
  BY <1>1, <1>2, PathsClose, Zenon

\* All paths are empty when the run begins.
LEMMA PathsInit == Init => Paths!Init
<1> SUFFICES ASSUME Init PROVE Paths!Init
  OBVIOUS
<1>1. Closed = FALSE /\ seqn = 0 /\ sent = <<>>
  BY DEF Init, Closed
<1>2. \A w \in Inst : Path(w) = <<>>
  <2>1. TAKE w \in Inst
  <2>2. Path(w) = <<>> \o <<>> \o <<>> \o <<>>
    BY DEF Init, Path
  <2>3. <<>> \o <<>> = <<>>
    BY EmptySeq, NoQueue
  <2>4. QED
    BY <2>2, <2>3, Zenon
<1>3. [w \in Inst |-> Path(w)] = [w \in Paths!Paths |-> <<>>]
  BY <1>2, Zenon DEF Inst, Paths!Paths
<1>4. QED
  BY <1>1, <1>3, Zenon DEF Paths!Init

\* Every step of the data plane is a step of the bundle of paths, or none.
LEMMA StepRefines ==
  TypeOK /\ HandsEmpty /\ BurstInv /\ RunningInv /\ [Next]_vars
    => [Paths!Next]_(Paths!vars)
<1> SUFFICES ASSUME TypeOK, HandsEmpty, BurstInv, RunningInv, [Next]_vars
             PROVE  [Paths!Next]_(Paths!vars)
  OBVIOUS
<1> USE DEF runVars, dealVars, histVars, workerVars, envVars
<1>1. CASE \E w \in Inst : Launch(w)
  BY <1>1, QuietStutters, Zenon DEF Launch
<1>2. CASE StartMain
  BY <1>2, QuietStutters DEF StartMain
<1>3. CASE StartFails \/ LeaveLoop
  BY <1>3, StopCloses DEF StartFails, LeaveLoop, ToPostRun
<1>4. CASE PostSearch
  BY <1>4, PostSearchGivesUp, Zenon
<1>5. CASE WaitWorkers
  BY <1>5, QuietStutters DEF WaitWorkers
<1>6. CASE \E n \in 1 .. EthBatch : Receive(n)
  BY <1>6, QuietStutters DEF Receive
<1>7. CASE PollIdle
  BY <1>7, QuietStutters DEF PollIdle
<1>8. CASE TakeChunk
  BY <1>8, TakeChunkAdmits, Zenon
<1>9. CASE Enqueue
  BY <1>9, EnqueueStutters, Zenon
<1>10. CASE EndEnqueue
  BY <1>10, EndEnqueueGivesUp, Zenon
<1>11. CASE Aggregate
  BY <1>11, AggregateDelivers, Zenon
<1>12. CASE EndInner
  BY <1>12, QuietStutters DEF EndInner
<1>13. ASSUME NEW w \in Inst, Worker(w) PROVE [Paths!Next]_(Paths!vars)
  <2>1. CASE WorkerCheck(w)
    BY <2>1, QuietStutters, Zenon DEF WorkerCheck
  <2>2. CASE WorkerDequeue(w)
    BY <2>2, WorkerDequeueStutters, Zenon
  <2>3. CASE WorkerEnqueue(w)
    BY <2>3, WorkerEnqueueStutters, Zenon
  <2>4. QED
    BY <1>13, <2>1, <2>2, <2>3 DEF Worker
<1>14. CASE Signal
  BY <1>14, StopCloses, Zenon DEF Signal
<1>15. CASE TimeUp \/ UNCHANGED vars
  BY <1>15, QuietStutters, Zenon DEF TimeUp, vars
<1>16. QED
  BY <1>1, <1>2, <1>3, <1>4, <1>5, <1>6, <1>7, <1>8, <1>9, <1>10, <1>11,
     <1>12, <1>13, <1>14, <1>15 DEF Next, Main

(* For every number of instances and all sizes, the lcores with their rings, bursts
   and round robins are a bundle of FIFO paths: each packet is admitted once, in order,
   to one path, stays behind those admitted to it before and leaves it once; packets
   are given up only after a signal or the end of the loop. *)
THEOREM ImplementsPathService == Spec => RefinesPathService
<1>1. Init => BurstInv /\ RunningInv /\ HandsEmpty
  BY BurstInit, RunningInit DEF Init, HandsEmpty
<1>2. QED
  BY <1>1, TypeInit, TypeStep, HandsStep, BurstStep, RunningStep, PathsInit, StepRefines,
     PTL DEF Spec, RefinesPathService, Paths!Spec

-----------------------------------------------------------------------------
(* Containers of packets.                                                  *)

\* Containers C with L[c] packets each, F[c][1] to F[c][L[c]], hold the packets 1 .. m,
\* each in one place.
Placed(C, F, L, m) ==
  /\ \A c \in C : \A i \in 1 .. L[c] : F[c][i] \in 1 .. m
  /\ \A p \in 1 .. m : \E c \in C : \E i \in 1 .. L[c] : F[c][i] = p
  /\ \A c, d \in C : \A i \in 1 .. L[c] : \A j \in 1 .. L[d] :
       F[c][i] = F[d][j] => c = d /\ i = j

\* From F and L to G and K: the numbers m + 1 .. m + n come behind the packets of a.
Admitted(C, F, L, G, K, a, m, n) ==
  /\ \A c \in C \ {a} : G[c] = F[c] /\ K[c] = L[c]
  /\ K[a] = L[a] + n
  /\ \A i \in 1 .. K[a] : G[a][i] = IF i <= L[a] THEN F[a][i] ELSE m + (i - L[a])

\* From F and L to G and K: the n packets behind the first s of a move to the end of b.
Moved(C, F, L, G, K, a, b, s, n) ==
  /\ \A c \in C \ {a, b} : G[c] = F[c] /\ K[c] = L[c]
  /\ s + n <= L[a] /\ K[a] = L[a] - n /\ K[b] = L[b] + n
  /\ \A i \in 1 .. K[a] : G[a][i] = IF i <= s THEN F[a][i] ELSE F[a][i + n]
  /\ \A i \in 1 .. K[b] : G[b][i] = IF i <= L[b] THEN F[b][i] ELSE F[a][s + (i - L[b])]

\* New numbers behind the packets of one container.
LEMMA PlacedAdmit ==
  ASSUME NEW C, NEW F, NEW G, NEW L \in [C -> Nat], NEW K \in [C -> Nat],
         NEW m \in Nat, NEW n \in Nat, NEW a \in C,
         Placed(C, F, L, m),
         Admitted(C, F, L, G, K, a, m, n)
  PROVE  Placed(C, G, K, m + n)
<1>a. /\ \A c \in C \ {a} : G[c] = F[c] /\ K[c] = L[c]
      /\ K[a] = L[a] + n
      /\ \A i \in 1 .. K[a] : G[a][i] = IF i <= L[a] THEN F[a][i] ELSE m + (i - L[a])
  BY DEF Admitted
<1> USE <1>a
<1>8. /\ \A c \in C : \A i \in 1 .. L[c] : F[c][i] \in 1 .. m
      /\ \A p \in 1 .. m : \E c \in C : \E i \in 1 .. L[c] : F[c][i] = p
      /\ \A c, d \in C : \A i \in 1 .. L[c] : \A j \in 1 .. L[d] :
           F[c][i] = F[d][j] => c = d /\ i = j
  BY DEF Placed
<1>1. ASSUME NEW c \in C, NEW i \in 1 .. K[c]
      PROVE  \/ i \in 1 .. L[c] /\ G[c][i] = F[c][i]
             \/ c = a /\ i \in L[a] + 1 .. L[a] + n /\ G[c][i] = m + (i - L[a])
  BY <1>1
<1>2. \A c \in C : \A i \in 1 .. L[c] : i \in 1 .. K[c] /\ G[c][i] = F[c][i]
  OBVIOUS
<1>3. \A c \in C : \A i \in 1 .. L[c] : F[c][i] \in 1 .. m
  BY DEF Placed
<1>4. ASSUME NEW c \in C, NEW i \in 1 .. K[c] PROVE G[c][i] \in 1 .. m + n
  BY <1>1, <1>3
<1>5. ASSUME NEW p \in 1 .. m + n
      PROVE  \E c \in C : \E i \in 1 .. K[c] : G[c][i] = p
  <2>1. CASE p \in 1 .. m
    <3>1. PICK c \in C : \E i \in 1 .. L[c] : F[c][i] = p
      BY <1>8, <2>1
    <3>2. PICK i \in 1 .. L[c] : F[c][i] = p
      BY <3>1
    <3>3. QED
      BY <1>2, <3>2
  <2>2. CASE p \notin 1 .. m
    <3>1. /\ L[a] + (p - m) \in 1 .. K[a] /\ ~(L[a] + (p - m) <= L[a])
          /\ m + ((L[a] + (p - m)) - L[a]) = p
      BY <2>2
    <3>2. QED
      BY <3>1
  <2>3. QED
    BY <2>1, <2>2
<1>6. ASSUME NEW c \in C, NEW d \in C, NEW i \in 1 .. K[c], NEW j \in 1 .. K[d],
             G[c][i] = G[d][j]
      PROVE  c = d /\ i = j
  <2>1. CASE i \in 1 .. L[c] /\ G[c][i] = F[c][i] /\ j \in 1 .. L[d] /\ G[d][j] = F[d][j]
    <3>1. F[c][i] = F[d][j]
      BY <1>6, <2>1
    <3>2. \A k \in 1 .. L[c] : \A l \in 1 .. L[d] : F[c][k] = F[d][l] => c = d /\ k = l
      BY <1>8
    <3>3. QED
      BY ONLY <2>1, <3>1, <3>2
  <2>2. CASE /\ c = a /\ i \in L[a] + 1 .. L[a] + n /\ G[c][i] = m + (i - L[a])
             /\ d = a /\ j \in L[a] + 1 .. L[a] + n /\ G[d][j] = m + (j - L[a])
    BY <1>6, <2>2
  <2>3. CASE /\ i \in 1 .. L[c] /\ G[c][i] = F[c][i]
             /\ j \in L[a] + 1 .. L[a] + n /\ G[d][j] = m + (j - L[a])
    <3>1. F[c][i] \in 1 .. m
      BY <1>3, <2>3
    <3>2. G[c][i] <= m /\ G[d][j] > m
      BY <2>3, <3>1
    <3>3. QED
      BY <1>6, <2>3, <3>1, <3>2
  <2>4. CASE /\ j \in 1 .. L[d] /\ G[d][j] = F[d][j]
             /\ i \in L[a] + 1 .. L[a] + n /\ G[c][i] = m + (i - L[a])
    <3>1. F[d][j] \in 1 .. m
      BY <1>3, <2>4
    <3>2. G[d][j] <= m /\ G[c][i] > m
      BY <2>4, <3>1
    <3>3. QED
      BY <1>6, <2>4, <3>1, <3>2
  <2>5. QED
    BY <1>1, <2>1, <2>2, <2>3, <2>4
<1>7. QED
  BY <1>4, <1>5, <1>6 DEF Placed

\* The n packets behind the first s of container a move to the end of container b.
LEMMA PlacedMove ==
  ASSUME NEW C, NEW F, NEW G, NEW L \in [C -> Nat], NEW K \in [C -> Nat],
         NEW m \in Nat, NEW n \in Nat, NEW s \in Nat, NEW a \in C, NEW b \in C, a # b,
         Placed(C, F, L, m),
         Moved(C, F, L, G, K, a, b, s, n)
  PROVE  Placed(C, G, K, m)
<1>m. /\ \A c \in C \ {a, b} : G[c] = F[c] /\ K[c] = L[c]
      /\ s + n <= L[a] /\ K[a] = L[a] - n /\ K[b] = L[b] + n
      /\ \A i \in 1 .. K[a] : G[a][i] = IF i <= s THEN F[a][i] ELSE F[a][i + n]
      /\ \A i \in 1 .. K[b] : G[b][i] = IF i <= L[b] THEN F[b][i] ELSE F[a][s + (i - L[b])]
  BY DEF Moved
<1> USE <1>m
<1> DEFINE From(c, i, d, j) ==
             \/ c \notin {a, b} /\ d = c /\ j = i
             \/ c = a /\ d = a /\ i <= s /\ j = i
             \/ c = a /\ d = a /\ i > s /\ j = i + n
             \/ c = b /\ d = b /\ i <= L[b] /\ j = i
             \/ c = b /\ d = a /\ i > L[b] /\ j = s + (i - L[b])
<1>0. L[a] \in Nat /\ L[b] \in Nat /\ K[a] \in Nat /\ K[b] \in Nat
  OBVIOUS
<1>1. ASSUME NEW c \in C, NEW i \in 1 .. K[c]
      PROVE  \E d \in C : \E j \in 1 .. L[d] : From(c, i, d, j) /\ G[c][i] = F[d][j]
  <2>1. CASE c \notin {a, b}
    BY <2>1
  <2>2. CASE c = a /\ i <= s
    <3>1. i \in 1 .. L[a] /\ i \in 1 .. K[a]
      BY <1>0, <2>2
    <3>2. QED
      BY <2>2, <3>1
  <2>3. CASE c = a /\ i > s
    <3>1. i + n \in 1 .. L[a] /\ i \in 1 .. K[a] /\ ~(i <= s)
      BY <1>0, <2>3
    <3>2. QED
      BY <2>3, <3>1
  <2>4. CASE c = b /\ i <= L[b]
    <3>1. i \in 1 .. L[b] /\ i \in 1 .. K[b]
      BY <1>0, <2>4
    <3>2. QED
      BY <2>4, <3>1
  <2>5. CASE c = b /\ i > L[b]
    <3>1. s + (i - L[b]) \in 1 .. L[a] /\ i \in 1 .. K[b] /\ ~(i <= L[b])
      BY <1>0, <2>5
    <3>2. QED
      BY <2>5, <3>1
  <2>6. i \in Int
    OBVIOUS
  <2>7. QED
    BY <1>0, <2>1, <2>2, <2>3, <2>4, <2>5, <2>6
<1>2. ASSUME NEW c \in C, NEW d \in C, NEW i \in 1 .. K[c], NEW j \in 1 .. K[d],
             NEW e \in C, NEW k \in 1 .. L[e], From(c, i, e, k), From(d, j, e, k)
      PROVE  c = d /\ i = j
  <2>1. i \in Int /\ j \in Int /\ k \in Int /\ (c = a => i <= L[a] - n) /\ (d = a => j <= L[a] - n)
        /\ (c = b => i <= L[b] + n) /\ (d = b => j <= L[b] + n)
    BY <1>0
  <2>2. QED
    BY <1>0, <1>2, <2>1
<1>3. ASSUME NEW d \in C, NEW j \in 1 .. L[d]
      PROVE  \E c \in C : \E i \in 1 .. K[c] : G[c][i] = F[d][j]
  <2>1. CASE d \notin {a, b}
    BY <2>1
  <2>2. CASE d = b
    <3>1. j \in 1 .. K[b] /\ j <= L[b]
      BY <1>0, <2>2
    <3>2. QED
      BY <2>2, <3>1
  <2>3. CASE d = a /\ j <= s
    <3>1. j \in 1 .. K[a]
      BY <1>0, <2>3
    <3>2. QED
      BY <2>3, <3>1
  <2>4. CASE d = a /\ j > s /\ j <= s + n
    <3>1. /\ L[b] + (j - s) \in 1 .. K[b] /\ ~(L[b] + (j - s) <= L[b])
          /\ s + ((L[b] + (j - s)) - L[b]) = j
      BY <1>0, <2>4
    <3>2. QED
      BY <2>4, <3>1
  <2>5. CASE d = a /\ j > s + n
    <3>1. j - n \in 1 .. K[a] /\ ~(j - n <= s) /\ (j - n) + n = j
      BY <1>0, <2>5
    <3>2. QED
      BY <2>5, <3>1
  <2>6. j \in Int
    OBVIOUS
  <2>7. QED
    BY <1>0, <2>1, <2>2, <2>3, <2>4, <2>5, <2>6
<1> HIDE DEF From
<1>8. /\ \A c \in C : \A i \in 1 .. L[c] : F[c][i] \in 1 .. m
      /\ \A p \in 1 .. m : \E c \in C : \E i \in 1 .. L[c] : F[c][i] = p
      /\ \A c, d \in C : \A i \in 1 .. L[c] : \A j \in 1 .. L[d] :
           F[c][i] = F[d][j] => c = d /\ i = j
  BY DEF Placed
<1>4. ASSUME NEW c \in C, NEW i \in 1 .. K[c] PROVE G[c][i] \in 1 .. m
  <2>1. PICK d \in C : \E j \in 1 .. L[d] : G[c][i] = F[d][j]
    BY <1>1
  <2>2. PICK j \in 1 .. L[d] : G[c][i] = F[d][j]
    BY <2>1
  <2>3. QED
    BY <1>8, <2>2
<1>5. ASSUME NEW p \in 1 .. m PROVE \E c \in C : \E i \in 1 .. K[c] : G[c][i] = p
  <2>1. PICK d \in C : \E j \in 1 .. L[d] : F[d][j] = p
    BY <1>8
  <2>2. PICK j \in 1 .. L[d] : F[d][j] = p
    BY <2>1
  <2>3. QED
    BY <1>3, <2>2
<1>6. ASSUME NEW c \in C, NEW d \in C, NEW i \in 1 .. K[c], NEW j \in 1 .. K[d],
             G[c][i] = G[d][j]
      PROVE  c = d /\ i = j
  <2>1. PICK e \in C : \E k \in 1 .. L[e] : From(c, i, e, k) /\ G[c][i] = F[e][k]
    BY <1>1
  <2>2. PICK k \in 1 .. L[e] : From(c, i, e, k) /\ G[c][i] = F[e][k]
    BY <2>1
  <2>3. PICK f \in C : \E l \in 1 .. L[f] : From(d, j, f, l) /\ G[d][j] = F[f][l]
    BY <1>1
  <2>4. PICK l \in 1 .. L[f] : From(d, j, f, l) /\ G[d][j] = F[f][l]
    BY <2>3
  <2>5. e = f /\ k = l
    <3>1. F[e][k] = F[f][l]
      BY <1>6, <2>2, <2>4
    <3>2. \A x \in 1 .. L[e] : \A y \in 1 .. L[f] : F[e][x] = F[f][y] => e = f /\ x = y
      BY ONLY <1>8, e \in C, f \in C, Zenon
    <3>3. QED
      BY ONLY <3>1, <3>2, k \in 1 .. L[e], l \in 1 .. L[f]
  <2>6. QED
    BY <1>2, <2>2, <2>4, <2>5
<1>7. QED
  BY <1>4, <1>5, <1>6 DEF Placed

\* As many numbers as places, when no number is in two of them.
LEMMA CountValues ==
  ASSUME NEW n \in Nat, NEW f, NEW T,
         \A i \in 1 .. n : f[i] \in T,
         \A t \in T : \E i \in 1 .. n : f[i] = t,
         \A i, j \in 1 .. n : f[i] = f[j] => i = j
  PROVE  IsFiniteSet(T) /\ Cardinality(T) = n
<1> DEFINE g == [i \in 1 .. n |-> f[i]]
<1>1. g \in Bijection(1 .. n, T)
  <2>1. g \in [1 .. n -> T]
    OBVIOUS
  <2>2. \A i, j \in 1 .. n : g[i] = g[j] => i = j
    OBVIOUS
  <2>3. \A t \in T : \E i \in 1 .. n : g[i] = t
    OBVIOUS
  <2> HIDE DEF g
  <2>4. QED
    BY <2>1, <2>2, <2>3 DEF Bijection, Injection, Surjection, IsInjective
<1>2. ExistsBijection(1 .. n, T)
  BY <1>1 DEF ExistsBijection
<1>3. IsFiniteSet(1 .. n) /\ Cardinality(1 .. n) = n
  BY FS_Interval
<1>4. QED
  BY <1>2, <1>3, FS_Bijection

\* The packets in the containers P.
In(P, F, L, m) == {p \in 1 .. m : \E c \in P : \E i \in 1 .. L[c] : F[c][i] = p}

\* There are finitely many.
LEMMA InFinite ==
  ASSUME NEW P, NEW F, NEW L, NEW m \in Nat
  PROVE  IsFiniteSet(In(P, F, L, m)) /\ Cardinality(In(P, F, L, m)) \in Nat
<1>1. IsFiniteSet(1 .. m)
  BY FS_Interval
<1>2. In(P, F, L, m) \in SUBSET (1 .. m)
  BY DEF In
<1>3. QED
  BY <1>1, <1>2, FS_Subset, FS_CardinalityType

\* New numbers in one of them.
LEMMA CountAdmit ==
  ASSUME NEW C, NEW F, NEW G, NEW L \in [C -> Nat], NEW K \in [C -> Nat],
         NEW m \in Nat, NEW n \in Nat, NEW P, P \subseteq C, NEW a \in P,
         Admitted(C, F, L, G, K, a, m, n),
         \A c \in C : \A i \in 1 .. L[c] : F[c][i] \in 1 .. m
  PROVE  Cardinality(In(P, G, K, m + n)) = Cardinality(In(P, F, L, m)) + n
<1>a. /\ \A c \in C \ {a} : G[c] = F[c] /\ K[c] = L[c]
      /\ K[a] = L[a] + n
      /\ \A i \in 1 .. K[a] : G[a][i] = IF i <= L[a] THEN F[a][i] ELSE m + (i - L[a])
  BY DEF Admitted
<1> USE <1>a
<1>1. ASSUME NEW c \in P, NEW i \in 1 .. K[c]
      PROVE  \/ i \in 1 .. L[c] /\ G[c][i] = F[c][i]
             \/ G[c][i] \in m + 1 .. m + n
  BY <1>1
<1>2. \A c \in P : \A i \in 1 .. L[c] : i \in 1 .. K[c] /\ G[c][i] = F[c][i]
  OBVIOUS
<1>3. ASSUME NEW p \in m + 1 .. m + n
      PROVE  \E i \in 1 .. K[a] : G[a][i] = p
  <2>1. /\ L[a] + (p - m) \in 1 .. K[a] /\ ~(L[a] + (p - m) <= L[a])
        /\ m + ((L[a] + (p - m)) - L[a]) = p
    OBVIOUS
  <2>2. QED
    BY <2>1
<1>4. In(P, G, K, m + n) = In(P, F, L, m) \cup (m + 1 .. m + n)
  <2>1. ASSUME NEW p \in In(P, G, K, m + n), p \notin m + 1 .. m + n
        PROVE  p \in In(P, F, L, m)
    <3>1. PICK c \in P : \E i \in 1 .. K[c] : G[c][i] = p
      BY DEF In
    <3>2. PICK i \in 1 .. K[c] : G[c][i] = p
      BY <3>1
    <3>3. i \in 1 .. L[c] /\ F[c][i] = p
      BY <1>1, <2>1, <3>2
    <3>4. p \in 1 .. m
      BY <3>3
    <3>5. QED
      BY <3>3, <3>4 DEF In
  <2>2. ASSUME NEW p \in In(P, F, L, m) PROVE p \in In(P, G, K, m + n)
    <3>1. PICK c \in P : \E i \in 1 .. L[c] : F[c][i] = p
      BY DEF In
    <3>2. PICK i \in 1 .. L[c] : F[c][i] = p
      BY <3>1
    <3>3. i \in 1 .. K[c] /\ G[c][i] = p
      BY <1>2, <3>2
    <3>4. p \in 1 .. m + n
      BY DEF In
    <3>5. QED
      BY <3>3, <3>4 DEF In
  <2>3. ASSUME NEW p \in m + 1 .. m + n PROVE p \in In(P, G, K, m + n)
    <3>1. p \in 1 .. m + n
      OBVIOUS
    <3>2. QED
      BY <1>3, <3>1 DEF In
  <2>4. QED
    BY <2>1, <2>2, <2>3
<1> DEFINE A == In(P, F, L, m)
           B == m + 1 .. m + n
<1>5. A \cap B = {}
  BY DEF In
<1>6. IsFiniteSet(B) /\ Cardinality(B) = n
  <2>1. m + 1 \in Int /\ m + n \in Int
    OBVIOUS
  <2>2. IsFiniteSet(B) /\ Cardinality(B) = IF m + 1 > m + n THEN 0 ELSE (m + n) - (m + 1) + 1
    BY <2>1, FS_Interval
  <2>3. (IF m + 1 > m + n THEN 0 ELSE (m + n) - (m + 1) + 1) = n
    OBVIOUS
  <2>4. QED
    BY <2>2, <2>3
<1>7. IsFiniteSet(A) /\ Cardinality(A) \in Nat
  BY InFinite
<1>8. In(P, G, K, m + n) = A \cup B
  BY <1>4
<1> HIDE DEF A, B
<1>9. Cardinality(A \cup B) = Cardinality(A) + Cardinality(B) - Cardinality(A \cap B)
  BY <1>6, <1>7, FS_Union
<1>10. Cardinality(A \cap B) = 0
  BY <1>5, FS_EmptySet
<1>11. Cardinality(A \cup B) = Cardinality(A) + n
  BY <1>6, <1>7, <1>9, <1>10
<1>12. QED
  BY <1>8, <1>11 DEF A

\* The n packets behind the first s of container a, one of them, move to the end of
\* container b, which is not one of them.
LEMMA CountMove ==
  ASSUME NEW C, NEW F, NEW G, NEW L \in [C -> Nat], NEW K \in [C -> Nat],
         NEW m \in Nat, NEW n \in Nat, NEW s \in Nat, NEW P, P \subseteq C,
         NEW a \in P, NEW b \in C, b \notin P,
         Placed(C, F, L, m), Placed(C, G, K, m),
         Moved(C, F, L, G, K, a, b, s, n)
  PROVE  Cardinality(In(P, G, K, m)) = Cardinality(In(P, F, L, m)) - n
<1>m. /\ \A c \in C \ {a, b} : G[c] = F[c] /\ K[c] = L[c]
      /\ s + n <= L[a] /\ K[a] = L[a] - n /\ K[b] = L[b] + n
      /\ \A i \in 1 .. K[a] : G[a][i] = IF i <= s THEN F[a][i] ELSE F[a][i + n]
      /\ \A i \in 1 .. K[b] : G[b][i] = IF i <= L[b] THEN F[b][i] ELSE F[a][s + (i - L[b])]
  BY DEF Moved
<1> USE <1>m
<1> DEFINE f == [i \in 1 .. n |-> F[a][s + i]]
           M == {f[i] : i \in 1 .. n}
<1>0. L[a] \in Nat /\ L[b] \in Nat /\ K[a] \in Nat /\ K[b] \in Nat /\ a \in C
  OBVIOUS
<1>1. /\ \A c \in C : \A i \in 1 .. L[c] : F[c][i] \in 1 .. m
      /\ \A c, d \in C : \A i \in 1 .. L[c] : \A j \in 1 .. L[d] :
           F[c][i] = F[d][j] => c = d /\ i = j
      /\ \A p \in 1 .. m : \E c \in C : \E i \in 1 .. K[c] : G[c][i] = p
      /\ \A c, d \in C : \A i \in 1 .. K[c] : \A j \in 1 .. K[d] :
           G[c][i] = G[d][j] => c = d /\ i = j
  BY DEF Placed
<1>2. \A i \in 1 .. n : s + i \in 1 .. L[a]
  BY <1>0
<1>3. ASSUME NEW i \in 1 .. n
      PROVE  L[b] + i \in 1 .. K[b] /\ G[b][L[b] + i] = F[a][s + i]
  <2>1. L[b] + i \in 1 .. K[b] /\ ~(L[b] + i <= L[b]) /\ (L[b] + i) - L[b] = i
    BY <1>0
  <2>2. QED
    BY <2>1
<1>4. Cardinality(M) = n
  <2>1. \A x, y \in 1 .. L[a] : F[a][x] = F[a][y] => x = y
    BY <1>0, <1>1
  <2>2. ASSUME NEW i \in 1 .. n, NEW j \in 1 .. n, f[i] = f[j] PROVE i = j
    <3>1. s + i = s + j
      BY <1>2, <2>1, <2>2
    <3>2. QED
      BY <3>1
  <2>3. (\A i \in 1 .. n : f[i] \in M) /\ (\A t \in M : \E i \in 1 .. n : f[i] = t)
    OBVIOUS
  <2> HIDE DEF f, M
  <2>4. \A i, j \in 1 .. n : f[i] = f[j] => i = j
    BY <2>2
  <2>5. QED
    BY ONLY <2>3, <2>4, CountValues, n \in Nat
<1>5. M \subseteq In(P, F, L, m)
  BY <1>0, <1>1, <1>2 DEF In
<1>6. ASSUME NEW p \in In(P, G, K, m) PROVE p \in In(P, F, L, m) /\ p \notin M
  <2>1. PICK c \in P : \E i \in 1 .. K[c] : G[c][i] = p
    BY DEF In
  <2>2. PICK i \in 1 .. K[c] : G[c][i] = p
    BY <2>1
  <2>3. \E j \in 1 .. L[c] : F[c][j] = p
    <3>1. CASE c = a /\ i <= s
      <4>1. i \in 1 .. L[a] /\ G[a][i] = F[a][i]
        BY <1>0, <2>2, <3>1
      <4>2. QED
        BY <2>2, <3>1, <4>1
    <3>2. CASE c = a /\ ~(i <= s)
      <4>1. i + n \in 1 .. L[a] /\ G[a][i] = F[a][i + n]
        BY <1>0, <2>2, <3>2
      <4>2. QED
        BY <2>2, <3>2, <4>1
    <3>3. CASE c # a
      BY <2>2, <3>3
    <3>4. QED
      BY <3>1, <3>2, <3>3
  <2>4. p \in In(P, F, L, m)
    BY <2>3 DEF In
  <2>5. ASSUME p \in M PROVE FALSE
    <3>1. PICK k \in 1 .. n : p = F[a][s + k]
      BY <2>5
    <3>2. \A x \in 1 .. K[c] : \A y \in 1 .. K[b] : G[c][x] = G[b][y] => c = b
      BY <1>1
    <3>3. QED
      BY <1>3, <2>2, <3>1, <3>2
  <2>6. QED
    BY <2>4, <2>5
<1>7. ASSUME NEW p \in In(P, F, L, m), p \notin M PROVE p \in In(P, G, K, m)
  <2>1. PICK d \in P : \E j \in 1 .. L[d] : F[d][j] = p
    BY DEF In
  <2>2. PICK j \in 1 .. L[d] : F[d][j] = p
    BY <2>1
  <2>3. p \in 1 .. m
    BY DEF In
  <2>4. \E i \in 1 .. K[d] : G[d][i] = p
    <3>1. CASE d # a
      BY <2>2, <3>1
    <3>2. CASE d = a /\ j <= s
      <4>1. j \in 1 .. K[a] /\ G[a][j] = F[a][j]
        BY <1>0, <2>2, <3>2
      <4>2. QED
        BY <2>2, <3>2, <4>1
    <3>3. CASE d = a /\ j \in s + 1 .. s + n
      <4>1. j - s \in 1 .. n /\ s + (j - s) = j
        BY <3>3
      <4>2. f[j - s] = p
        BY <2>2, <3>3, <4>1
      <4>3. QED
        BY <1>7, <4>1, <4>2
    <3>4. CASE d = a /\ j > s + n
      <4>1. j - n \in 1 .. K[a] /\ ~(j - n <= s) /\ (j - n) + n = j
        BY <1>0, <2>2, <3>4
      <4>2. G[a][j - n] = F[a][j]
        BY <4>1
      <4>3. QED
        BY <2>2, <3>4, <4>1, <4>2
    <3>5. j \in Int
      OBVIOUS
    <3>6. QED
      BY <3>1, <3>2, <3>3, <3>4, <3>5
  <2>5. QED
    BY <2>3, <2>4 DEF In
<1> HIDE DEF M
<1>8. In(P, G, K, m) = In(P, F, L, m) \ M /\ In(P, F, L, m) \cap M = M
  BY <1>5, <1>6, <1>7
<1>9. Cardinality(In(P, F, L, m) \ M)
        = Cardinality(In(P, F, L, m)) - Cardinality(In(P, F, L, m) \cap M)
  BY InFinite, FS_Difference
<1>10. QED
  BY <1>4, <1>8, <1>9

-----------------------------------------------------------------------------
(* Where the packets of the data plane are.                                *)

OnPaths == {"path"} \X Inst

\* What is in the containers, and how much.
Content == [c \in Containers |-> Contents(c)]
Fill == [c \in Containers |-> Len(Contents(c))]

\* The containers are the paths and three lists.
LEMMA ContainersAre ==
  /\ \A w \in Inst : <<"path", w>> \in Containers /\ <<"path", w>> \in OnPaths
  /\ \A name \in {"sent", "flushed", "leaked"} :
       <<name, 0>> \in Containers /\ <<name, 0>> \notin OnPaths
  /\ OnPaths \subseteq Containers
  /\ \A c \in Containers : (\E w \in Inst : c = <<"path", w>>)
                           \/ c \in {<<"sent", 0>>, <<"flushed", 0>>, <<"leaked", 0>>}
  /\ \A c \in OnPaths : \E w \in Inst : c = <<"path", w>>
BY DEF Containers, OnPaths

\* Their contents and sizes.
ContentFacts ==
  /\ \A w \in Inst : /\ Content[<<"path", w>>] = Path(w)
                     /\ Fill[<<"path", w>>] = Len(Path(w))
  /\ Content[<<"sent", 0>>] = sent /\ Fill[<<"sent", 0>>] = Len(sent)
  /\ Content[<<"flushed", 0>>] = flushed /\ Fill[<<"flushed", 0>>] = Len(flushed)
  /\ Content[<<"leaked", 0>>] = leaked /\ Fill[<<"leaked", 0>>] = Len(leaked)

\* They are what the definition of a container's contents says.
LEMMA ContentsAre == ContentFacts
<1>1. \A w \in Inst : Contents(<<"path", w>>) = Path(w)
  BY DEF Contents
<1>2. /\ Contents(<<"sent", 0>>) = sent /\ Contents(<<"flushed", 0>>) = flushed
      /\ Contents(<<"leaked", 0>>) = leaked
  BY DEF Contents
<1>3. \A c \in Containers : Content[c] = Contents(c) /\ Fill[c] = Len(Contents(c))
  BY Zenon DEF Content, Fill
<1>4. /\ \A w \in Inst : <<"path", w>> \in Containers
      /\ <<"sent", 0>> \in Containers /\ <<"flushed", 0>> \in Containers
      /\ <<"leaked", 0>> \in Containers
  BY ContainersAre
<1>5. QED
  BY <1>1, <1>2, <1>3, <1>4, Zenon DEF ContentFacts

\* The lists are lists of packets, and no container is infinitely full.
ContentSizes ==
  /\ \A w \in Inst : Path(w) \in Seq(Nat) /\ Len(Path(w)) \in Nat
  /\ sent \in Seq(Nat) /\ flushed \in Seq(Nat) /\ leaked \in Seq(Nat)
  /\ Len(sent) \in Nat /\ Len(flushed) \in Nat /\ Len(leaked) \in Nat
  /\ Fill \in [Containers -> Nat]

\* By the types of their parts.
LEMMA ContentTypes == TypeOK => ContentSizes
<1> SUFFICES ASSUME TypeOK PROVE ContentSizes
  OBVIOUS
<1>1. \A w \in Inst : Path(w) \in Seq(Nat) /\ Len(Path(w)) \in Nat
  BY PartTypes, Zenon
<1>2. /\ sent \in Seq(Nat) /\ flushed \in Seq(Nat) /\ leaked \in Seq(Nat)
      /\ Len(sent) \in Nat /\ Len(flushed) \in Nat /\ Len(leaked) \in Nat
  BY LenProperties DEF TypeOK
<1>3. \A c \in Containers : Fill[c] \in Nat
  <2>1. TAKE c \in Containers
  <2>2. CASE \E w \in Inst : c = <<"path", w>>
    BY <1>1, <2>2, ContentsAre, Zenon DEF ContentFacts
  <2>3. CASE c \in {<<"sent", 0>>, <<"flushed", 0>>, <<"leaked", 0>>}
    BY <1>2, <2>3, ContentsAre DEF ContentFacts
  <2>4. QED
    BY <2>2, <2>3, ContainersAre, Zenon
<1>4. Fill = [c \in Containers |-> Fill[c]]
  BY Zenon DEF Fill
<1> HIDE DEF Fill
<1>5. Fill \in [Containers -> Nat]
  BY <1>3, <1>4, Zenon
<1>6. QED
  BY <1>1, <1>2, <1>5, Zenon DEF ContentSizes

\* Both hold after a step too.
LEMMA ContentsPrimed == ContentFacts' /\ (TypeOK' => ContentSizes')
BY ContentsAre, ContentTypes, PTL

\* The front of a queue moves to the end of another.
LEMMA FrontMoves ==
  ASSUME NEW q \in Seq(Nat), NEW r \in Seq(Nat), NEW n \in 0 .. Len(q)
  PROVE  /\ Len(SubSeq(q, n + 1, Len(q))) = Len(q) - n
         /\ \A i \in 1 .. Len(q) - n : SubSeq(q, n + 1, Len(q))[i] = q[i + n]
         /\ Len(r \o SubSeq(q, 1, n)) = Len(r) + n
         /\ \A i \in 1 .. Len(r) + n :
              (r \o SubSeq(q, 1, n))[i] = IF i <= Len(r) THEN r[i] ELSE q[i - Len(r)]
<1>1. Len(q) \in Nat /\ Len(r) \in Nat /\ n \in Nat /\ n <= Len(q)
      /\ \A i \in 1 .. Len(q) : q[i] \in Nat
  <2>1. Len(q) \in Nat /\ Len(r) \in Nat
    BY LenProperties
  <2>2. QED
    BY <2>1, ElementOfSeq
<1>2. /\ Take(q, n) \in Seq(Nat) /\ Len(Take(q, n)) = n
      /\ \A i \in 1 .. n : Take(q, n)[i] = q[i]
  <2>1. \A i \in 1 .. n : q[i] \in Nat
    BY <1>1
  <2>2. QED
    BY ONLY <1>1, <2>1, SubSeqProperties, SMTT(30) DEF Take
<1>3. /\ Len(Drop(q, n)) = Len(q) - n
      /\ \A i \in 1 .. Len(q) - n : Drop(q, n)[i] = q[n + i]
  <2>1. \A i \in n + 1 .. Len(q) : q[i] \in Nat
    BY <1>1
  <2>2. QED
    BY ONLY <1>1, <2>1, SubSeqProperties, SMTT(90) DEF Drop
<1>4. \A i \in 1 .. Len(q) - n : Drop(q, n)[i] = q[i + n]
  <2>1. TAKE i \in 1 .. Len(q) - n
  <2>2. n + i = i + n
    BY <1>1
  <2>3. QED
    BY <1>3, <2>2
<1>5. /\ Len(r \o Take(q, n)) = Len(r) + Len(Take(q, n))
      /\ \A i \in 1 .. Len(r) + Len(Take(q, n)) :
           (r \o Take(q, n))[i] = IF i <= Len(r) THEN r[i] ELSE Take(q, n)[i - Len(r)]
  BY ONLY <1>2, r \in Seq(Nat), ConcatProperties
<1>6. ASSUME NEW i \in 1 .. Len(r) + n
      PROVE  (r \o Take(q, n))[i] = IF i <= Len(r) THEN r[i] ELSE q[i - Len(r)]
  <2>1. (r \o Take(q, n))[i] = IF i <= Len(r) THEN r[i] ELSE Take(q, n)[i - Len(r)]
    BY <1>2, <1>5
  <2>2. ~(i <= Len(r)) => i - Len(r) \in 1 .. n
    BY <1>1
  <2>3. QED
    BY <1>2, <2>1, <2>2
<1>7. Len(r \o Take(q, n)) = Len(r) + n
  BY <1>2, <1>5
<1>8. SubSeq(q, n + 1, Len(q)) = Drop(q, n) /\ SubSeq(q, 1, n) = Take(q, n)
  BY DEF Drop, Take
<1>9. QED
  BY <1>3, <1>4, <1>6, <1>7, <1>8, Zenon

\* So does the end of a queue.
LEMMA BackMoves ==
  ASSUME NEW a \in Seq(Nat), NEW c \in Seq(Nat), NEW r \in Seq(Nat)
  PROVE  /\ Len(a) = Len(a \o c) - Len(c) /\ Len(a) \in Nat /\ Len(c) \in Nat
         /\ Len(a) + Len(c) <= Len(a \o c)
         /\ \A i \in 1 .. Len(a) : a[i] = (a \o c)[i]
         /\ Len(r \o c) = Len(r) + Len(c)
         /\ \A i \in 1 .. Len(r) + Len(c) :
              (r \o c)[i] = IF i <= Len(r) THEN r[i] ELSE (a \o c)[Len(a) + (i - Len(r))]
<1>1. Len(a) \in Nat /\ Len(c) \in Nat /\ Len(r) \in Nat
  BY LenProperties
<1>2. /\ Len(a \o c) = Len(a) + Len(c)
      /\ \A i \in 1 .. Len(a) + Len(c) : (a \o c)[i] = IF i <= Len(a) THEN a[i] ELSE c[i - Len(a)]
  BY ONLY a \in Seq(Nat), c \in Seq(Nat), ConcatProperties
<1>3. /\ Len(r \o c) = Len(r) + Len(c)
      /\ \A i \in 1 .. Len(r) + Len(c) : (r \o c)[i] = IF i <= Len(r) THEN r[i] ELSE c[i - Len(r)]
  BY ONLY r \in Seq(Nat), c \in Seq(Nat), ConcatProperties
<1>4. \A i \in 1 .. Len(a) : a[i] = (a \o c)[i]
  <2>1. TAKE i \in 1 .. Len(a)
  <2>2. i \in 1 .. Len(a) + Len(c) /\ i <= Len(a)
    BY <1>1
  <2>3. QED
    BY <1>2, <2>2
<1>5. ASSUME NEW i \in 1 .. Len(r) + Len(c), ~(i <= Len(r))
      PROVE  (a \o c)[Len(a) + (i - Len(r))] = c[i - Len(r)]
  <2>1. /\ Len(a) + (i - Len(r)) \in 1 .. Len(a) + Len(c)
        /\ ~(Len(a) + (i - Len(r)) <= Len(a))
        /\ (Len(a) + (i - Len(r))) - Len(a) = i - Len(r)
    BY <1>1, <1>5
  <2>2. QED
    BY <1>2, <2>1
<1>6. Len(a) = Len(a \o c) - Len(c) /\ Len(a) + Len(c) <= Len(a \o c)
  BY <1>1, <1>2
<1>7. QED
  BY <1>1, <1>3, <1>4, <1>5, <1>6

\* Numbered packets behind a queue.
LEMMA NumbersBehind ==
  ASSUME NEW q \in Seq(Nat), NEW n \in Nat, NEW m \in Nat
  PROVE  LET new == [k \in 1 .. n |-> m + k]
         IN /\ Len(q \o new) = Len(q) + n
            /\ \A i \in 1 .. Len(q) + n :
                 (q \o new)[i] = IF i <= Len(q) THEN q[i] ELSE m + (i - Len(q))
<1> DEFINE new == [k \in 1 .. n |-> m + k]
<1>1. new \in Seq(Nat) /\ Len(new) = n /\ \A k \in 1 .. n : new[k] = m + k
  OBVIOUS
<1> HIDE DEF new
<1>2. /\ Len(q \o new) = Len(q) + Len(new)
      /\ \A i \in 1 .. Len(q) + Len(new) :
           (q \o new)[i] = IF i <= Len(q) THEN q[i] ELSE new[i - Len(q)]
  BY ONLY <1>1, q \in Seq(Nat), ConcatProperties
<1>3. Len(q) \in Nat
  BY LenProperties
<1>4. ASSUME NEW i \in 1 .. Len(q) + n, ~(i <= Len(q)) PROVE new[i - Len(q)] = m + (i - Len(q))
  <2>1. i - Len(q) \in 1 .. n
    BY <1>3, <1>4
  <2>2. QED
    BY <1>1, <2>1
<1>5. Len(q \o new) = Len(q) + n
  BY <1>1, <1>2
<1>6. \A i \in 1 .. Len(q) + n :
        (q \o new)[i] = IF i <= Len(q) THEN q[i] ELSE m + (i - Len(q))
  BY <1>1, <1>2, <1>4
<1>7. QED
  BY <1>5, <1>6 DEF new

\* Each numbered packet is in one place.
PlaceInv == Placed(Containers, Content, Fill, seqn)

\* The packets on the paths.
OnTheWay == Cardinality(In(OnPaths, Content, Fill, seqn))

\* Nothing moves between containers.
LEMMA StayStep ==
  ASSUME PlaceInv, \A w \in Inst : Path(w)' = Path(w), UNCHANGED <<seqn, sent, flushed, leaked>>
  PROVE  PlaceInv' /\ OnTheWay' = OnTheWay
<1>1. \A c \in Containers : Contents(c)' = Contents(c)
  <2>1. \A w \in Inst : Contents(<<"path", w>>) = Path(w) /\ Contents(<<"path", w>>)' = Path(w)'
    BY DEF Contents
  <2>2. ASSUME NEW c \in {<<"sent", 0>>, <<"flushed", 0>>, <<"leaked", 0>>}
        PROVE  Contents(c)' = Contents(c)
    BY DEF Contents
  <2>3. ASSUME NEW c \in Containers PROVE Contents(c)' = Contents(c)
    <3>1. CASE \E w \in Inst : c = <<"path", w>>
      BY <2>1, <3>1, Zenon
    <3>2. CASE c \in {<<"sent", 0>>, <<"flushed", 0>>, <<"leaked", 0>>}
      BY <2>2, <3>2, Zenon
    <3>3. QED
      BY <3>1, <3>2, ContainersAre, Zenon
  <2>4. QED
    BY <2>3, Zenon
<1>2. Content' = Content /\ Fill' = Fill
  BY <1>1, Zenon DEF Content, Fill
<1>3. QED
  BY <1>2, Zenon DEF PlaceInv, OnTheWay

\* A chunk is numbered behind the packets of a path.
LEMMA AdmitStep ==
  ASSUME TypeOK, TypeOK', PlaceInv, NEW p \in Inst, NEW n \in Nat,
         Path(p)' = Path(p) \o [k \in 1 .. n |-> seqn + k],
         \A w \in Inst \ {p} : Path(w)' = Path(w),
         seqn' = seqn + n, UNCHANGED <<sent, flushed, leaked>>
  PROVE  PlaceInv' /\ OnTheWay' = OnTheWay + n
<1> DEFINE a == <<"path", p>>
           F == Content
           G == Content'
           L == Fill
           K == Fill'
<1>1. /\ ContentSizes /\ ContentSizes' /\ ContentFacts /\ ContentFacts'
  BY ContentsAre, ContentTypes, ContentsPrimed
<1>2. L \in [Containers -> Nat] /\ K \in [Containers -> Nat] /\ seqn \in Nat
  BY <1>1 DEF ContentSizes, TypeOK
<1>3. a \in OnPaths /\ a \in Containers /\ OnPaths \subseteq Containers
  BY ContainersAre, Zenon
<1>4. /\ L[a] = Len(Path(p)) /\ F[a] = Path(p)
      /\ K[a] = Len(Path(p)') /\ G[a] = Path(p)'
  BY <1>1, Zenon DEF ContentFacts
<1>5. \A c \in Containers \ {a} : G[c] = F[c] /\ K[c] = L[c]
  <2>1. ASSUME NEW c \in Containers \ {a} PROVE G[c] = F[c] /\ K[c] = L[c]
    <3>1. CASE \E w \in Inst : c = <<"path", w>>
      <4>1. PICK w \in Inst : c = <<"path", w>>
        BY <3>1
      <4>2. w # p
        BY <4>1
      <4>3. QED
        BY <1>1, <4>1, <4>2 DEF ContentFacts
    <3>2. CASE c \in {<<"sent", 0>>, <<"flushed", 0>>, <<"leaked", 0>>}
      BY <1>1, <3>2 DEF ContentFacts
    <3>3. QED
      BY <3>1, <3>2, ContainersAre, Zenon
  <2>2. QED
    BY <2>1
<1>6. /\ K[a] = L[a] + n
      /\ \A i \in 1 .. L[a] + n :
           G[a][i] = IF i <= L[a] THEN F[a][i] ELSE seqn + (i - L[a])
  <2> DEFINE q == Path(p)
             new == [k \in 1 .. n |-> seqn + k]
  <2>1. q \in Seq(Nat)
    BY <1>1 DEF ContentSizes
  <2> HIDE DEF q
  <2>2. /\ Len(q \o new) = Len(q) + n
        /\ \A i \in 1 .. Len(q) + n :
             (q \o new)[i] = IF i <= Len(q) THEN q[i] ELSE seqn + (i - Len(q))
    BY <1>2, <2>1, NumbersBehind
  <2> HIDE DEF new
  <2>3. L[a] = Len(q) /\ F[a] = q /\ K[a] = Len(q \o new) /\ G[a] = q \o new
    BY <1>4, Zenon DEF q, new
  <2> HIDE DEF a, F, G, K, L
  <2>4. QED
    BY <2>2, <2>3, Zenon
<1>7. Placed(Containers, F, L, seqn)
  BY DEF PlaceInv
<1>8. \A c \in Containers : \A i \in 1 .. L[c] : F[c][i] \in 1 .. seqn
  BY <1>7, Zenon DEF Placed
<1> HIDE DEF a, F, G, K, L
<1>9. \A i \in 1 .. K[a] : G[a][i] = IF i <= L[a] THEN F[a][i] ELSE seqn + (i - L[a])
  BY <1>6, Zenon
<1>10. Admitted(Containers, F, L, G, K, a, seqn, n)
  BY <1>5, <1>6, <1>9, Zenon DEF Admitted
<1>11. Placed(Containers, G, K, seqn + n)
  BY ONLY <1>2, <1>3, <1>7, <1>10, n \in Nat, PlacedAdmit
<1>12. Cardinality(In(OnPaths, G, K, seqn + n)) = Cardinality(In(OnPaths, F, L, seqn)) + n
  BY ONLY <1>2, <1>3, <1>8, <1>10, n \in Nat, CountAdmit
<1>13. QED
  BY <1>11, <1>12, Zenon DEF PlaceInv, OnTheWay, F, G, K, L

\* Packets of a path move to one of the lists.
LEMMA MoveStep ==
  ASSUME TypeOK, TypeOK', PlaceInv, NEW p \in Inst, NEW s \in Nat, NEW n \in Nat,
         NEW b \in {<<"sent", 0>>, <<"flushed", 0>>, <<"leaked", 0>>},
         seqn' = seqn,
         \A w \in Inst \ {p} : Path(w)' = Path(w),
         \A c \in {<<"sent", 0>>, <<"flushed", 0>>, <<"leaked", 0>>} \ {b} :
           Content'[c] = Content[c] /\ Fill'[c] = Fill[c],
         s + n <= Len(Path(p)), Len(Path(p)') = Len(Path(p)) - n,
         \A i \in 1 .. Len(Path(p)) - n :
           Path(p)'[i] = IF i <= s THEN Path(p)[i] ELSE Path(p)[i + n],
         Fill'[b] = Fill[b] + n,
         \A i \in 1 .. Fill[b] + n :
           Content'[b][i] = IF i <= Fill[b] THEN Content[b][i] ELSE Path(p)[s + (i - Fill[b])]
  PROVE  PlaceInv' /\ OnTheWay' = OnTheWay - n
<1> DEFINE a == <<"path", p>>
           F == Content
           G == Content'
           L == Fill
           K == Fill'
<1>1. /\ ContentSizes /\ ContentSizes' /\ ContentFacts /\ ContentFacts'
  BY ContentsAre, ContentTypes, ContentsPrimed
<1>2. L \in [Containers -> Nat] /\ K \in [Containers -> Nat] /\ seqn \in Nat
  BY <1>1 DEF ContentSizes, TypeOK
<1>3. /\ a \in OnPaths /\ a \in Containers /\ OnPaths \subseteq Containers
      /\ b \in Containers /\ b \notin OnPaths /\ a # b
  BY ContainersAre
<1>4. /\ L[a] = Len(Path(p)) /\ F[a] = Path(p)
      /\ K[a] = Len(Path(p)') /\ G[a] = Path(p)'
  BY <1>1, Zenon DEF ContentFacts
<1>5. \A c \in Containers \ {a, b} : G[c] = F[c] /\ K[c] = L[c]
  <2>1. ASSUME NEW c \in Containers \ {a, b} PROVE G[c] = F[c] /\ K[c] = L[c]
    <3>1. CASE \E w \in Inst : c = <<"path", w>>
      <4>1. PICK w \in Inst : c = <<"path", w>>
        BY <3>1
      <4>2. w # p
        BY <4>1
      <4>3. QED
        BY <1>1, <4>1, <4>2 DEF ContentFacts
    <3>2. CASE c \in {<<"sent", 0>>, <<"flushed", 0>>, <<"leaked", 0>>}
      BY <3>2, Zenon
    <3>3. QED
      BY <3>1, <3>2, ContainersAre, Zenon
  <2>2. QED
    BY <2>1
<1>6. /\ s + n <= L[a] /\ K[a] = L[a] - n /\ K[b] = L[b] + n
      /\ \A i \in 1 .. K[a] : G[a][i] = IF i <= s THEN F[a][i] ELSE F[a][i + n]
      /\ \A i \in 1 .. K[b] : G[b][i] = IF i <= L[b] THEN F[b][i] ELSE F[a][s + (i - L[b])]
  BY <1>4, Zenon
<1>7. Placed(Containers, F, L, seqn)
  BY DEF PlaceInv
<1> HIDE DEF a, F, G, K, L
<1>8. Moved(Containers, F, L, G, K, a, b, s, n)
  BY <1>5, <1>6, Zenon DEF Moved
<1>9. Placed(Containers, G, K, seqn)
  BY ONLY <1>2, <1>3, <1>7, <1>8, n \in Nat, s \in Nat, PlacedMove
<1>10. Cardinality(In(OnPaths, G, K, seqn)) = Cardinality(In(OnPaths, F, L, seqn)) - n
  BY ONLY <1>2, <1>3, <1>7, <1>9, <1>8, n \in Nat, s \in Nat, CountMove
<1>11. QED
  BY <1>9, <1>10, Zenon DEF PlaceInv, OnTheWay, F, G, K, L

\* While main is in its loops, wait_on_deq counts the packets on the paths, and those it
\* gave up.
FlightInv ==
  main_pc \in {"launch", "poll", "inner", "enq", "deq"} =>
    wait_on_deq = Len(leaked) + OnTheWay

\* Main gives packets up only after a signal.
LeakInv == leaked # <<>> => force_quit

PacketInv == PlaceInv /\ FlightInv /\ LeakInv

\* The number of packets on the paths is one.
LEMMA OnTheWayType == TypeOK => OnTheWay \in Nat
BY InFinite, Zenon DEF OnTheWay, TypeOK

\* Nothing is anywhere when the run begins.
LEMMA PacketInit == Init => PacketInv
<1> SUFFICES ASSUME Init PROVE PacketInv
  OBVIOUS
<1>1. seqn = 0 /\ sent = <<>> /\ flushed = <<>> /\ leaked = <<>> /\ wait_on_deq = 0
  BY DEF Init
<1>2. \A w \in Inst : Path(w) = <<>>
  <2>1. TAKE w \in Inst
  <2>2. Path(w) = <<>> \o <<>> \o <<>> \o <<>>
    BY DEF Init, Path
  <2>3. <<>> \o <<>> = <<>>
    BY EmptySeq, NoQueue
  <2>4. QED
    BY <2>2, <2>3, Zenon
<1>3. \A c \in Containers : Fill[c] = 0
  <2>1. Len(<<>>) = 0
    OBVIOUS
  <2>2. ASSUME NEW c \in Containers PROVE Fill[c] = 0
    <3>1. CASE \E w \in Inst : c = <<"path", w>>
      BY <1>2, <2>1, <3>1, ContentsAre, Zenon DEF ContentFacts
    <3>2. CASE c \in {<<"sent", 0>>, <<"flushed", 0>>, <<"leaked", 0>>}
      BY <1>1, <2>1, <3>2, ContentsAre DEF ContentFacts
    <3>3. QED
      BY <3>1, <3>2, ContainersAre, Zenon
  <2>3. QED
    BY <2>2
<1>4. PlaceInv
  <2>1. \A c \in Containers : 1 .. Fill[c] = {}
    BY <1>3
  <2>2. 1 .. seqn = {}
    BY <1>1
  <2> HIDE DEF Fill, Content
  <2>3. QED
    BY <2>1, <2>2, Zenon DEF PlaceInv, Placed
<1>5. OnTheWay = 0
  <2>1. In(OnPaths, Content, Fill, seqn) = {}
    BY <1>1 DEF In
  <2>2. QED
    BY <2>1, FS_EmptySet, Zenon DEF OnTheWay
<1>6. FlightInv
  BY <1>1, <1>5 DEF FlightInv
<1>7. QED
  BY <1>1, <1>4, <1>6, Zenon DEF PacketInv, LeakInv

\* Steps that move packets along a path, or none.
LEMMA PacketsStay ==
  ASSUME PacketInv, \A w \in Inst : Path(w)' = Path(w),
         UNCHANGED <<seqn, sent, flushed, leaked, wait_on_deq>>,
         main_pc' \in {"launch", "poll", "inner", "enq", "deq"} =>
           main_pc \in {"launch", "poll", "inner", "enq", "deq"},
         force_quit => force_quit'
  PROVE  PacketInv'
<1>1. PlaceInv' /\ OnTheWay' = OnTheWay
  BY StayStep, Zenon DEF PacketInv
<1>2. FlightInv'
  BY <1>1, Zenon DEF FlightInv, PacketInv
<1>3. LeakInv'
  BY Zenon DEF LeakInv, PacketInv
<1>4. QED
  BY <1>1, <1>2, <1>3, Zenon DEF PacketInv

\* Steps that touch no queue of packets.
LEMMA PacketsQuiet ==
  ASSUME PacketInv,
         UNCHANGED <<ring_out, ring_in, mbufs_out, chunk, ring_in_index>>,
         main_pc' = main_pc \/ (main_pc # "enq" /\ main_pc' # "enq"),
         UNCHANGED <<seqn, sent, flushed, leaked, wait_on_deq>>,
         main_pc' \in {"launch", "poll", "inner", "enq", "deq"} =>
           main_pc \in {"launch", "poll", "inner", "enq", "deq"},
         force_quit => force_quit'
  PROVE  PacketInv'
<1>1. \A w \in Inst : Path(w)' = Path(w)
  BY Zenon DEF Path
<1>2. QED
  BY <1>1, PacketsStay, Zenon

\* A chunk is admitted to its path and counted as in flight.
LEMMA TakeChunkPacket ==
  TypeOK /\ TypeOK' /\ BurstInv /\ PacketInv /\ TakeChunk => PacketInv'
<1> SUFFICES ASSUME TypeOK, TypeOK', BurstInv, PacketInv, TakeChunk PROVE PacketInv'
  OBVIOUS
<1>0. PICK p \in Inst : p = ring_in_index
  BY DEF TypeOK
<1>1. /\ main_pc = "inner" /\ main_pc' = "enq" /\ seqn' = seqn + ChunkSize
      /\ wait_on_deq' = wait_on_deq + ChunkSize
      /\ UNCHANGED <<sent, flushed, leaked, force_quit>>
  BY DEF TakeChunk, histVars, envVars
<1>2. ChunkSize \in Nat
  BY SizesAssumption DEF TakeChunk, ChunkSize, Lesser, BurstInv, TypeOK
<1>3. /\ Path(p)' = Path(p) \o [k \in 1 .. ChunkSize |-> seqn + k]
      /\ \A w \in Inst \ {p} : Path(w)' = Path(w)
  BY <1>0, ChunkBehind, Zenon
<1>4. PlaceInv' /\ OnTheWay' = OnTheWay + ChunkSize
  BY <1>1, <1>2, <1>3, AdmitStep, Zenon DEF PacketInv
<1>5. FlightInv'
  <2>1. wait_on_deq = Len(leaked) + OnTheWay
    BY <1>1 DEF PacketInv, FlightInv
  <2>2. OnTheWay \in Nat /\ Len(leaked) \in Nat
    BY OnTheWayType, LenProperties DEF TypeOK
  <2> HIDE DEF ChunkSize
  <2>3. wait_on_deq' = Len(leaked) + (OnTheWay + ChunkSize)
    BY <1>1, <1>2, <2>1, <2>2
  <2>4. QED
    BY <1>1, <1>4, <2>3, Zenon DEF FlightInv
<1>6. LeakInv'
  BY <1>1, Zenon DEF PacketInv, LeakInv
<1>7. QED
  BY <1>4, <1>5, <1>6, Zenon DEF PacketInv

\* n packets go from the front of a path to the end of list b.
LEMMA FrontStep ==
  ASSUME TypeOK, TypeOK', PlaceInv, NEW p \in Inst, NEW n \in 0 .. Len(Path(p)),
         NEW b \in {<<"sent", 0>>, <<"flushed", 0>>},
         seqn' = seqn,
         \A w \in Inst \ {p} : Path(w)' = Path(w),
         Path(p)' = SubSeq(Path(p), n + 1, Len(Path(p))),
         \A c \in {<<"sent", 0>>, <<"flushed", 0>>, <<"leaked", 0>>} \ {b} :
           Content'[c] = Content[c] /\ Fill'[c] = Fill[c],
         Content[b] \in Seq(Nat), Fill[b] = Len(Content[b]), Fill'[b] = Len(Content'[b]),
         Content'[b] = Content[b] \o SubSeq(Path(p), 1, n)
  PROVE  PlaceInv' /\ OnTheWay' = OnTheWay - n
<1> DEFINE q == Path(p)
           r == Content[b]
<1>1. q \in Seq(Nat) /\ Len(q) \in Nat /\ r \in Seq(Nat) /\ Len(r) \in Nat
      /\ n \in 0 .. Len(q)
  BY PartTypes, LenProperties
<1>2. /\ Path(p)' = SubSeq(q, n + 1, Len(q)) /\ Content'[b] = r \o SubSeq(q, 1, n)
      /\ Fill[b] = Len(r) /\ Fill'[b] = Len(Content'[b])
  BY Zenon
<1> HIDE DEF q, r
<1>3. /\ Len(SubSeq(q, n + 1, Len(q))) = Len(q) - n
      /\ \A i \in 1 .. Len(q) - n : SubSeq(q, n + 1, Len(q))[i] = q[i + n]
      /\ Len(r \o SubSeq(q, 1, n)) = Len(r) + n
      /\ \A i \in 1 .. Len(r) + n :
           (r \o SubSeq(q, 1, n))[i] = IF i <= Len(r) THEN r[i] ELSE q[i - Len(r)]
  BY <1>1, FrontMoves, Zenon
<1>4. 0 + n <= Len(q) /\ n \in Nat /\ 0 \in Nat
  BY <1>1
<1>5. ASSUME NEW i \in 1 .. Len(q) - n
      PROVE  Path(p)'[i] = IF i <= 0 THEN q[i] ELSE q[i + n]
  <2>1. ~(i <= 0)
    BY <1>1
  <2>2. QED
    BY <1>2, <1>3, <2>1, Zenon
<1>6. ASSUME NEW i \in 1 .. Fill[b] + n
      PROVE  Content'[b][i] = IF i <= Fill[b] THEN r[i] ELSE q[0 + (i - Fill[b])]
  <2>1. 0 + (i - Len(r)) = i - Len(r)
    BY <1>1, <1>2
  <2>2. QED
    BY <1>2, <1>3, <2>1, Zenon
<1>7. Len(Path(p)') = Len(q) - n /\ Fill'[b] = Fill[b] + n
  BY <1>2, <1>3, Zenon
<1>8. b \in {<<"sent", 0>>, <<"flushed", 0>>, <<"leaked", 0>>}
  OBVIOUS
<1>9. QED
  BY <1>4, <1>5, <1>6, <1>7, <1>8, MoveStep, Zenon DEF q, r

\* What main collects moves from the front of a path to what was sent.
LEMMA AggregatePacket ==
  TypeOK /\ TypeOK' /\ PacketInv /\ Aggregate => PacketInv'
<1> SUFFICES ASSUME TypeOK, TypeOK', PacketInv, Aggregate PROVE PacketInv'
  OBVIOUS
<1>0. PICK p \in Inst : p = ring_out_index
  BY DEF TypeOK
<1> DEFINE n == Lesser(BatchOut, Len(ring_out[p]))
<1>1. /\ main_pc = "deq" /\ main_pc' = "inner" /\ sent' = sent \o Take(ring_out[p], n)
      /\ ring_out' = [ring_out EXCEPT ![p] = Drop(@, n)]
      /\ wait_on_deq' = wait_on_deq - n
      /\ UNCHANGED <<ring_in, mbufs_out, seqn, flushed, leaked, force_quit>>
  BY <1>0, Zenon DEF Aggregate, runVars, dealVars, histVars, workerVars, envVars
<1>2. n \in 0 .. Len(ring_out[p])
  BY QueueTypes, SizesAssumption DEF Lesser
<1> HIDE DEF n
<1>3. /\ \A w \in Inst \ {p} : Path(w)' = Path(w)
      /\ Path(p)' = SubSeq(Path(p), n + 1, Len(Path(p)))
      /\ Take(ring_out[p], n) = SubSeq(Path(p), 1, n)
      /\ n \in 0 .. Len(Path(p))
  BY <1>1, <1>2, CollectStep, Zenon
<1>4. PlaceInv' /\ OnTheWay' = OnTheWay - n
  <2> DEFINE b == <<"sent", 0>>
  <2>1. ContentFacts /\ ContentFacts' /\ sent \in Seq(Nat)
    BY ContentsAre, ContentsPrimed DEF TypeOK
  <2>2. /\ Content[b] \in Seq(Nat) /\ Fill[b] = Len(Content[b]) /\ Fill'[b] = Len(Content'[b])
        /\ Content'[b] = Content[b] \o SubSeq(Path(p), 1, n)
    BY <1>1, <1>3, <2>1, Zenon DEF ContentFacts
  <2>3. \A c \in {<<"sent", 0>>, <<"flushed", 0>>, <<"leaked", 0>>} \ {b} :
          Content'[c] = Content[c] /\ Fill'[c] = Fill[c]
    BY <1>1, <2>1, Zenon DEF ContentFacts
  <2>4. b \in {<<"sent", 0>>, <<"flushed", 0>>}
    OBVIOUS
  <2>5. seqn' = seqn /\ PlaceInv
    BY <1>1 DEF PacketInv
  <2> HIDE DEF b
  <2>6. QED
    BY <1>3, <2>2, <2>3, <2>4, <2>5, FrontStep, Zenon
<1>5. FlightInv'
  <2>1. wait_on_deq = Len(leaked) + OnTheWay
    BY <1>1 DEF PacketInv, FlightInv
  <2>2. OnTheWay \in Nat /\ Len(leaked) \in Nat /\ n \in Int
    <3>1. n \in Int
      BY ONLY <1>2
    <3>2. Len(leaked) \in Nat
      BY LenProperties DEF TypeOK
    <3>3. QED
      BY <3>1, <3>2, OnTheWayType
  <2>3. wait_on_deq' = Len(leaked) + (OnTheWay - n)
    BY <1>1, <2>1, <2>2
  <2>4. QED
    BY <1>1, <1>4, <2>3, Zenon DEF FlightInv
<1>6. LeakInv'
  BY <1>1, Zenon DEF PacketInv, LeakInv
<1>7. QED
  BY <1>4, <1>5, <1>6, Zenon DEF PacketInv

\* The packets post_search frees in one turn.
Flushed == Lesser(BatchIn, Len(ring_out[ring_out_index]))

\* What post_search frees moves from the front of a path to what was flushed.
LEMMA PostSearchPacket ==
  TypeOK /\ TypeOK' /\ PacketInv /\ PostSearch =>
    PacketInv' /\ OnTheWay' = OnTheWay - Flushed
<1> SUFFICES ASSUME TypeOK, TypeOK', PacketInv, PostSearch
             PROVE  PacketInv' /\ OnTheWay' = OnTheWay - Flushed
  OBVIOUS
<1>0. PICK p \in Inst : p = ring_out_index
  BY DEF TypeOK
<1> DEFINE n == Lesser(BatchIn, Len(ring_out[p]))
<1>1. /\ main_pc = "post" /\ main_pc' \in {"post", "wait"}
      /\ flushed' = flushed \o Take(ring_out[p], n)
      /\ ring_out' = [ring_out EXCEPT ![p] = Drop(@, n)]
      /\ UNCHANGED <<ring_in, mbufs_out, seqn, sent, leaked, force_quit>>
  BY <1>0 DEF PostSearch, runVars, dealVars, histVars, workerVars, envVars
<1>2. n \in 0 .. Len(ring_out[p])
  BY QueueTypes, SizesAssumption DEF Lesser
<1>n. n = Flushed
  BY <1>0, Zenon DEF Flushed
<1> HIDE DEF n
<1>3. main_pc # "enq" /\ main_pc' # "enq"
      /\ main_pc' \notin {"launch", "poll", "inner", "enq", "deq"}
  BY <1>1
<1>4. /\ \A w \in Inst \ {p} : Path(w)' = Path(w)
      /\ Path(p)' = SubSeq(Path(p), n + 1, Len(Path(p)))
      /\ Take(ring_out[p], n) = SubSeq(Path(p), 1, n)
      /\ n \in 0 .. Len(Path(p))
  BY <1>1, <1>2, <1>3, CollectStep, Zenon
<1>5. PlaceInv' /\ OnTheWay' = OnTheWay - n
  <2> DEFINE b == <<"flushed", 0>>
  <2>1. ContentFacts /\ ContentFacts' /\ flushed \in Seq(Nat)
    BY ContentsAre, ContentsPrimed DEF TypeOK
  <2>2. /\ Content[b] \in Seq(Nat) /\ Fill[b] = Len(Content[b]) /\ Fill'[b] = Len(Content'[b])
        /\ Content'[b] = Content[b] \o SubSeq(Path(p), 1, n)
    BY <1>1, <1>4, <2>1, Zenon DEF ContentFacts
  <2>3. \A c \in {<<"sent", 0>>, <<"flushed", 0>>, <<"leaked", 0>>} \ {b} :
          Content'[c] = Content[c] /\ Fill'[c] = Fill[c]
    BY <1>1, <2>1, Zenon DEF ContentFacts
  <2>4. b \in {<<"sent", 0>>, <<"flushed", 0>>}
    OBVIOUS
  <2>5. seqn' = seqn /\ PlaceInv
    BY <1>1 DEF PacketInv
  <2> HIDE DEF b
  <2>6. QED
    BY <1>4, <2>2, <2>3, <2>4, <2>5, FrontStep, Zenon
<1>6. FlightInv'
  BY <1>3, Zenon DEF FlightInv
<1>7. LeakInv'
  BY <1>1, Zenon DEF PacketInv, LeakInv
<1>8. QED
  BY <1>n, <1>5, <1>6, <1>7, Zenon DEF PacketInv

\* What is left of a chunk when the spin loop ends moves from the end of its path to what
\* was given up.
LEMMA EndEnqueuePacket ==
  TypeOK /\ TypeOK' /\ PacketInv /\ EndEnqueue => PacketInv'
<1> SUFFICES ASSUME TypeOK, TypeOK', PacketInv, EndEnqueue PROVE PacketInv'
  OBVIOUS
<1>0. PICK p \in Inst : p = ring_in_index
  BY DEF TypeOK
<1> DEFINE a == Path(p)'
           b == <<"leaked", 0>>
<1>1. /\ main_pc = "enq" /\ main_pc' = "deq" /\ (chunk = <<>> \/ force_quit)
      /\ leaked' = leaked \o chunk
      /\ UNCHANGED <<wait_on_deq, seqn, sent, flushed, force_quit>>
  BY Zenon DEF EndEnqueue, envVars
<1>2. /\ a \in Seq(Nat) /\ Path(p) = a \o chunk
      /\ \A w \in Inst \ {p} : Path(w)' = Path(w)
  BY <1>0, ChunkGivenUp, Zenon
<1>3. /\ chunk \in Seq(Nat) /\ leaked \in Seq(Nat) /\ seqn' = seqn /\ PlaceInv
  BY <1>1 DEF TypeOK, PacketInv
<1>4. ContentFacts /\ ContentFacts'
  BY ContentsAre, ContentsPrimed
<1>5. /\ Content[b] = leaked /\ Fill[b] = Len(leaked)
      /\ Content'[b] = leaked \o chunk /\ Fill'[b] = Len(leaked \o chunk)
  BY <1>1, <1>4, Zenon DEF ContentFacts
<1>6. \A c \in {<<"sent", 0>>, <<"flushed", 0>>, <<"leaked", 0>>} \ {b} :
        Content'[c] = Content[c] /\ Fill'[c] = Fill[c]
  BY <1>1, <1>4, Zenon DEF ContentFacts
<1>7. b \in {<<"sent", 0>>, <<"flushed", 0>>, <<"leaked", 0>>}
  OBVIOUS
<1> HIDE DEF a, b
<1>8. /\ Len(a) = Len(a \o chunk) - Len(chunk) /\ Len(a) \in Nat /\ Len(chunk) \in Nat
      /\ Len(a) + Len(chunk) <= Len(a \o chunk)
      /\ \A i \in 1 .. Len(a) : a[i] = (a \o chunk)[i]
      /\ Len(leaked \o chunk) = Len(leaked) + Len(chunk)
      /\ \A i \in 1 .. Len(leaked) + Len(chunk) :
           (leaked \o chunk)[i] = IF i <= Len(leaked) THEN leaked[i]
                                  ELSE (a \o chunk)[Len(a) + (i - Len(leaked))]
  BY ONLY <1>2, <1>3, BackMoves
<1>9. PlaceInv' /\ OnTheWay' = OnTheWay - Len(chunk)
  <2> DEFINE s == Len(a)
             n == Len(chunk)
  <2>1. s \in Nat /\ n \in Nat /\ s + n <= Len(Path(p)) /\ Len(a) = Len(Path(p)) - n
        /\ Fill'[b] = Fill[b] + n
    BY <1>2, <1>5, <1>8, Zenon
  <2>2. ASSUME NEW i \in 1 .. Len(Path(p)) - n
        PROVE  a[i] = IF i <= s THEN Path(p)[i] ELSE Path(p)[i + n]
    <3>1. i \in 1 .. s
      BY <2>1, <2>2, Zenon
    <3>2. i <= s
      BY <2>1, <3>1
    <3>3. QED
      BY <1>2, <1>8, <3>1, <3>2, Zenon
  <2>3. ASSUME NEW i \in 1 .. Fill[b] + n
        PROVE  Content'[b][i] = IF i <= Fill[b] THEN Content[b][i]
                                ELSE Path(p)[s + (i - Fill[b])]
    BY <1>2, <1>5, <1>8, Zenon
  <2> HIDE DEF s, n
  <2>4. PlaceInv' /\ OnTheWay' = OnTheWay - n
    BY <1>2, <1>3, <1>6, <1>7, <2>1, <2>2, <2>3, MoveStep, Zenon DEF a
  <2>5. QED
    BY <2>4, Zenon DEF n
<1>10. FlightInv'
  <2>1. wait_on_deq = Len(leaked) + OnTheWay
    BY <1>1 DEF PacketInv, FlightInv
  <2>2. OnTheWay \in Nat /\ Len(leaked) \in Nat
    BY <1>3, OnTheWayType, LenProperties
  <2>3. Len(leaked') = Len(leaked) + Len(chunk)
    BY <1>1, <1>8, Zenon
  <2>4. wait_on_deq' = Len(leaked') + OnTheWay'
    BY <1>1, <1>8, <1>9, <2>1, <2>2, <2>3
  <2>5. QED
    BY <2>4, Zenon DEF FlightInv
<1>11. LeakInv'
  <2>1. CASE chunk = <<>>
    <3>1. leaked' = leaked
      BY <1>1, <1>3, <2>1, NoQueue, Zenon
    <3>2. QED
      BY <1>1, <3>1, Zenon DEF PacketInv, LeakInv
  <2>2. CASE force_quit
    BY <1>1, <2>2, Zenon DEF LeakInv
  <2>3. QED
    BY <1>1, <2>1, <2>2
<1>12. QED
  BY <1>9, <1>10, <1>11, Zenon DEF PacketInv

\* A stutter of PathService leaves all paths as they are.
LEMMA SamePaths == UNCHANGED Paths!vars => \A w \in Inst : Path(w)' = Path(w)
<1> SUFFICES ASSUME UNCHANGED Paths!vars PROVE \A w \in Inst : Path(w)' = Path(w)
  OBVIOUS
<1>1. [w \in Inst |-> Path(w)'] = [w \in Inst |-> Path(w)]
  BY Zenon DEF Paths!vars
<1>2. \A w \in Inst : /\ [v \in Inst |-> Path(v)'][w] = Path(w)'
                      /\ [v \in Inst |-> Path(v)][w] = Path(w)
  BY Zenon
<1>3. QED
  BY <1>1, <1>2, Zenon

\* What moves along a path stays on it.
LEMMA WorkersPacket ==
  \A w \in Inst :
    TypeOK /\ HandsEmpty /\ PacketInv /\ (WorkerDequeue(w) \/ WorkerEnqueue(w)) => PacketInv'
<1> SUFFICES ASSUME NEW p \in Inst, TypeOK, HandsEmpty, PacketInv,
                    WorkerDequeue(p) \/ WorkerEnqueue(p)
             PROVE  PacketInv'
  BY Zenon
<1>1. UNCHANGED Paths!vars
  BY WorkerDequeueStutters, WorkerEnqueueStutters, Zenon
<1>2. \A w \in Inst : Path(w)' = Path(w)
  BY <1>1, SamePaths, Zenon
<1>3. UNCHANGED <<main_pc, force_quit, seqn, sent, flushed, leaked, wait_on_deq>>
  BY Zenon DEF WorkerDequeue, WorkerEnqueue, dealVars, histVars, envVars
<1>4. QED
  BY <1>2, <1>3, PacketsStay, Zenon

\* Every step keeps each packet in one place, and main's count of them right.
LEMMA PacketStep ==
  TypeOK /\ TypeOK' /\ HandsEmpty /\ BurstInv /\ PacketInv /\ [Next]_vars => PacketInv'
<1> SUFFICES ASSUME TypeOK, TypeOK', HandsEmpty, BurstInv, PacketInv, [Next]_vars
             PROVE  PacketInv'
  OBVIOUS
<1> USE DEF runVars, dealVars, histVars, workerVars, envVars
<1>1. CASE \E w \in Inst : Launch(w)
  <2>1. main_pc = "launch" /\ main_pc' = main_pc
    BY <1>1, Zenon DEF Launch
  <2>2. QED
    BY <1>1, <2>1, PacketsQuiet DEF Launch
<1>2. CASE StartMain
  <2>1. main_pc = "launch" /\ main_pc' = "poll"
    BY <1>2 DEF StartMain
  <2>2. QED
    BY <1>2, <2>1, PacketsQuiet DEF StartMain
<1>3. CASE StartFails \/ LeaveLoop
  BY <1>3, PacketsQuiet DEF StartFails, LeaveLoop, ToPostRun
<1>4. CASE PostSearch
  BY <1>4, PostSearchPacket, Zenon
<1>5. CASE WaitWorkers
  BY <1>5, PacketsQuiet DEF WaitWorkers
<1>6. CASE \E n \in 1 .. EthBatch : Receive(n)
  BY <1>6, PacketsQuiet DEF Receive
<1>7. CASE PollIdle
  BY <1>7, PacketsQuiet DEF PollIdle
<1>8. CASE TakeChunk
  BY <1>8, TakeChunkPacket, Zenon
<1>9. CASE Enqueue
  <2>1. \A w \in Inst : Path(w)' = Path(w)
    BY <1>9, EnqueueStutters, SamePaths, Zenon
  <2>2. UNCHANGED <<main_pc, force_quit, seqn, sent, flushed, leaked, wait_on_deq>>
    BY <1>9, Zenon DEF Enqueue
  <2>3. QED
    BY <2>1, <2>2, PacketsStay, Zenon
<1>10. CASE EndEnqueue
  BY <1>10, EndEnqueuePacket, Zenon
<1>11. CASE Aggregate
  BY <1>11, AggregatePacket, Zenon
<1>12. CASE EndInner
  BY <1>12, PacketsQuiet DEF EndInner
<1>13. ASSUME NEW w \in Inst, Worker(w) PROVE PacketInv'
  <2>1. CASE WorkerCheck(w)
    BY <2>1, PacketsQuiet, Zenon DEF WorkerCheck
  <2>2. CASE WorkerDequeue(w) \/ WorkerEnqueue(w)
    BY <2>2, WorkersPacket, Zenon
  <2>3. QED
    BY <1>13, <2>1, <2>2 DEF Worker
<1>14. CASE Signal
  BY <1>14, PacketsQuiet, Zenon DEF Signal
<1>15. CASE TimeUp \/ UNCHANGED vars
  <2>1. /\ UNCHANGED <<main_pc, force_quit, ring_out, ring_in, mbufs_out, chunk, ring_in_index>>
        /\ UNCHANGED <<seqn, sent, flushed, leaked, wait_on_deq>>
    BY <1>15, Zenon DEF TimeUp, vars
  <2>2. QED
    BY <2>1, PacketsQuiet, Zenon
<1>16. QED
  BY <1>1, <1>2, <1>3, <1>4, <1>5, <1>6, <1>7, <1>8, <1>9, <1>10, <1>11,
     <1>12, <1>13, <1>14, <1>15 DEF Next, Main

\* A packet in one place is in one slot.
LEMMA OneSlot == TypeOK /\ PlaceInv => \A p \in 1 .. seqn : Cardinality(Slots(p)) = 1
<1> SUFFICES ASSUME TypeOK, PlaceInv, NEW p \in 1 .. seqn PROVE Cardinality(Slots(p)) = 1
  OBVIOUS
<1>1. \A c \in Containers : /\ Contents(c) = Content[c] /\ DOMAIN Contents(c) = 1 .. Fill[c]
  <2>1. \A c \in Containers : Contents(c) = Content[c] /\ Len(Contents(c)) = Fill[c]
    BY Zenon DEF Content, Fill
  <2>2. \A c \in Containers : Contents(c) \in Seq(Nat)
    <3>1. ContentFacts /\ ContentSizes
      BY ContentsAre, ContentTypes
    <3>2. ASSUME NEW c \in Containers PROVE Contents(c) \in Seq(Nat)
      <4>1. CASE \E w \in Inst : c = <<"path", w>>
        BY <2>1, <3>1, <4>1, Zenon DEF ContentFacts, ContentSizes
      <4>2. CASE c \in {<<"sent", 0>>, <<"flushed", 0>>, <<"leaked", 0>>}
        BY <2>1, <3>1, <4>2, Zenon DEF ContentFacts, ContentSizes
      <4>3. QED
        BY <4>1, <4>2, ContainersAre, Zenon
    <3>3. QED
      BY <3>2, Zenon
  <2>3. QED
    BY <2>1, <2>2, LenProperties
<1>2. PICK c \in Containers : \E i \in 1 .. Fill[c] : Content[c][i] = p
  BY DEF PlaceInv, Placed
<1>3. PICK i \in 1 .. Fill[c] : Content[c][i] = p
  BY <1>2
<1>4. \A d \in Containers : \A j \in 1 .. Fill[d] : Content[d][j] = p => d = c /\ j = i
  BY <1>3 DEF PlaceInv, Placed
<1>5. Slots(p) = {<<c, i>>}
  <2>1. <<c, i>> \in Slots(p)
    <3>1. i \in DOMAIN Contents(c) /\ Contents(c)[i] = p
      BY <1>1, <1>3, Zenon
    <3>2. <<c, i>> \in {<<c, j>> : j \in {k \in DOMAIN Contents(c) : Contents(c)[k] = p}}
      BY <3>1
    <3>3. QED
      BY <3>2, Zenon DEF Slots
  <2>2. ASSUME NEW x \in Slots(p) PROVE x = <<c, i>>
    <3>1. PICK d \in Containers :
            x \in {<<d, j>> : j \in {k \in DOMAIN Contents(d) : Contents(d)[k] = p}}
      BY DEF Slots
    <3>2. PICK j \in DOMAIN Contents(d) : Contents(d)[j] = p /\ x = <<d, j>>
      BY <3>1, Zenon
    <3>3. j \in 1 .. Fill[d] /\ Content[d][j] = p
      BY <1>1, <3>2, Zenon
    <3>4. QED
      BY <1>4, <3>2, <3>3, Zenon
  <2>3. QED
    BY <2>1, <2>2, Zenon
<1>6. QED
  BY <1>5, FS_Singleton, Zenon

\* The packets of the paths, as the count of those in flight has them.
LEMMA OnTheWayIs ==
  TypeOK =>
    In(OnPaths, Content, Fill, seqn)
      = {p \in 1 .. seqn : \E w \in Inst : p \in {Path(w)[i] : i \in DOMAIN Path(w)}}
<1> SUFFICES ASSUME TypeOK, NEW p \in 1 .. seqn
             PROVE  (\E c \in OnPaths : \E i \in 1 .. Fill[c] : Content[c][i] = p)
                      <=> \E w \in Inst : p \in {Path(w)[i] : i \in DOMAIN Path(w)}
  BY Zenon DEF In
<1>1. \A w \in Inst : /\ Content[<<"path", w>>] = Path(w)
                      /\ DOMAIN Path(w) = 1 .. Fill[<<"path", w>>]
  <2>1. ContentFacts /\ ContentSizes
    BY ContentsAre, ContentTypes
  <2>2. \A w \in Inst : Path(w) \in Seq(Nat) /\ Fill[<<"path", w>>] = Len(Path(w))
    BY <2>1, Zenon DEF ContentFacts, ContentSizes
  <2>3. TAKE w \in Inst
  <2>4. Content[<<"path", w>>] = Path(w)
    BY <2>1, Zenon DEF ContentFacts
  <2> DEFINE q == Path(w)
  <2>5. q \in Seq(Nat) /\ Fill[<<"path", w>>] = Len(q)
    BY <2>2, Zenon
  <2> HIDE DEF q
  <2>6. DOMAIN q = 1 .. Len(q)
    BY ONLY <2>5, LenProperties
  <2>7. DOMAIN q = 1 .. Fill[<<"path", w>>]
    BY ONLY <2>5, <2>6, Zenon
  <2>8. QED
    BY <2>4, <2>7, Zenon DEF q
<1>2. ASSUME NEW c \in OnPaths, \E i \in 1 .. Fill[c] : Content[c][i] = p
      PROVE  \E w \in Inst : p \in {Path(w)[i] : i \in DOMAIN Path(w)}
  <2>1. PICK w \in Inst : c = <<"path", w>>
    BY ContainersAre
  <2>2. PICK i \in 1 .. Fill[c] : Content[c][i] = p
    BY <1>2
  <2>3. i \in DOMAIN Path(w) /\ Path(w)[i] = p
    BY <1>1, <2>1, <2>2, Zenon
  <2>4. QED
    BY <2>3, Zenon
<1>3. ASSUME NEW w \in Inst, p \in {Path(w)[i] : i \in DOMAIN Path(w)}
      PROVE  \E c \in OnPaths : \E i \in 1 .. Fill[c] : Content[c][i] = p
  <2>1. PICK i \in DOMAIN Path(w) : Path(w)[i] = p
    BY <1>3, Zenon
  <2>2. i \in 1 .. Fill[<<"path", w>>] /\ Content[<<"path", w>>][i] = p
    BY <1>1, <2>1, Zenon
  <2>3. QED
    BY <2>2, ContainersAre, Zenon
<1>4. QED
  BY <1>2, <1>3, Zenon

(* For every number of instances and all sizes, each packet seq_exec numbered is in one
   place of one ring, burst or list at any time, and main drops packets only after a
   signal. *)
THEOREM EveryPacketOnce == Spec => []NothingLostOrDuplicated
<1>1. TypeOK /\ PacketInv => NothingLostOrDuplicated
  BY OneSlot, Zenon DEF PacketInv, LeakInv, NothingLostOrDuplicated
<1>2. Init => HandsEmpty
  BY DEF Init, HandsEmpty
<1>3. QED
  BY <1>1, <1>2, TypeInit, TypeStep, HandsStep, BurstInit, BurstStep, PacketInit, PacketStep,
     PTL DEF Spec

(* batch_cnt_wait_on_deq is right for every number of instances, batch and ring size. *)
THEOREM FlightCountExact == Spec => []InFlightExact
<1>1. TypeOK /\ PacketInv => InFlightExact
  <2> SUFFICES ASSUME TypeOK, PacketInv, main_pc \in {"poll", "inner", "enq", "deq"}
               PROVE  wait_on_deq = Len(leaked)
                        + Cardinality({p \in 1 .. seqn :
                            \E w \in Inst : p \in {Path(w)[i] : i \in DOMAIN Path(w)}})
    BY Zenon DEF InFlightExact
  <2>1. main_pc \in {"launch", "poll", "inner", "enq", "deq"}
    OBVIOUS
  <2>2. wait_on_deq = Len(leaked) + OnTheWay
    BY <2>1, Zenon DEF PacketInv, FlightInv
  <2>3. QED
    BY <2>2, OnTheWayIs, Zenon DEF OnTheWay
<1>2. Init => HandsEmpty
  BY DEF Init, HandsEmpty
<1>3. QED
  BY <1>1, <1>2, TypeInit, TypeStep, HandsStep, BurstInit, BurstStep, PacketInit, PacketStep,
     PTL DEF Spec

-----------------------------------------------------------------------------
(* The order of the packets on a path.                                     *)

\* The packets of a queue ascend and are of the first m.
Ascends(q, m) ==
  \A i \in 1 .. Len(q) :
    /\ q[i] \in 1 .. m
    /\ \A j \in 1 .. Len(q) : i < j => q[i] < q[j]

\* On every path the packets are in the order in which they were numbered.
PathsAscend == \A w \in Inst : Ascends(Path(w), seqn)

\* The packets on the path through w.
On(w) == {Path(w)[i] : i \in DOMAIN Path(w)}

\* The packets that leave a path in a step are older than those that stay, unless
\* main gives up a chunk in the step.
OldestLeave ==
  leaked' # leaked \/ \A w \in Inst : \A p \in On(w) \ On(w)' : \A q \in On(w)' : p < q

\* A step of the data plane does one of four things to the paths: nothing, ...
Stays == seqn' = seqn /\ \A w \in Inst : Path(w)' = Path(w)

\* ... put the next numbers at the end of one, ...
Grows ==
  \E p \in Inst :
    /\ ChunkSize \in Nat /\ seqn' = seqn + ChunkSize
    /\ Path(p)' = Path(p) \o [k \in 1 .. ChunkSize |-> seqn + k]
    /\ \A w \in Inst \ {p} : Path(w)' = Path(w)

\* ... take packets off its front, ...
Yields ==
  \E p \in Inst :
    /\ seqn' = seqn
    /\ \E n \in 0 .. Len(Path(p)) : Path(p)' = SubSeq(Path(p), n + 1, Len(Path(p)))
    /\ \A w \in Inst \ {p} : Path(w)' = Path(w)

\* ... or cut off its end, which main gives up.
IsCut ==
  \E p \in Inst :
    /\ seqn' = seqn /\ leaked' = leaked \o chunk
    /\ Path(p)' \in Seq(Nat) /\ Path(p) = Path(p)' \o chunk
    /\ \A w \in Inst \ {p} : Path(w)' = Path(w)

\* Main, collecting or after the run, takes packets off the front of a path.
LEMMA CollectYields == TypeOK /\ (Aggregate \/ PostSearch) => Yields
<1> SUFFICES ASSUME TypeOK, Aggregate \/ PostSearch PROVE Yields
  OBVIOUS
<1>0. PICK p \in Inst : p = ring_out_index
  BY DEF TypeOK
<1>1. PICK b \in {BatchOut, BatchIn} :
        ring_out' = [ring_out EXCEPT ![p] = Drop(@, Lesser(b, Len(ring_out[p])))]
  BY <1>0, Zenon DEF Aggregate, PostSearch
<1> DEFINE n == Lesser(b, Len(ring_out[p]))
<1>2. /\ main_pc # "enq" /\ main_pc' # "enq" /\ ring_in' = ring_in
      /\ mbufs_out' = mbufs_out /\ seqn' = seqn
  BY DEF Aggregate, PostSearch, dealVars, workerVars
<1>3. n \in 0 .. Len(ring_out[p])
  BY QueueTypes, SizesAssumption DEF Lesser
<1>4. ring_out' = [ring_out EXCEPT ![p] = Drop(@, n)]
  BY <1>1
<1> HIDE DEF n
<1>5. /\ \A w \in Inst \ {p} : Path(w)' = Path(w)
      /\ Path(p)' = SubSeq(Path(p), n + 1, Len(Path(p)))
      /\ n \in 0 .. Len(Path(p))
  BY <1>2, <1>3, <1>4, CollectStep, Zenon
<1>6. QED
  BY <1>2, <1>5, Zenon DEF Yields

\* What a step of any lcore does to the paths.
LEMMA PathChanges ==
  TypeOK /\ HandsEmpty /\ BurstInv /\ [Next]_vars => Stays \/ Grows \/ Yields \/ IsCut
<1> SUFFICES ASSUME TypeOK, HandsEmpty, BurstInv, [Next]_vars
             PROVE  Stays \/ Grows \/ Yields \/ IsCut
  OBVIOUS
<1> USE DEF runVars, dealVars, histVars, workerVars, envVars
<1>q. ASSUME UNCHANGED <<ring_out, ring_in, mbufs_out, chunk, ring_in_index, seqn>>,
             main_pc' = main_pc \/ (main_pc # "enq" /\ main_pc' # "enq")
      PROVE  Stays
  BY <1>q, Zenon DEF Path, Stays
<1>1. CASE \E w \in Inst : Launch(w)
  BY <1>1, <1>q, Zenon DEF Launch
<1>2. CASE StartMain \/ StartFails \/ LeaveLoop \/ WaitWorkers
  BY <1>2, <1>q DEF StartMain, StartFails, LeaveLoop, ToPostRun, WaitWorkers
<1>3. CASE PollIdle \/ EndInner \/ \E n \in 1 .. EthBatch : Receive(n)
  BY <1>3, <1>q DEF PollIdle, EndInner, Receive
<1>4. CASE Aggregate \/ PostSearch
  BY <1>4, CollectYields, Zenon
<1>5. CASE TakeChunk
  <2>1. PICK p \in Inst : p = ring_in_index
    BY DEF TypeOK
  <2>2. seqn' = seqn + ChunkSize
    BY <1>5 DEF TakeChunk
  <2>3. ChunkSize \in Nat
    BY <1>5, SizesAssumption DEF TakeChunk, ChunkSize, Lesser, BurstInv, TypeOK
  <2>4. /\ Path(p)' = Path(p) \o [k \in 1 .. ChunkSize |-> seqn + k]
        /\ \A w \in Inst \ {p} : Path(w)' = Path(w)
    BY <1>5, <2>1, ChunkBehind, Zenon
  <2>5. QED
    BY <2>2, <2>3, <2>4, Zenon DEF Grows
<1>6. CASE Enqueue
  <2>1. \A w \in Inst : Path(w)' = Path(w)
    BY <1>6, EnqueueStutters, SamePaths, Zenon
  <2>2. seqn' = seqn
    BY <1>6, Zenon DEF Enqueue
  <2>3. QED
    BY <2>1, <2>2, Zenon DEF Stays
<1>7. CASE EndEnqueue
  <2>1. PICK p \in Inst : p = ring_in_index
    BY DEF TypeOK
  <2>2. /\ Path(p)' \in Seq(Nat) /\ Path(p) = Path(p)' \o chunk
        /\ \A w \in Inst \ {p} : Path(w)' = Path(w)
    BY <1>7, <2>1, ChunkGivenUp, Zenon
  <2>3. seqn' = seqn /\ leaked' = leaked \o chunk
    BY <1>7, Zenon DEF EndEnqueue
  <2>4. QED
    BY <2>2, <2>3, Zenon DEF IsCut
<1>8. ASSUME NEW v \in Inst, Worker(v) PROVE Stays
  <2>1. CASE WorkerCheck(v)
    BY <2>1, <1>q, Zenon DEF WorkerCheck
  <2>2. CASE WorkerDequeue(v) \/ WorkerEnqueue(v)
    <3>1. \A w \in Inst : Path(w)' = Path(w)
      BY <2>2, WorkerDequeueStutters, WorkerEnqueueStutters, SamePaths, Zenon
    <3>2. seqn' = seqn
      BY <2>2, Zenon DEF WorkerDequeue, WorkerEnqueue
    <3>3. QED
      BY <3>1, <3>2, Zenon DEF Stays
  <2>3. QED
    BY <1>8, <2>1, <2>2 DEF Worker
<1>9. CASE Signal \/ TimeUp \/ UNCHANGED vars
  BY <1>9, <1>q, Zenon DEF Signal, TimeUp, vars
<1>10. QED
  BY <1>1, <1>2, <1>3, <1>4, <1>5, <1>6, <1>7, <1>8, <1>9, Zenon DEF Next, Main

\* What is left of an ascending queue when packets are taken off its front ascends,
\* and is newer than what was taken off.
LEMMA AscendsCut ==
  ASSUME NEW q \in Seq(Nat), NEW m \in Nat, Ascends(q, m), NEW n \in 0 .. Len(q)
  PROVE  /\ Ascends(SubSeq(q, n + 1, Len(q)), m)
         /\ \A i \in 1 .. Len(q) : \A k \in 1 .. Len(SubSeq(q, n + 1, Len(q))) :
              i <= n => q[i] < SubSeq(q, n + 1, Len(q))[k]
         /\ \A i \in 1 .. Len(q) :
              i > n => \E k \in 1 .. Len(SubSeq(q, n + 1, Len(q))) :
                         SubSeq(q, n + 1, Len(q))[k] = q[i]
<1> DEFINE r == SubSeq(q, n + 1, Len(q))
           l == Len(q)
<1>1. l \in Nat /\ n \in 0 .. l
  BY LenProperties
<1>2. Len(r) = l - n /\ \A k \in 1 .. l - n : r[k] = q[n + k]
  <2>1. n + 1 \in 1 .. l + 1 /\ l \in (n + 1) - 1 .. l
    BY <1>1
  <2>2. Len(r) = l - (n + 1) + 1 /\ \A k \in 1 .. l - (n + 1) + 1 : r[k] = q[(n + 1) + k - 1]
    BY <2>1, SubSeqProperties
  <2>3. QED
    BY <1>1, <2>2
<1>3. \A i \in 1 .. l : q[i] \in 1 .. m /\ \A j \in 1 .. l : i < j => q[i] < q[j]
  BY Zenon DEF Ascends
<1> HIDE DEF r, l
<1>4. Ascends(r, m)
  <2>1. ASSUME NEW i \in 1 .. l - n
        PROVE  r[i] \in 1 .. m /\ \A j \in 1 .. l - n : i < j => r[i] < r[j]
    <3>1. n + i \in 1 .. l /\ r[i] = q[n + i]
      BY <1>1, <1>2
    <3>2. ASSUME NEW j \in 1 .. l - n, i < j PROVE r[i] < r[j]
      <4>1. n + j \in 1 .. l /\ r[j] = q[n + j] /\ n + i < n + j
        BY <1>1, <1>2, <3>2
      <4>2. QED
        BY <1>3, <3>1, <4>1
    <3>3. QED
      BY <1>3, <3>1, <3>2
  <2>2. QED
    BY <1>2, <2>1, Zenon DEF Ascends
<1>5. ASSUME NEW i \in 1 .. l, NEW k \in 1 .. l - n, i <= n PROVE q[i] < r[k]
  <2>1. n + k \in 1 .. l /\ r[k] = q[n + k] /\ i < n + k
    BY <1>1, <1>2, <1>5
  <2>2. QED
    BY <1>3, <2>1
<1>6. ASSUME NEW i \in 1 .. l, i > n PROVE \E k \in 1 .. l - n : r[k] = q[i]
  <2>1. i - n \in 1 .. l - n /\ n + (i - n) = i
    BY <1>1, <1>6
  <2>2. r[i - n] = q[i]
    BY <1>2, <2>1
  <2>3. QED
    BY <2>1, <2>2
<1>7. QED
  BY <1>2, <1>4, <1>5, <1>6, Zenon DEF r, l

\* The front of an ascending queue ascends.
LEMMA AscendsFront ==
  ASSUME NEW a \in Seq(Nat), NEW c \in Seq(Nat), NEW m \in Nat, Ascends(a \o c, m)
  PROVE  Ascends(a, m)
<1> DEFINE q == a \o c
           l == Len(a)
<1>1. l \in Nat /\ Len(c) \in Nat /\ Len(q) = l + Len(c) /\ \A i \in 1 .. l : q[i] = a[i]
  BY LenProperties, ConcatProperties
<1>2. \A i \in 1 .. Len(q) : q[i] \in 1 .. m /\ \A j \in 1 .. Len(q) : i < j => q[i] < q[j]
  BY Zenon DEF Ascends
<1> HIDE DEF q
<1>3. 1 .. l \subseteq 1 .. Len(q)
  BY <1>1
<1> HIDE DEF l
<1>4. \A i \in 1 .. l : a[i] \in 1 .. m /\ \A j \in 1 .. l : i < j => a[i] < a[j]
  BY <1>1, <1>2, <1>3
<1>5. QED
  BY <1>4, Zenon DEF Ascends, l

\* The next numbers behind an ascending queue.
LEMMA AscendsBehind ==
  ASSUME NEW q \in Seq(Nat), NEW m \in Nat, Ascends(q, m), NEW n \in Nat
  PROVE  Ascends(q \o [k \in 1 .. n |-> m + k], m + n)
<1> DEFINE new == [k \in 1 .. n |-> m + k]
           r == q \o new
           l == Len(q)
<1>1. /\ new \in Seq(Nat) /\ Len(new) = n /\ l \in Nat
      /\ \A k \in 1 .. n : new[k] = m + k
  BY LenProperties
<1> HIDE DEF new
<1>2. /\ Len(r) = l + n
      /\ \A i \in 1 .. l + n : r[i] = IF i <= l THEN q[i] ELSE new[i - l]
  BY <1>1, ConcatProperties
<1>3. \A i \in 1 .. l : q[i] \in 1 .. m /\ \A j \in 1 .. l : i < j => q[i] < q[j]
  BY Zenon DEF Ascends
<1> HIDE DEF r, l
<1>4. ASSUME NEW i \in 1 .. l + n
      PROVE  \/ i \in 1 .. l /\ r[i] = q[i] /\ r[i] \in 1 .. m
             \/ i > l /\ r[i] = m + (i - l)
  <2>1. CASE i <= l
    BY <1>1, <1>2, <1>3, <2>1
  <2>2. CASE i > l
    <3>1. i - l \in 1 .. n /\ ~(i <= l)
      BY <1>1, <2>2
    <3>2. QED
      BY <1>1, <1>2, <2>2, <3>1
  <2>3. QED
    BY <1>1, <2>1, <2>2
<1>5. ASSUME NEW i \in 1 .. l + n PROVE r[i] \in 1 .. m + n
  BY <1>1, <1>4
<1>6. ASSUME NEW i \in 1 .. l + n, NEW j \in 1 .. l + n, i < j PROVE r[i] < r[j]
  <2>1. CASE j \in 1 .. l
    <3>1. i \in 1 .. l /\ r[i] = q[i] /\ r[j] = q[j]
      BY <1>1, <1>4, <1>6, <2>1
    <3>2. QED
      BY <1>3, <1>6, <2>1, <3>1
  <2>2. CASE j > l
    <3>1. r[j] = m + (j - l)
      BY <1>1, <1>4, <2>2
    <3>2. \/ r[i] \in 1 .. m
          \/ i > l /\ r[i] = m + (i - l)
      BY <1>4
    <3>3. QED
      BY <1>1, <1>6, <2>2, <3>1, <3>2
  <2>3. QED
    BY <1>1, <2>1, <2>2
<1>7. QED
  BY <1>2, <1>5, <1>6, Zenon DEF Ascends, r, new

\* Packets of a chunk that is not empty are given up.
LEMMA CutLeaks ==
  ASSUME TypeOK, leaked' = leaked \o chunk, leaked' = leaked
  PROVE  chunk = <<>>
<1>1. /\ leaked \in Seq(Nat) /\ Len(leaked) \in Nat /\ chunk \in Seq(Nat) /\ Len(chunk) \in Nat
  BY LenProperties DEF TypeOK
<1>2. Len(leaked) = Len(leaked) + Len(chunk)
  <2>1. leaked \o chunk = leaked
    BY Zenon
  <2>2. Len(leaked \o chunk) = Len(leaked) + Len(chunk)
    BY <1>1, ConcatLen, Zenon
  <2>3. QED
    BY <2>1, <2>2, Zenon
<1>3. Len(chunk) = 0
  BY <1>1, <1>2
<1>4. QED
  BY <1>1, <1>3, EmptySeq

\* Every step keeps the paths ascending, and lets the oldest leave first.
LEMMA OrderStep ==
  TypeOK /\ TypeOK' /\ HandsEmpty /\ BurstInv /\ PathsAscend /\ [Next]_vars
    => PathsAscend' /\ OldestLeave
<1> SUFFICES ASSUME TypeOK, TypeOK', HandsEmpty, BurstInv, PathsAscend, [Next]_vars
             PROVE  PathsAscend' /\ OldestLeave
  OBVIOUS
<1> DEFINE Older(w) == \A x \in On(w) \ On(w)' : \A y \in On(w)' : x < y
<1>0. seqn \in Nat /\ \A w \in Inst : Path(w) \in Seq(Nat) /\ Ascends(Path(w), seqn)
  BY PartTypes DEF TypeOK, PathsAscend
<1>1. ASSUME NEW w \in Inst, Path(w)' = Path(w) PROVE Older(w)
  <2>1. On(w)' = On(w)
    BY <1>1, Zenon DEF On
  <2>2. QED
    BY <2>1, Zenon
<1>2. CASE Stays
  <2>1. PathsAscend'
    BY <1>0, <1>2, Zenon DEF Stays, PathsAscend
  <2>2. \A w \in Inst : Older(w)
    BY <1>1, <1>2, Zenon DEF Stays
  <2>3. QED
    BY <2>1, <2>2, Zenon DEF OldestLeave
<1>3. CASE Grows
  <2>1. PICK p \in Inst :
          /\ ChunkSize \in Nat /\ seqn' = seqn + ChunkSize
          /\ Path(p)' = Path(p) \o [k \in 1 .. ChunkSize |-> seqn + k]
          /\ \A w \in Inst \ {p} : Path(w)' = Path(w)
    BY <1>3, Zenon DEF Grows
  <2> DEFINE n == ChunkSize
             m == seqn
             q == Path(p)
  <2>2. n \in Nat /\ m \in Nat /\ seqn' = m + n /\ q \in Seq(Nat) /\ Ascends(q, m)
        /\ Path(p)' = q \o [k \in 1 .. n |-> m + k]
    BY <1>0, <2>1, Zenon
  <2>3. \A w \in Inst : Path(w) \in Seq(Nat) /\ Ascends(Path(w), m)
    BY <1>0, Zenon
  <2> HIDE DEF n, m, q
  <2>4. Ascends(Path(p)', seqn')
    BY <2>2, AscendsBehind, Zenon
  <2>5. ASSUME NEW w \in Inst \ {p} PROVE Ascends(Path(w)', seqn')
    <3> DEFINE r == Path(w)
    <3>1. r \in Seq(Nat) /\ Ascends(r, m) /\ Path(w)' = r
      BY <2>1, <2>3, Zenon
    <3> HIDE DEF r
    <3>2. Ascends(r, m + n)
      <4>1. r \o <<>> = r
        BY <3>1, NoQueue
      <4>2. \A i \in 1 .. Len(r) :
              r[i] \in 1 .. m /\ \A j \in 1 .. Len(r) : i < j => r[i] < r[j]
        BY <3>1, Zenon DEF Ascends
      <4>3. 1 .. m \subseteq 1 .. m + n
        BY <2>2
      <4>4. QED
        BY <4>2, <4>3, Zenon DEF Ascends
    <3>3. QED
      BY <2>2, <3>1, <3>2, Zenon
  <2>6. PathsAscend'
    BY <2>4, <2>5, Zenon DEF PathsAscend
  <2>7. Older(p)
    <3>1. On(p) \subseteq On(p)'
      <4> SUFFICES ASSUME NEW x \in On(p) PROVE x \in On(p)'
        OBVIOUS
      <4>1. PICK i \in DOMAIN q : x = q[i]
        BY Zenon DEF On, q
      <4> DEFINE new == [k \in 1 .. n |-> m + k]
      <4>2. new \in Seq(Nat)
        BY <2>2
      <4>3. i \in DOMAIN (q \o new) /\ (q \o new)[i] = q[i]
        <5> HIDE DEF new
        <5>1. i \in 1 .. Len(q) /\ Len(q) \in Nat /\ Len(new) \in Nat
          BY <2>2, <4>1, <4>2, LenProperties
        <5>2. /\ q \o new \in Seq(Nat) /\ Len(q \o new) = Len(q) + Len(new)
              /\ \A k \in 1 .. Len(q) + Len(new) :
                   (q \o new)[k] = IF k <= Len(q) THEN q[k] ELSE new[k - Len(q)]
          BY <2>2, <4>2, ConcatProperties
        <5>3. DOMAIN (q \o new) = 1 .. Len(q) + Len(new)
          BY <5>2, LenProperties
        <5>4. i \in 1 .. Len(q) + Len(new) /\ i <= Len(q)
          BY <5>1
        <5>5. QED
          BY <5>2, <5>3, <5>4, Zenon
      <4>4. i \in DOMAIN Path(p)' /\ Path(p)'[i] = x
        BY <2>2, <4>1, <4>3, Zenon
      <4>5. QED
        BY <4>4, Zenon DEF On
    <3>2. QED
      BY <3>1, Zenon
  <2>8. \A w \in Inst : Older(w)
    BY <1>1, <2>1, <2>7, Zenon
  <2>9. QED
    BY <2>6, <2>8, Zenon DEF OldestLeave
<1>4. CASE Yields
  <2>1. PICK p \in Inst :
          /\ seqn' = seqn
          /\ \E n \in 0 .. Len(Path(p)) : Path(p)' = SubSeq(Path(p), n + 1, Len(Path(p)))
          /\ \A w \in Inst \ {p} : Path(w)' = Path(w)
    BY <1>4, Zenon DEF Yields
  <2>2. PICK n \in 0 .. Len(Path(p)) : Path(p)' = SubSeq(Path(p), n + 1, Len(Path(p)))
    BY <2>1, Zenon
  <2> DEFINE q == Path(p)
             m == seqn
             r == SubSeq(q, n + 1, Len(q))
  <2>3. q \in Seq(Nat) /\ m \in Nat /\ Ascends(q, m) /\ n \in 0 .. Len(q)
    BY <1>0, Zenon
  <2>4. Path(p)' = r
    BY <2>2, Zenon
  <2> HIDE DEF q, m
  <2>5. /\ Ascends(r, m)
        /\ \A i \in 1 .. Len(q) : \A k \in 1 .. Len(r) : i <= n => q[i] < r[k]
        /\ \A i \in 1 .. Len(q) : i > n => \E k \in 1 .. Len(r) : r[k] = q[i]
    BY <2>3, AscendsCut, Zenon
  <2>6. r \in Seq(Nat) /\ Len(q) \in Nat
    BY <2>3, LenProperties
  <2> HIDE DEF r
  <2>7. PathsAscend'
    <3>1. Ascends(Path(p)', seqn')
      BY <2>1, <2>4, <2>5, Zenon DEF m
    <3>2. \A w \in Inst \ {p} : Ascends(Path(w)', seqn')
      BY <1>0, <2>1, Zenon
    <3>3. QED
      BY <3>1, <3>2, Zenon DEF PathsAscend
  <2>8. Older(p)
    <3> SUFFICES ASSUME NEW x \in On(p), x \notin On(p)', NEW y \in On(p)'
                 PROVE  x < y
      BY Zenon
    <3>1. DOMAIN q = 1 .. Len(q) /\ DOMAIN r = 1 .. Len(r)
      BY <2>3, <2>6, LenProperties
    <3>2. PICK i \in 1 .. Len(q) : x = q[i]
      BY <3>1, Zenon DEF On, q
    <3>3. PICK k \in 1 .. Len(r) : y = r[k]
      BY <2>4, <3>1, Zenon DEF On
    <3>4. \A h \in 1 .. Len(r) : r[h] # x
      BY <2>4, <3>1, Zenon DEF On
    <3>5. ~(i > n)
      BY <2>5, <3>2, <3>4, Zenon
    <3>6. i <= n
      BY <2>3, <2>6, <3>5
    <3>7. QED
      BY <2>5, <3>2, <3>3, <3>6, Zenon
  <2>9. \A w \in Inst : Older(w)
    BY <1>1, <2>1, <2>8, Zenon
  <2>10. QED
    BY <2>7, <2>9, Zenon DEF OldestLeave
<1>5. CASE IsCut
  <2>1. PICK p \in Inst :
          /\ seqn' = seqn /\ leaked' = leaked \o chunk
          /\ Path(p)' \in Seq(Nat) /\ Path(p) = Path(p)' \o chunk
          /\ \A w \in Inst \ {p} : Path(w)' = Path(w)
    BY <1>5, Zenon DEF IsCut
  <2>2. chunk \in Seq(Nat)
    BY DEF TypeOK
  <2>3. PathsAscend'
    <3> DEFINE a == Path(p)'
               m == seqn
               c == chunk
    <3>1. a \in Seq(Nat) /\ c \in Seq(Nat) /\ m \in Nat /\ Ascends(a \o c, m)
      BY <1>0, <2>1, <2>2, Zenon
    <3> HIDE DEF a, m, c
    <3>2. Ascends(a, m)
      BY <3>1, AscendsFront, Zenon
    <3>3. Ascends(Path(p)', seqn')
      BY <2>1, <3>2, Zenon DEF a, m
    <3>4. \A w \in Inst \ {p} : Ascends(Path(w)', seqn')
      BY <1>0, <2>1, Zenon
    <3>5. QED
      BY <3>3, <3>4, Zenon DEF PathsAscend
  <2>4. ASSUME leaked' = leaked PROVE \A w \in Inst : Older(w)
    <3>1. chunk = <<>>
      BY <2>1, <2>4, CutLeaks
    <3>2. Path(p)' = Path(p)
      BY <2>1, <3>1, NoQueue, Zenon
    <3>3. QED
      BY <1>1, <2>1, <3>2, Zenon
  <2>5. QED
    BY <2>3, <2>4, Zenon DEF OldestLeave
<1>6. QED
  BY <1>2, <1>3, <1>4, <1>5, PathChanges, Zenon

\* Nothing is on a path when the run begins.
LEMMA OrderInit == Init => PathsAscend
<1> SUFFICES ASSUME Init, NEW w \in Inst PROVE Ascends(Path(w), seqn)
  BY DEF PathsAscend
<1>1. Path(w) = <<>>
  <2>1. Path(w) = <<>> \o <<>> \o <<>> \o <<>>
    BY DEF Init, Path
  <2>2. <<>> \o <<>> = <<>>
    BY EmptySeq, NoQueue
  <2>3. QED
    BY <2>1, <2>2, Zenon
<1>2. Len(<<>>) = 0
  BY EmptySeq
<1>3. QED
  BY <1>1, <1>2 DEF Ascends

(* On the way through an instance packets stay in the order seq_exec numbered them in,
   from main's chunk to the ring_out, whatever bursts are split where. *)
THEOREM PathsStayInOrder == Spec => []PathsAscend
<1>1. Init => HandsEmpty
  BY DEF Init, HandsEmpty
<1>2. QED
  BY <1>1, TypeInit, TypeStep, HandsStep, BurstInit, BurstStep, OrderInit, OrderStep, PTL DEF Spec

(* No packet overtakes another that was dealt to the same instance: in every step the
   packets that leave a path, collected by run_dpdk or freed by post_search, are older
   than all that stay, unless main gives up the rest of a chunk after a signal. *)
THEOREM OldestLeaveFirst == Spec => [][OldestLeave]_vars
<1>1. Init => HandsEmpty
  BY DEF Init, HandsEmpty
<1>2. TypeOK /\ TypeOK' /\ HandsEmpty /\ BurstInv /\ PathsAscend /\ [Next]_vars
        => [OldestLeave]_vars
  BY OrderStep
<1>3. QED
  BY <1>1, <1>2, TypeInit, TypeStep, HandsStep, BurstInit, BurstStep, OrderInit, OrderStep,
     PTL DEF Spec

-----------------------------------------------------------------------------
(* What the liveness of main rests on.                                     *)

\* While main polls without looking at the ring_outs, nothing is on a path.
RestsOnlyDry == main_pc = "poll" /\ wait_on_deq <= 0 => \A w \in Inst : Path(w) = <<>>

\* A path whose packets are not counted as in flight is empty.
LEMMA RestIsDry == TypeOK /\ PacketInv /\ PathsAscend => RestsOnlyDry
<1> SUFFICES ASSUME TypeOK, PacketInv, PathsAscend, main_pc = "poll", wait_on_deq <= 0,
                    NEW w \in Inst
             PROVE  Path(w) = <<>>
  BY Zenon DEF RestsOnlyDry
<1>1. wait_on_deq = Len(leaked) + OnTheWay
  <2>1. main_pc \in {"launch", "poll", "inner", "enq", "deq"}
    OBVIOUS
  <2>2. QED
    BY <2>1, Zenon DEF PacketInv, FlightInv
<1>2. OnTheWay = 0
  <2>1. Len(leaked) \in Nat /\ OnTheWay \in Nat
    BY LenProperties, OnTheWayType DEF TypeOK
  <2>2. QED
    BY <1>1, <2>1
<1>3. {p \in 1 .. seqn : \E v \in Inst : p \in {Path(v)[i] : i \in DOMAIN Path(v)}} = {}
  <2> DEFINE S == In(OnPaths, Content, Fill, seqn)
  <2>1. IsFiniteSet(S) /\ Cardinality(S) = 0
    BY <1>2, InFinite, Zenon DEF OnTheWay, TypeOK
  <2>2. S = {}
    BY <2>1, FS_EmptySet, Zenon
  <2>3. QED
    BY <2>2, OnTheWayIs, Zenon
<1> DEFINE q == Path(w)
           m == seqn
<1>4. q \in Seq(Nat) /\ Ascends(q, m)
  BY PartTypes, Zenon DEF PathsAscend
<1>5. ASSUME NEW i \in 1 .. Len(q) PROVE FALSE
  <2>1. q[i] \in 1 .. m
    BY <1>4, Zenon DEF Ascends
  <2>2. i \in DOMAIN q
    BY <1>4, LenProperties
  <2>3. q[i] \in {Path(w)[k] : k \in DOMAIN Path(w)}
    BY <2>2, Zenon DEF q
  <2>4. q[i] \in {p \in 1 .. seqn : \E v \in Inst : p \in {Path(v)[k] : k \in DOMAIN Path(v)}}
    BY <2>1, <2>3, Zenon DEF m
  <2>5. QED
    BY <1>3, <2>4, Zenon
<1> HIDE DEF q
<1>6. Len(q) = 0
  <2>1. Len(q) \in Nat
    BY <1>4, LenProperties
  <2>2. Len(q) # 0 => 1 \in 1 .. Len(q)
    BY <2>1
  <2>3. QED
    BY <1>5, <2>2, Zenon
<1>7. q = <<>>
  BY <1>4, <1>6, EmptySeq
<1>8. QED
  BY <1>7, Zenon DEF q

(* No packet is stranded behind an idle port: when run_dpdk finds no new packets and
   nothing to wait for, and so only polls the port, all rings and workers are empty.
   The step behind EveryPacketLeaves, for all sizes. *)
THEOREM NeverRestsOnPackets == Spec => []RestsOnlyDry
<1>1. Init => HandsEmpty
  BY DEF Init, HandsEmpty
<1>2. QED
  BY <1>1, TypeInit, TypeStep, HandsStep, BurstInit, BurstStep, PacketInit, PacketStep,
     OrderInit, OrderStep, RestIsDry, PTL DEF Spec

\* How far main is from its end when nothing keeps it in its loops.
Rank ==
  CASE main_pc = "launch" -> 7
    [] main_pc = "enq" -> 6
    [] main_pc = "deq" -> 5
    [] main_pc = "inner" -> 4
    [] main_pc = "poll" -> 3
    [] main_pc = "post" -> 2
    [] main_pc = "wait" -> 1
    [] main_pc = "done" -> 0

\* The workers not launched yet.
Unlaunched == {w \in Inst : worker_pc[w] = "idle"}

\* A step gets main on: to a place nearer its end, or at the same place it frees packets
\* or launches a worker.
GetsOn ==
  \/ Rank' < Rank
  \/ Rank' = Rank /\ OnTheWay' < OnTheWay
  \/ Rank' = Rank /\ OnTheWay' = OnTheWay
       /\ Unlaunched' \subseteq Unlaunched /\ Unlaunched' # Unlaunched

\* A step leaves main as near its end as it was.
HoldsOff ==
  Rank' = Rank /\ OnTheWay' = OnTheWay /\ Unlaunched' = Unlaunched

\* After a signal every step of main gets it on, and no other step sets it back.
Unwinds == force_quit => GetsOn \/ (~Main /\ HoldsOff)

\* Where main is decides how far it is.
LEMMA RankIs ==
  /\ main_pc = "launch" => Rank = 7
  /\ main_pc = "enq" => Rank = 6
  /\ main_pc = "deq" => Rank = 5
  /\ main_pc = "inner" => Rank = 4
  /\ main_pc = "poll" => Rank = 3
  /\ main_pc = "post" => Rank = 2
  /\ main_pc = "wait" => Rank = 1
  /\ main_pc = "done" => Rank = 0
BY DEF Rank

\* The same of the next state.
LEMMA RankPrimed ==
  /\ main_pc' = "launch" => Rank' = 7
  /\ main_pc' = "enq" => Rank' = 6
  /\ main_pc' = "deq" => Rank' = 5
  /\ main_pc' = "inner" => Rank' = 4
  /\ main_pc' = "poll" => Rank' = 3
  /\ main_pc' = "post" => Rank' = 2
  /\ main_pc' = "wait" => Rank' = 1
  /\ main_pc' = "done" => Rank' = 0
BY DEF Rank

\* Every step after a signal takes main towards its end, or is not one of main.
LEMMA UnwindStep ==
  TypeOK /\ TypeOK' /\ HandsEmpty /\ PacketInv /\ [Next]_vars => Unwinds \/ UNCHANGED vars
<1> SUFFICES ASSUME TypeOK, TypeOK', HandsEmpty, PacketInv, Next, force_quit
             PROVE  GetsOn \/ (~Main /\ HoldsOff)
  BY Zenon DEF Unwinds
<1> USE DEF runVars, dealVars, histVars, workerVars, envVars
<1>0. OnTheWay \in Nat
  BY OnTheWayType
<1>s. ASSUME UNCHANGED main_pc PROVE Rank' = Rank
  BY <1>s, Zenon DEF Rank
<1>p. ASSUME \A w \in Inst : Path(w)' = Path(w), UNCHANGED <<seqn, sent, flushed, leaked>>
      PROVE  OnTheWay' = OnTheWay
  BY <1>p, StayStep, Zenon DEF PacketInv
<1>1. ASSUME NEW w \in Inst, Launch(w) PROVE GetsOn
  <2>1. /\ UNCHANGED <<main_pc, seqn, sent, flushed, leaked, ring_in, ring_out, mbufs_out,
                       chunk, ring_in_index>>
        /\ worker_pc[w] = "idle" /\ worker_pc' = [worker_pc EXCEPT ![w] = "head"]
    BY <1>1, Zenon DEF Launch
  <2>2. Rank' = Rank
    BY <1>s, <2>1
  <2>3. OnTheWay' = OnTheWay
    <3>1. \A v \in Inst : Path(v)' = Path(v)
      BY <2>1, Zenon DEF Path
    <3>2. QED
      BY <1>p, <2>1, <3>1, Zenon
  <2>4. /\ \A v \in Inst : worker_pc'[v] = IF v = w THEN "head" ELSE worker_pc[v]
        /\ "head" # "idle"
    BY <2>1 DEF TypeOK
  <2>5. w \in Unlaunched /\ w \notin Unlaunched'
    BY <2>1, <2>4, Zenon DEF Unlaunched
  <2>6. Unlaunched' \subseteq Unlaunched
    BY <2>4, Zenon DEF Unlaunched
  <2>7. QED
    BY <2>2, <2>3, <2>5, <2>6, Zenon DEF GetsOn
<1>2. ASSUME StartMain \/ StartFails \/ LeaveLoop \/ WaitWorkers PROVE GetsOn
  <2>1. \/ main_pc = "launch" /\ main_pc' \in {"poll", "post"}
        \/ main_pc = "poll" /\ main_pc' = "post"
        \/ main_pc = "wait" /\ main_pc' = "done"
    BY <1>2 DEF StartMain, StartFails, LeaveLoop, ToPostRun, WaitWorkers
  <2>2. Rank' < Rank
    BY ONLY <2>1, RankIs, RankPrimed
  <2>3. QED
    BY <2>2, Zenon DEF GetsOn
<1>3. ASSUME EndEnqueue \/ Aggregate \/ EndInner PROVE GetsOn
  <2>1. \/ main_pc = "enq" /\ main_pc' = "deq"
        \/ main_pc = "deq" /\ main_pc' = "inner"
        \/ main_pc = "inner" /\ main_pc' = "poll"
    BY <1>3, Zenon DEF EndEnqueue, Aggregate, EndInner
  <2>2. Rank' < Rank
    BY ONLY <2>1, RankIs, RankPrimed
  <2>3. QED
    BY <2>2, Zenon DEF GetsOn
<1>4. ASSUME PostSearch PROVE GetsOn
  <2>1. CASE Flushed = 0
    <3>1. main_pc = "post" /\ main_pc' = "wait"
      BY <1>4, <2>1, Zenon DEF PostSearch, Flushed
    <3>2. Rank' < Rank
      BY ONLY <3>1, RankIs, RankPrimed
    <3>3. QED
      BY <3>2, Zenon DEF GetsOn
  <2>2. CASE Flushed # 0
    <3>1. main_pc' = main_pc
      BY <1>4, <2>2, Zenon DEF PostSearch, Flushed
    <3>2. Rank' = Rank
      BY <1>s, <3>1
    <3>3. OnTheWay' = OnTheWay - Flushed
      BY <1>4, PostSearchPacket, Zenon
    <3>4. Flushed \in Nat
      <4>1. ring_out_index \in Inst
        BY DEF TypeOK
      <4>2. Len(ring_out[ring_out_index]) \in Nat
        BY <4>1, QueueTypes
      <4>3. QED
        BY <4>2, SizesAssumption DEF Flushed, Lesser
    <3>5. OnTheWay' < OnTheWay
      BY <1>0, <2>2, <3>3, <3>4
    <3>6. QED
      BY <3>2, <3>5, Zenon DEF GetsOn
  <2>3. QED
    BY <2>1, <2>2
<1>5. CASE PollIdle \/ TakeChunk \/ Enqueue \/ \E n \in 1 .. EthBatch : Receive(n)
  BY <1>5 DEF PollIdle, TakeChunk, Enqueue, Receive
<1>6. CASE Signal
  BY <1>6 DEF Signal
<1>7. ASSUME NEW w \in Inst, Worker(w) PROVE HoldsOff
  <2>1. UNCHANGED <<main_pc, seqn, sent, flushed, leaked>>
    BY <1>7, Zenon DEF Worker, WorkerCheck, WorkerDequeue, WorkerEnqueue
  <2>2. \A v \in Inst : Path(v)' = Path(v)
    <3>1. CASE WorkerCheck(w)
      BY <3>1, Zenon DEF WorkerCheck, Path
    <3>2. CASE WorkerDequeue(w) \/ WorkerEnqueue(w)
      BY <3>2, WorkerDequeueStutters, WorkerEnqueueStutters, SamePaths, Zenon
    <3>3. QED
      BY <1>7, <3>1, <3>2 DEF Worker
  <2>3. \A v \in Inst : worker_pc'[v] = "idle" <=> worker_pc[v] = "idle"
    <3>1. PICK pc \in {"head", "deq", "out", "exit"} :
            worker_pc' = [worker_pc EXCEPT ![w] = pc]
      BY <1>7 DEF Worker, WorkerCheck, WorkerDequeue, WorkerEnqueue
    <3>2. worker_pc[w] # "idle"
      BY <1>7 DEF Worker, WorkerCheck, WorkerDequeue, WorkerEnqueue
    <3>3. QED
      BY <3>1, <3>2 DEF TypeOK
  <2>4. Unlaunched' = Unlaunched
    BY <2>3, Zenon DEF Unlaunched
  <2>5. QED
    BY <1>s, <1>p, <2>1, <2>2, <2>4, Zenon DEF HoldsOff
<1>8. ASSUME TimeUp PROVE HoldsOff
  <2>1. UNCHANGED <<main_pc, seqn, sent, flushed, leaked, ring_in, ring_out, mbufs_out,
                    chunk, ring_in_index, worker_pc>>
    BY <1>8, Zenon DEF TimeUp
  <2>2. \A v \in Inst : Path(v)' = Path(v)
    BY <2>1, Zenon DEF Path
  <2>3. Unlaunched' = Unlaunched
    BY <2>1, Zenon DEF Unlaunched
  <2>4. QED
    BY <1>s, <1>p, <2>1, <2>2, <2>3, Zenon DEF HoldsOff
<1>9. CASE Main
  BY <1>1, <1>2, <1>3, <1>4, <1>5, <1>9, Zenon DEF Main
<1>10. CASE ~Main
  BY <1>2, <1>5, <1>6, <1>7, <1>8, <1>10, Zenon DEF Next
<1>11. QED
  BY <1>9, <1>10

(* The step behind SignalStopsMain: after a signal every step of the main lcore takes
   it out of its loops towards its end, or frees packets, of which there are no new ones,
   or launches a worker; and nothing a worker does sets it back. *)
THEOREM SignalUnwinds == Spec => [][Unwinds]_vars
<1>1. Init => HandsEmpty
  BY DEF Init, HandsEmpty
<1>2. TypeOK /\ TypeOK' /\ HandsEmpty /\ PacketInv /\ [Next]_vars => [Unwinds]_vars
  BY UnwindStep, Zenon
<1>3. QED
  BY <1>1, <1>2, TypeInit, TypeStep, HandsStep, BurstInit, BurstStep, PacketInit, PacketStep,
     PTL DEF Spec

\* How much worker w still has to do before it exits, once the run is over.
WorkLeft(w) ==
  CASE worker_pc[w] = "deq" -> WorkerBurst + 2
    [] worker_pc[w] = "out" -> Len(mbufs_out[w]) + 1
    [] worker_pc[w] = "head" -> 1
    [] worker_pc[w] \in {"idle", "exit"} -> 0

\* Once the run is over, each worker step takes that worker nearer its exit, and nothing
\* else makes work for it.
Retires ==
  ~running =>
    \A w \in Inst :
      \/ WorkLeft(w) \in Nat /\ WorkLeft(w)' \in Nat /\ WorkLeft(w)' < WorkLeft(w)
      \/ worker_pc'[w] = worker_pc[w] /\ mbufs_out'[w] = mbufs_out[w]

\* The values of WorkLeft.
LEMMA WorkLeftIs ==
  \A w \in Inst :
    /\ worker_pc[w] = "deq" => WorkLeft(w) = WorkerBurst + 2
    /\ worker_pc[w] = "out" => WorkLeft(w) = Len(mbufs_out[w]) + 1
    /\ worker_pc[w] = "head" => WorkLeft(w) = 1
    /\ worker_pc[w] \in {"idle", "exit"} => WorkLeft(w) = 0
BY DEF WorkLeft

\* And in the next state.
LEMMA WorkLeftPrimed ==
  \A w \in Inst :
    /\ worker_pc'[w] = "deq" => WorkLeft(w)' = WorkerBurst + 2
    /\ worker_pc'[w] = "out" => WorkLeft(w)' = Len(mbufs_out'[w]) + 1
    /\ worker_pc'[w] = "head" => WorkLeft(w)' = 1
    /\ worker_pc'[w] \in {"idle", "exit"} => WorkLeft(w)' = 0
BY DEF WorkLeft

\* A worker finishes the burst in its hands and exits.
LEMMA RetireStep == TypeOK /\ RunningInv /\ [Next]_vars => Retires
<1> SUFFICES ASSUME TypeOK, RunningInv, [Next]_vars, ~running, NEW w \in Inst
             PROVE  \/ WorkLeft(w) \in Nat /\ WorkLeft(w)' \in Nat
                         /\ WorkLeft(w)' < WorkLeft(w)
                    \/ worker_pc'[w] = worker_pc[w] /\ mbufs_out'[w] = mbufs_out[w]
  BY Zenon DEF Retires
<1>0. /\ main_pc \in {"post", "wait", "done"}
      /\ worker_pc \in [Inst -> {"idle", "head", "deq", "out", "exit"}]
      /\ mbufs_out \in [Inst -> Seq(Nat)]
      /\ WorkerBurst \in Nat \ {0}
  BY SizesAssumption DEF TypeOK, RunningInv
<1> USE DEF runVars, dealVars, histVars, workerVars, envVars
<1>1. ASSUME NEW v \in Inst, Launch(v) PROVE FALSE
  BY <1>0, <1>1 DEF Launch
<1>2. CASE StartMain \/ StartFails \/ LeaveLoop \/ PostSearch \/ WaitWorkers
  BY <1>2, Zenon DEF StartMain, StartFails, LeaveLoop, ToPostRun, PostSearch, WaitWorkers
<1>3. CASE PollIdle \/ TakeChunk \/ Enqueue \/ EndEnqueue \/ Aggregate \/ EndInner
  BY <1>0, <1>3 DEF PollIdle, TakeChunk, Enqueue, EndEnqueue, Aggregate, EndInner
<1>4. CASE Signal \/ TimeUp \/ UNCHANGED vars \/ \E n \in 1 .. EthBatch : Receive(n)
  BY <1>4, Zenon DEF Signal, TimeUp, vars, Receive
<1>5. ASSUME NEW v \in Inst, Worker(v)
      PROVE  \/ WorkLeft(w) \in Nat /\ WorkLeft(w)' \in Nat /\ WorkLeft(w)' < WorkLeft(w)
             \/ worker_pc'[w] = worker_pc[w] /\ mbufs_out'[w] = mbufs_out[w]
  <2>1. CASE v # w
    <3>1. \/ WorkerCheck(v) \/ WorkerDequeue(v) \/ WorkerEnqueue(v)
      BY <1>5 DEF Worker
    <3>2. worker_pc'[w] = worker_pc[w]
      BY <1>0, <2>1, <3>1 DEF WorkerCheck, WorkerDequeue, WorkerEnqueue
    <3>3. mbufs_out'[w] = mbufs_out[w]
      BY <1>0, <2>1, <3>1 DEF WorkerCheck, WorkerDequeue, WorkerEnqueue
    <3>4. QED
      BY <3>2, <3>3
  <2>2. CASE v = w /\ WorkerCheck(w)
    <3>1. worker_pc[w] = "head" /\ worker_pc'[w] = "exit"
      BY <1>0, <2>2 DEF WorkerCheck
    <3>2. WorkLeft(w) = 1 /\ WorkLeft(w)' = 0
      BY <3>1, WorkLeftIs, WorkLeftPrimed
    <3>3. QED
      BY <3>2
  <2>3. CASE v = w /\ WorkerDequeue(w)
    <3> DEFINE n == Lesser(WorkerBurst, Len(ring_in[w]))
    <3>1. /\ worker_pc[w] = "deq"
          /\ worker_pc'[w] = (IF n = 0 THEN "head" ELSE "out")
          /\ mbufs_out'[w] = Take(ring_in[w], n)
      BY <1>0, <2>3 DEF WorkerDequeue
    <3>2. n \in 0 .. Len(ring_in[w]) /\ n \in 0 .. WorkerBurst
      BY <1>0, QueueTypes DEF Lesser
    <3> HIDE DEF n
    <3>3. Len(Take(ring_in[w], n)) = n
      BY <3>2, QueueTypes, TakeDrop
    <3>4. WorkLeft(w) = WorkerBurst + 2
      BY <3>1, WorkLeftIs
    <3>5. WorkLeft(w)' = 1 \/ WorkLeft(w)' = n + 1
      BY <3>1, <3>3, WorkLeftPrimed
    <3>6. QED
      BY <1>0, <3>2, <3>4, <3>5
  <2>4. CASE v = w /\ WorkerEnqueue(w)
    <3> DEFINE n == Lesser(Len(mbufs_out[w]), Room(ring_out[w]))
               l == Len(mbufs_out[w])
    <3>1. /\ worker_pc[w] = "out" /\ n > 0
          /\ worker_pc'[w] = (IF n = l THEN "head" ELSE "out")
          /\ mbufs_out'[w] = Drop(mbufs_out[w], n)
      BY <1>0, <2>4 DEF WorkerEnqueue
    <3>2. l \in Nat /\ n \in 0 .. l
      <4>1. Len(mbufs_out[w]) \in Nat /\ Len(ring_out[w]) \in Nat
        BY QueueTypes
      <4>2. Room(ring_out[w]) \in Int
        BY <4>1, SizesAssumption DEF Room
      <4>3. QED
        BY <3>1, <4>1, <4>2, AtMostAll
    <3>3. Len(Drop(mbufs_out[w], n)) = l - n
      <4> HIDE DEF n
      <4>1. QED
        BY <1>0, <3>2, TakeDrop
    <3> HIDE DEF n, l
    <3>4. WorkLeft(w) = l + 1
      BY <3>1, WorkLeftIs DEF l
    <3>5. (WorkLeft(w)' = 1 /\ n = l) \/ WorkLeft(w)' = (l - n) + 1
      BY <3>1, <3>3, WorkLeftPrimed
    <3>6. QED
      BY <3>1, <3>2, <3>4, <3>5
  <2>5. QED
    BY <1>5, <2>1, <2>2, <2>3, <2>4 DEF Worker
<1>6. QED
  BY <1>1, <1>2, <1>3, <1>4, <1>5, Zenon DEF Next, Main

(* The step behind RunEndsUnlessBlocked: when the loop of main is over, what a worker has
   to do before it exits only becomes less, by every step it takes; so only one that cannot
   take a step, in front of a full ring_out, can keep the program from its end. *)
THEOREM WorkersRetire == Spec => [][Retires]_vars
<1>1. TypeOK /\ RunningInv /\ [Next]_vars => [Retires]_vars
  BY RetireStep
<1>2. QED
  BY <1>1, TypeInit, TypeStep, RunningInit, RunningStep, PTL DEF Spec

=============================================================================
