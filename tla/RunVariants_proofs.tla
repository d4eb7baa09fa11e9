-------------------------- MODULE RunVariants_proofs --------------------------
(***************************************************************************)
(* Proofs about the loops that the build can choose from and what they     *)
(* count, for every number of lcores, mbufs and packets.                   *)
(***************************************************************************)
EXTENDS RunVariants, SequenceTheorems, FiniteSetTheorems, WellFoundedInduction, TLAPS

\* Values of the variables.
Count == [cnt : Nat, bytes : Nat]
Mbuf == [place : {"pool", "in", "out"}, worker : Queues, len : Nat]
Latencies == [nb : Int, samples : [0 .. NbSamples - 1 -> Int], tot : Nat, min : Int, max : Nat]

\* Type invariants: of the loops, of the burst at hand, of the mbufs and the counting of
\* them, and of the statistics.
LoopTypes ==
  /\ variant \in {"meili", "transmit", "remote", "baseline", "latency"}
  /\ pc \in {"start", "poll", "send", "exec", "wait", "done"}
  /\ received \in Nat /\ quit \in BOOLEAN
BurstTypes ==
  /\ batch \in Seq(Nat) /\ sent \in Seq(Nat) /\ freed \in Seq(Nat)
  /\ nbOut \in Nat /\ waitEnq \in Nat /\ short \in BOOLEAN /\ outgrown \in BOOLEAN
MbufTypes ==
  /\ mbuf \in [Mbufs -> Mbuf]
  /\ counting \in [Workers -> [pkts : SUBSET Mbufs, bytes : BOOLEAN]]
  /\ passed \in [Queues -> Count]
StatsTypes ==
  /\ tx \in [Queues -> Count] /\ split \in [Queues -> Count]
  /\ shown \in [Queues -> Count] /\ total \in [Queues -> Count]
  /\ printing \in [todo : Seq(Queues), seen : Count, step : {"read", "store"}, last : BOOLEAN]

\* Which loop main is in, and which packets it has at hand.
BurstInv ==
  /\ nbOut <= Len(batch) /\ waitEnq <= Len(batch) /\ Len(batch) <= received
  /\ \A i \in 1 .. Len(batch) : batch[i] = received - Len(batch) + i
  /\ variant = "meili" => batch = <<>>
  /\ pc = "send" => variant \in {"transmit", "remote"}
  /\ pc = "exec" => variant \in {"baseline", "latency"}

\* The packets up to the n-th.
UpTo(n) == [i \in 1 .. n |-> i]

\* What the port has taken, also within a burst.
SentInv ==
  /\ variant \in {"transmit", "remote"} /\ pc # "send" => nbOut = Len(batch)
  /\ variant = "transmit" /\ ~short => nbOut \in {0, Len(batch)}
  /\ variant = "remote" \/ (variant = "transmit" /\ ~short) =>
       sent = UpTo(received - Len(batch) + nbOut)

\* The packets whose stage has run: those of the burst at hand are still to come.
Done == received - (IF pc = "exec" THEN Len(batch) ELSE 0)

\* What the stage has run on, also within a burst.
FreedInv ==
  /\ variant = "baseline" /\ pc = "exec" => waitEnq = Len(batch)
  /\ variant \in {"baseline", "latency"} /\ ~outgrown =>
       /\ Len(batch) <= BatchIn /\ (pc = "exec" => waitEnq = Len(batch))
       /\ freed = UpTo(Done)
  /\ variant = "baseline" =>
       IsInjective(freed) /\ \A i \in 1 .. Len(freed) : freed[i] <= Done

\* All of it: what the four loops hand over.
HandedInv == LoopTypes /\ BurstTypes /\ BurstInv /\ SentInv /\ FreedInv

\* The print in progress: it has the last entries to go.
PrintInv ==
  /\ Len(printing.todo) <= Cores
  /\ \A j \in 1 .. Len(printing.todo) : printing.todo[j] = Cores - Len(printing.todo) + j - 1
  /\ printing.todo = <<>> => printing = Nothing
  /\ printing # Nothing => pc \in {"poll", "done"}

\* Main is between the two reads of entry q.
Storing(q) == printing.step = "store" /\ q = Head(printing.todo)

\* What was printed of an entry is remembered, and no more than is counted; between the
\* two reads it is at most what the first has seen.
SplitInv ==
  /\ \A q \in Queues : AtMost(split[q], tx[q]) /\ AtMost(shown[q], tx[q])
  /\ \A q \in Queues : IF Storing(q) THEN AtMost(shown[q], printing.seen) /\ AtMost(printing.seen, tx[q])
                       ELSE AtMost(shown[q], split[q])
  /\ IF Storing(0) THEN shown[0] = tx[0] /\ printing.seen = tx[0] ELSE shown[0] = split[0]

\* The bytes worker w has passed on and not counted, as long as nobody refills its mbufs.
Pending(w) == IF counting[w].bytes THEN 0 ELSE Bytes(counting[w].pkts, mbuf)

\* A worker has counted what it has passed on, but for what it is about to count.
WorkerCounts(w) ==
  /\ passed[w].cnt = tx[w].cnt + Cardinality(counting[w].pkts)
  /\ w \notin stale => passed[w].bytes = tx[w].bytes + Pending(w)

\* So has every lcore.
CountInv ==
  /\ passed[0] = tx[0]
  /\ \A w \in Workers : WorkerCounts(w)

\* In the last print, what is printed is final.
FinalInv ==
  pc = "done" =>
    /\ \A w \in Workers : counting[w] = Idle
    /\ printing = Nothing \/ printing.last
    /\ \A q \in Queues :
         q < Cores - Len(printing.todo) + (IF printing.step = "store" THEN 1 ELSE 0) =>
           total[q] = tx[q]

\* The latencies of n packets.
LatencyInv(l, n) ==
  /\ IF n = 0 THEN l.nb = 0 /\ l.tot = 0 /\ l.min = Unset
     ELSE 0 <= l.min /\ l.min <= l.max /\ n * l.min <= l.tot /\ l.tot <= n * l.max
  /\ \A i \in 0 .. NbSamples - 1 :
       l.samples[i] # Unset => n # 0 /\ l.min <= l.samples[i] /\ l.samples[i] <= l.max
  /\ \/ \A i \in 0 .. NbSamples - 1 : l.samples[i] # Unset
     \/ /\ 0 <= l.nb /\ l.nb < NbSamples
        /\ \A i \in 0 .. l.nb - 1 : l.samples[i] # Unset
  /\ l.max + n < IntHalf => 0 <= l.nb /\ l.nb <= l.max + n

\* The packets whose time was measured.
Timed == IF variant = "latency" THEN tx[0].cnt ELSE 0

\* The latencies are those of the packets measured.
LatInv == lat \in Latencies /\ LatencyInv(lat, Timed)

-----------------------------------------------------------------------------
(* What is handed over.                                                    *)

\* The parameters, as the assumptions type them.
LEMMA ParametersAre ==
  /\ MaxPkts \in Nat /\ IsFiniteSet(Mbufs)
  /\ MaxLength \in Nat \ {0} /\ EthBatch \in Nat \ {0}
  /\ BatchIn \in Nat \ {0} /\ MaxLatency \in Nat \ {0}
  /\ Cores \in Nat \ {0} /\ MaxPrints \in Nat
  /\ NbSamples \in Nat \ {0} /\ IntHalf \in Nat /\ NbSamples < IntHalf
<1>1. MaxPkts \in Nat /\ IsFiniteSet(Mbufs)
  BY RunVariantsAssumption, Zenon
<1>2. \A n \in {MaxLength, EthBatch, BatchIn, MaxLatency} : n \in Nat \ {0}
  BY RunVariantsAssumption, Zenon
<1>3. /\ Cores \in Nat \ {0} /\ MaxPrints \in Nat
      /\ NbSamples \in Nat \ {0} /\ IntHalf \in Nat /\ NbSamples < IntHalf
  BY StatisticsAssumption, Zenon
<1>4. QED
  BY <1>1, <1>2, <1>3, Zenon

\* The first packets are a sequence.
LEMMA UpToIs ==
  ASSUME NEW n \in Nat
  PROVE  UpTo(n) \in Seq(Nat) /\ Len(UpTo(n)) = n /\ \A i \in 1 .. n : UpTo(n)[i] = i
BY DEF UpTo

\* A prefix of a sequence.
LEMMA PrefixIs ==
  ASSUME NEW X, NEW q \in Seq(X), NEW k \in 0 .. Len(q)
  PROVE  /\ SubSeq(q, 1, k) \in Seq(X) /\ Len(SubSeq(q, 1, k)) = k
         /\ \A i \in 1 .. k : SubSeq(q, 1, k)[i] = q[i]
OBVIOUS

\* A suffix of a sequence.
LEMMA SuffixIs ==
  ASSUME NEW X, NEW q \in Seq(X), NEW k \in 0 .. Len(q)
  PROVE  /\ SubSeq(q, k + 1, Len(q)) \in Seq(X) /\ Len(SubSeq(q, k + 1, Len(q))) = Len(q) - k
         /\ \A i \in 1 .. Len(q) - k : SubSeq(q, k + 1, Len(q))[i] = q[k + i]
OBVIOUS

\* The next packets, after the first ones, are the first ones again.
LEMMA UpToGrows ==
  ASSUME NEW n \in Nat, NEW t \in Seq(Nat), \A i \in 1 .. Len(t) : t[i] = n + i
  PROVE  UpTo(n) \o t = UpTo(n + Len(t))
<1>1. /\ UpTo(n) \in Seq(Nat) /\ Len(UpTo(n)) = n /\ \A i \in 1 .. n : UpTo(n)[i] = i
      /\ Len(t) \in Nat
  BY UpToIs
<1>2. n + Len(t) \in Nat
  BY <1>1
<1>3. /\ UpTo(n + Len(t)) \in Seq(Nat) /\ Len(UpTo(n + Len(t))) = n + Len(t)
      /\ \A i \in 1 .. n + Len(t) : UpTo(n + Len(t))[i] = i
  BY <1>2, UpToIs
<1> DEFINE a == UpTo(n)
           b == UpTo(n + Len(t))
<1> HIDE DEF a, b
<1>4. a \in Seq(Nat) /\ b \in Seq(Nat) /\ Len(a) = n /\ Len(b) = n + Len(t)
  BY <1>1, <1>3 DEF a, b
<1>5. /\ a \o t \in Seq(Nat) /\ Len(a \o t) = n + Len(t)
      /\ \A i \in 1 .. n + Len(t) : (a \o t)[i] = IF i <= n THEN a[i] ELSE t[i - n]
  <2>1. /\ a \o t \in Seq(Nat) /\ Len(a \o t) = Len(a) + Len(t)
        /\ \A i \in 1 .. Len(a) + Len(t) :
             (a \o t)[i] = IF i <= Len(a) THEN a[i] ELSE t[i - Len(a)]
    BY ONLY <1>4, t \in Seq(Nat), ConcatProperties
  <2>2. QED
    BY ONLY <1>4, <2>1
<1>6. ASSUME NEW i \in 1 .. n + Len(t) PROVE (a \o t)[i] = b[i]
  <2>1. b[i] = i
    BY <1>3 DEF b
  <2>2. CASE i <= n
    <3>1. a[i] = i
      BY <1>1, <2>2 DEF a
    <3>2. QED
      BY <1>5, <2>1, <2>2, <3>1
  <2>3. CASE i > n
    <3>1. i - n \in 1 .. Len(t) /\ i \in Int
      BY <1>1, <2>3
    <3>2. t[i - n] = n + (i - n)
      BY <3>1
    <3>3. t[i - n] = i
      BY <3>1, <3>2
    <3>4. (a \o t)[i] = t[i - n]
      <4>1. ~(i <= n)
        BY ONLY <2>3, <3>1, n \in Nat
      <4>2. QED
        BY ONLY <1>5, <4>1, i \in 1 .. n + Len(t)
    <3>5. QED
      BY <2>1, <3>3, <3>4
  <2>4. i <= n \/ i > n
    <3>1. i \in Int /\ n \in Int
      BY <1>2
    <3>2. QED
      BY ONLY <3>1
  <2>5. QED
    BY <2>2, <2>3, <2>4
<1>7. a \o t = b
  BY <1>4, <1>5, <1>6, SeqEqual
<1>8. QED
  BY <1>7 DEF a, b

\* Main in the loop, where there is no burst at hand.
Outside == {"start", "poll", "wait", "done"}

\* A step elsewhere: of the workers, of the print, or one that receives for the workers.
LEMMA ElsewhereHanded ==
  ASSUME HandedInv, UNCHANGED <<variant, burstVars>>, quit' \in BOOLEAN,
         pc' = pc \/ (pc \in Outside /\ pc' \in Outside),
         received' = received \/ (variant = "meili" /\ received' \in Nat)
  PROVE  HandedInv'
<1> USE DEF burstVars
<1>1. LoopTypes'
  BY DEF HandedInv, LoopTypes, Outside
<1>2. BurstTypes'
  BY DEF HandedInv, BurstTypes
<1>3. variant = "meili" => batch = <<>>
  BY DEF HandedInv, BurstInv
<1>4. CASE received' = received
  <2>1. BurstInv'
    BY <1>4 DEF HandedInv, BurstInv, Outside
  <2>2. SentInv'
    BY <1>4 DEF HandedInv, SentInv, Outside
  <2>3. (pc' = "exec") = (pc = "exec") /\ Done' = Done
    BY <1>4 DEF Done, Outside
  <2>4. FreedInv'
    BY <2>3 DEF HandedInv, FreedInv
  <2>5. QED
    BY <1>1, <1>2, <2>1, <2>2, <2>4 DEF HandedInv
<1>5. CASE variant = "meili" /\ received' \in Nat
  <2>1. BurstInv'
    <3>1. Len(batch) = 0 /\ batch' = batch /\ variant' = "meili"
      BY <1>3, <1>5
    <3>2. pc # "send" /\ pc # "exec"
      BY <1>5 DEF HandedInv, BurstInv
    <3>3. pc' # "send" /\ pc' # "exec"
      BY <3>2 DEF Outside
    <3>4. nbOut' <= Len(batch') /\ waitEnq' <= Len(batch')
      BY DEF HandedInv, BurstInv
    <3>5. Len(batch') <= received' /\ \A i \in 1 .. Len(batch') : batch'[i] = received' - Len(batch') + i
      BY <1>5, <3>1
    <3>6. QED
      BY <1>3, <3>1, <3>3, <3>4, <3>5 DEF BurstInv
  <2>2. SentInv' /\ FreedInv'
    BY <1>5 DEF SentInv, FreedInv
  <2>3. QED
    BY <1>1, <1>2, <2>1, <2>2 DEF HandedInv
<1>6. QED
  BY <1>4, <1>5

\* A burst arrives.
LEMMA PollHanded == HandedInv /\ Poll => HandedInv'
<1> SUFFICES ASSUME HandedInv, Poll PROVE HandedInv'
  OBVIOUS
<1>1. PICK n \in 1 .. SmallerOf(EthBatch, MaxPkts - received) :
        /\ batch' = [i \in 1 .. n |-> received + i]
        /\ received' = received + n /\ waitEnq' = n
        /\ outgrown' = (outgrown \/ n > BatchIn)
        /\ pc' = IF variant \in {"transmit", "remote"} THEN "send" ELSE "exec"
  BY DEF Poll
<1>2. /\ variant # "meili" /\ pc = "poll" /\ nbOut' = 0
      /\ UNCHANGED <<variant, quit, sent, freed, short>>
  BY DEF Poll
<1>3. /\ received \in Nat /\ nbOut \in Nat /\ Len(batch) \in Nat
      /\ variant \in {"meili", "transmit", "remote", "baseline", "latency"} /\ quit \in BOOLEAN
  BY DEF HandedInv, LoopTypes, BurstTypes
<1>4. n \in Nat /\ n >= 1
  BY <1>1
<1>5. batch' \in Seq(Nat) /\ Len(batch') = n /\ \A i \in 1 .. n : batch'[i] = received + i
  BY <1>1, <1>3, <1>4
<1>6. received' \in Nat /\ received' - n = received /\ received' - Len(batch') + nbOut' = received
  BY <1>1, <1>2, <1>3, <1>4, <1>5
<1>7. LoopTypes'
  BY <1>1, <1>2, <1>3, <1>6 DEF LoopTypes
<1>8. BurstTypes'
  <2>1. sent \in Seq(Nat) /\ freed \in Seq(Nat) /\ short \in BOOLEAN /\ outgrown \in BOOLEAN
    BY DEF HandedInv, BurstTypes
  <2>2. outgrown' \in BOOLEAN
    BY <1>1, <2>1
  <2>3. QED
    BY <1>1, <1>2, <1>4, <1>5, <2>1, <2>2 DEF BurstTypes
<1>9. BurstInv'
  <2>1. \A i \in 1 .. Len(batch') : batch'[i] = received' - Len(batch') + i
    BY <1>1, <1>3, <1>4, <1>5
  <2>2. nbOut' <= Len(batch') /\ waitEnq' <= Len(batch') /\ Len(batch') <= received'
    BY <1>1, <1>2, <1>3, <1>4, <1>5
  <2>3. variant' # "meili" /\ (pc' = "send" => variant' \in {"transmit", "remote"})
        /\ (pc' = "exec" => variant' \in {"baseline", "latency"})
    BY <1>1, <1>2, <1>3
  <2>4. QED
    BY <2>1, <2>2, <2>3 DEF BurstInv
<1>10. SentInv'
  <2>1. variant \in {"transmit", "remote"} => nbOut = Len(batch)
    BY <1>2 DEF HandedInv, SentInv
  <2>2. variant = "remote" \/ (variant = "transmit" /\ ~short) => sent = UpTo(received)
    <3>1. nbOut = Len(batch) => received - Len(batch) + nbOut = received
      BY <1>3
    <3>2. QED
      BY <2>1, <3>1 DEF HandedInv, SentInv
  <2>3. variant' \in {"transmit", "remote"} => pc' = "send"
    BY <1>1, <1>2
  <2>4. QED
    BY <1>2, <1>6, <2>2, <2>3 DEF SentInv
<1>11. FreedInv'
  <2>1. Done = received
    BY <1>2, <1>3 DEF Done
  <2>2. variant \in {"baseline", "latency"} => pc' = "exec"
    BY <1>1
  <2>3. pc' = "exec" => Done' = received
    BY <1>5, <1>6 DEF Done
  <2>4. waitEnq' = Len(batch') /\ (~outgrown' => ~outgrown /\ Len(batch') <= BatchIn)
    <3>1. outgrown' = (outgrown \/ n > BatchIn)
      BY <1>1
    <3>2. ~outgrown' => ~outgrown /\ ~(n > BatchIn)
      BY <3>1, Zenon
    <3>3. ~(n > BatchIn) => Len(batch') <= BatchIn
      BY <1>4, <1>5, ParametersAre
    <3>4. waitEnq' = Len(batch')
      BY <1>1, <1>5
    <3>5. QED
      BY <3>2, <3>3, <3>4
  <2>5. variant \in {"baseline", "latency"} /\ ~outgrown => freed = UpTo(received)
    BY <2>1 DEF HandedInv, FreedInv
  <2>6. variant = "baseline" =>
          IsInjective(freed) /\ \A i \in 1 .. Len(freed) : freed[i] <= received
    BY <2>1 DEF HandedInv, FreedInv
  <2>7. QED
    BY <1>2, <2>2, <2>3, <2>4, <2>5, <2>6 DEF FreedInv
<1>12. QED
  BY <1>7, <1>8, <1>9, <1>10, <1>11 DEF HandedInv

\* A turn of the loop around rte_eth_tx_burst.
LEMMA SendHanded == HandedInv /\ Send => HandedInv'
<1> SUFFICES ASSUME HandedInv, Send PROVE HandedInv'
  OBVIOUS
<1>1. PICK k \in 1 .. Len(batch) - nbOut :
        /\ sent' = sent \o SubSeq(Offered, 1, k)
        /\ nbOut' = nbOut + k
        /\ short' = (short \/ k < Len(Offered))
  BY DEF Send
<1>2. /\ pc = "send" /\ nbOut < Len(batch)
      /\ UNCHANGED <<variant, pc, quit, received, batch, waitEnq, freed, outgrown>>
  BY DEF Send
<1>3. /\ batch \in Seq(Nat) /\ sent \in Seq(Nat) /\ nbOut \in Nat /\ received \in Nat
      /\ Len(batch) \in Nat /\ Len(batch) <= received
      /\ \A i \in 1 .. Len(batch) : batch[i] = received - Len(batch) + i
  BY DEF HandedInv, LoopTypes, BurstTypes, BurstInv
<1>4. variant \in {"transmit", "remote"}
  BY <1>2 DEF HandedInv, BurstInv
<1>5. k \in Nat /\ nbOut + k <= Len(batch) /\ nbOut + k \in Nat /\ k \in 0 .. Len(batch) - nbOut
      /\ k >= 1
  BY <1>1, <1>3
<1> DEFINE from == IF variant = "transmit" THEN 0 ELSE nbOut
           taken == SubSeq(Offered, 1, k)
<1>6. /\ Offered \in Seq(Nat) /\ Len(Offered) = Len(batch) - nbOut
      /\ \A i \in 1 .. Len(batch) - nbOut : Offered[i] = batch[from + i]
  <2>1. CASE variant = "transmit"
    <3>1. Len(batch) - nbOut \in 0 .. Len(batch)
      BY <1>2, <1>3
    <3>2. Offered = SubSeq(batch, 1, Len(batch) - nbOut)
      BY <2>1 DEF Offered
    <3>3. /\ Offered \in Seq(Nat) /\ Len(Offered) = Len(batch) - nbOut
          /\ \A i \in 1 .. Len(batch) - nbOut : Offered[i] = batch[i]
      BY <1>3, <3>1, <3>2, PrefixIs
    <3>4. \A i \in 1 .. Len(batch) - nbOut : from + i = i
      BY <2>1, <3>1
    <3>5. QED
      BY <3>3, <3>4
  <2>2. CASE variant # "transmit"
    <3>1. nbOut \in 0 .. Len(batch)
      BY <1>2, <1>3
    <3>2. Offered = SubSeq(batch, nbOut + 1, Len(batch))
      BY <2>2 DEF Offered
    <3>3. QED
      BY <1>3, <2>2, <3>1, <3>2, SuffixIs
  <2>3. QED
    BY <2>1, <2>2
<1> HIDE DEF from
<1>7. /\ taken \in Seq(Nat) /\ Len(taken) = k
      /\ \A i \in 1 .. k : taken[i] = batch[from + i]
  <2>1. k \in 0 .. Len(Offered)
    BY <1>5, <1>6
  <2>2. taken \in Seq(Nat) /\ Len(taken) = k /\ \A i \in 1 .. k : taken[i] = Offered[i]
    BY <1>6, <2>1, PrefixIs
  <2> HIDE DEF taken
  <2>3. \A i \in 1 .. k : i \in 1 .. Len(batch) - nbOut
    BY <1>5, <1>3
  <2>4. QED
    BY <1>6, <2>2, <2>3
<1>8. sent' = sent \o taken
  BY <1>1
<1> HIDE DEF taken
<1>9. LoopTypes'
  BY <1>2 DEF HandedInv, LoopTypes
<1>10. BurstTypes'
  <2>1. sent' \in Seq(Nat)
    BY <1>3, <1>7, <1>8
  <2>2. short \in BOOLEAN /\ short' \in BOOLEAN
    BY <1>1 DEF HandedInv, BurstTypes
  <2>3. QED
    BY <1>1, <1>2, <1>5, <2>1, <2>2 DEF HandedInv, BurstTypes
<1>11. BurstInv'
  BY <1>1, <1>2, <1>5 DEF HandedInv, BurstInv
<1>12. SentInv'
  <2>1. (variant = "transmit" /\ ~short') => ~short /\ nbOut = 0 /\ nbOut' = Len(batch)
    <3> SUFFICES ASSUME variant = "transmit", ~short' PROVE ~short /\ nbOut = 0 /\ nbOut' = Len(batch)
      OBVIOUS
    <3>1. ~short /\ ~(k < Len(Offered))
      BY <1>1, Zenon
    <3>2. nbOut \in {0, Len(batch)}
      BY <3>1 DEF HandedInv, SentInv
    <3>3. nbOut = 0 /\ k \in Int /\ Len(batch) \in Int /\ nbOut + k <= Len(batch)
      BY <1>2, <1>3, <1>5, <3>2
    <3>4. nbOut' = nbOut + k /\ Len(Offered) = Len(batch) - nbOut
      BY <1>1, <1>6
    <3>5. QED
      BY ONLY <3>1, <3>3, <3>4
  <2>2. ASSUME variant = "remote" \/ (variant = "transmit" /\ ~short')
        PROVE  sent' = UpTo(received - Len(batch) + nbOut')
    <3> DEFINE n == received - Len(batch) + nbOut
    <3>1. sent = UpTo(n)
      BY <2>1, <2>2 DEF HandedInv, SentInv
    <3>2. from = nbOut
      BY <2>1, <2>2 DEF from
    <3>3. n \in Nat /\ n + k = received - Len(batch) + nbOut'
      BY <1>1, <1>3, <1>5
    <3>4. \A i \in 1 .. Len(taken) : taken[i] = n + i
      <4>1. ASSUME NEW i \in 1 .. k PROVE taken[i] = n + i
        <5>1. nbOut + i \in 1 .. Len(batch)
          BY <1>3, <1>5
        <5>2. taken[i] = batch[nbOut + i]
          BY <1>7, <3>2
        <5>3. batch[nbOut + i] = received - Len(batch) + (nbOut + i)
          BY <1>3, <5>1
        <5>4. QED
          BY <1>3, <5>2, <5>3
      <4>2. QED
        BY <1>7, <4>1
    <3> HIDE DEF n
    <3>5. UpTo(n) \o taken = UpTo(n + Len(taken))
      BY <1>7, <3>3, <3>4, UpToGrows
    <3>6. QED
      BY <1>7, <1>8, <3>1, <3>3, <3>5
  <2>3. QED
    BY <1>2, <2>1, <2>2 DEF SentInv
<1>13. FreedInv'
  BY <1>2, <1>4 DEF FreedInv
<1>14. QED
  BY <1>9, <1>10, <1>11, <1>12, <1>13 DEF HandedInv

\* All of the burst is sent, and main frees it.
LEMMA ReleaseHanded == HandedInv /\ Release => HandedInv'
<1> SUFFICES ASSUME HandedInv, Release PROVE HandedInv'
  OBVIOUS
<1>1. /\ pc = "send" /\ nbOut = Len(batch) /\ freed' = freed \o batch /\ pc' = "poll"
      /\ UNCHANGED <<variant, quit, received, batch, nbOut, waitEnq, sent, short, outgrown>>
  BY DEF Release
<1>2. variant \in {"transmit", "remote"}
  BY <1>1 DEF HandedInv, BurstInv
<1>3. LoopTypes'
  BY <1>1 DEF HandedInv, LoopTypes
<1>4. freed' \in Seq(Nat)
  BY <1>1 DEF HandedInv, BurstTypes
<1>5. BurstTypes'
  BY <1>1, <1>4 DEF HandedInv, BurstTypes
<1>6. BurstInv'
  BY <1>1 DEF HandedInv, BurstInv
<1>7. SentInv'
  BY <1>1 DEF HandedInv, SentInv
<1>8. FreedInv'
  BY <1>1, <1>2 DEF FreedInv
<1>9. QED
  BY <1>3, <1>5, <1>6, <1>7, <1>8 DEF HandedInv

\* Handing over numbers after those handed over repeats none.
LEMMA InjectiveGrows ==
  ASSUME NEW a \in Seq(Nat), NEW t \in Seq(Nat), NEW n \in Nat, IsInjective(a),
         \A i \in 1 .. Len(a) : a[i] <= n,
         \A i \in 1 .. Len(t) : t[i] = n + i
  PROVE  /\ IsInjective(a \o t)
         /\ \A i \in 1 .. Len(a \o t) : (a \o t)[i] <= n + Len(t)
<1> DEFINE c == a \o t
<1>1. /\ c \in Seq(Nat) /\ Len(c) = Len(a) + Len(t) /\ DOMAIN c = 1 .. Len(c)
      /\ \A i \in 1 .. Len(a) + Len(t) : c[i] = IF i <= Len(a) THEN a[i] ELSE t[i - Len(a)]
  BY ConcatProperties
<1>2. /\ Len(a) \in Nat /\ Len(t) \in Nat /\ DOMAIN a = 1 .. Len(a)
      /\ \A i \in 1 .. Len(a) : a[i] \in Nat
  OBVIOUS
<1> HIDE DEF c
<1>3. \A i \in 1 .. Len(c) : /\ i <= Len(a) => c[i] = a[i] /\ i \in 1 .. Len(a)
                             /\ i > Len(a) => c[i] = n + (i - Len(a))
  <2>1. ASSUME NEW i \in 1 .. Len(c), i <= Len(a) PROVE c[i] = a[i] /\ i \in 1 .. Len(a)
    BY <1>1, <1>2, <2>1
  <2>2. ASSUME NEW i \in 1 .. Len(c), i > Len(a) PROVE c[i] = n + (i - Len(a))
    <3>1. i - Len(a) \in 1 .. Len(t) /\ ~(i <= Len(a)) /\ i \in 1 .. Len(a) + Len(t)
      BY <1>1, <1>2, <2>2
    <3>2. c[i] = t[i - Len(a)]
      BY <1>1, <3>1
    <3>3. t[i - Len(a)] = n + (i - Len(a))
      BY <3>1
    <3>4. QED
      BY <3>2, <3>3
  <2>3. QED
    BY <2>1, <2>2
<1>4. ASSUME NEW i \in 1 .. Len(c) PROVE c[i] <= n + Len(t)
  <2>1. CASE i <= Len(a)
    BY <1>2, <1>3, <2>1
  <2>2. CASE i > Len(a)
    BY <1>1, <1>2, <1>3, <2>2
  <2>3. QED
    BY <1>1, <1>2, <2>1, <2>2
<1>5. ASSUME NEW i \in 1 .. Len(c), NEW j \in 1 .. Len(c), c[i] = c[j] PROVE i = j
  <2>0. i \in Int /\ j \in Int /\ Len(a) \in Int /\ n \in Int
    BY <1>1, <1>2
  <2>1. CASE i <= Len(a) /\ j <= Len(a)
    BY <1>2, <1>3, <1>5, <2>1 DEF IsInjective
  <2>2. CASE i > Len(a) /\ j > Len(a)
    BY <1>3, <1>5, <2>0, <2>2
  <2>3. CASE i <= Len(a) /\ j > Len(a)
    <3>1. c[i] <= n /\ c[i] \in Nat
      BY <1>2, <1>3, <2>3
    <3>2. c[j] = n + (j - Len(a))
      BY <1>3, <2>3
    <3>3. QED
      BY ONLY <1>5, <2>0, <2>3, <3>1, <3>2
  <2>4. CASE i > Len(a) /\ j <= Len(a)
    <3>1. c[j] <= n /\ c[j] \in Nat
      BY <1>2, <1>3, <2>4
    <3>2. c[i] = n + (i - Len(a))
      BY <1>3, <2>4
    <3>3. QED
      BY ONLY <1>5, <2>0, <2>4, <3>1, <3>2
  <2>5. (i <= Len(a) \/ i > Len(a)) /\ (j <= Len(a) \/ j > Len(a))
    BY ONLY <2>0
  <2>6. QED
    BY <2>1, <2>2, <2>3, <2>4, <2>5
<1>6. QED
  BY <1>1, <1>4, <1>5 DEF IsInjective, c

\* The stage runs on a chunk.
LEMMA ExecHanded == HandedInv /\ Exec => HandedInv'
<1> SUFFICES ASSUME HandedInv, Exec PROVE HandedInv'
  OBVIOUS
<1> DEFINE m == SmallerOf(BatchIn, waitEnq)
           chunk == SubSeq(batch, 1, m)
<1>1. /\ pc = "exec" /\ freed' = freed \o chunk /\ waitEnq' = waitEnq - Len(chunk)
      /\ pc' = IF variant = "latency" /\ waitEnq' > 0 THEN "exec" ELSE "poll"
      /\ UNCHANGED <<variant, quit, received, batch, nbOut, sent, short, outgrown>>
  BY DEF Exec, NextChunk
<1>2. variant \in {"baseline", "latency"}
  BY <1>1 DEF HandedInv, BurstInv
<1>3. /\ batch \in Seq(Nat) /\ freed \in Seq(Nat) /\ waitEnq \in Nat /\ received \in Nat
      /\ Len(batch) \in Nat /\ Len(batch) <= received /\ waitEnq <= Len(batch)
      /\ \A i \in 1 .. Len(batch) : batch[i] = received - Len(batch) + i
  BY DEF HandedInv, LoopTypes, BurstTypes, BurstInv
<1>4. /\ m \in Nat /\ m <= waitEnq /\ m \in 0 .. Len(batch)
      /\ BatchIn \in Nat /\ (waitEnq <= BatchIn => m = waitEnq)
  BY <1>3, ParametersAre DEF SmallerOf
<1> HIDE DEF m
<1>5. chunk \in Seq(Nat) /\ Len(chunk) = m /\ \A i \in 1 .. m : chunk[i] = batch[i]
  BY <1>3, <1>4, PrefixIs
<1> HIDE DEF chunk
<1>6. Done = received - Len(batch) /\ Done \in Nat
  BY <1>1, <1>3 DEF Done
<1>7. \A i \in 1 .. Len(chunk) : chunk[i] = Done + i
  <2>1. ASSUME NEW i \in 1 .. m PROVE chunk[i] = Done + i
    <3>1. i \in 1 .. Len(batch)
      BY <1>3, <1>4
    <3>2. chunk[i] = batch[i] /\ batch[i] = received - Len(batch) + i
      BY <1>3, <1>5, <3>1
    <3>3. QED
      BY <1>6, <3>2
  <2>2. QED
    BY <1>5, <2>1
<1>8. waitEnq' = waitEnq - m /\ waitEnq' \in Nat
  BY <1>1, <1>3, <1>4, <1>5
<1>9. freed' \in Seq(Nat)
  BY <1>1, <1>3, <1>5
<1>10. LoopTypes' /\ BurstTypes'
  BY <1>1, <1>8, <1>9 DEF HandedInv, LoopTypes, BurstTypes
<1>11. BurstInv'
  <2>1. waitEnq' <= Len(batch')
    BY <1>1, <1>3, <1>4, <1>8
  <2>2. QED
    BY <1>1, <1>2, <2>1 DEF HandedInv, BurstInv
<1>12. SentInv'
  BY <1>1, <1>2 DEF SentInv
<1>13. FreedInv'
  <2>1. variant = "baseline" => pc' = "poll"
    BY <1>1
  <2>2. pc' = "poll" => Done' = received
    BY <1>1, <1>3 DEF Done
  <2>3. ASSUME ~outgrown
        PROVE  /\ Len(batch) <= BatchIn /\ pc' = "poll"
               /\ freed' = UpTo(received)
    <3>1. Len(batch) <= BatchIn /\ waitEnq = Len(batch) /\ freed = UpTo(Done)
      BY <1>1, <1>2, <2>3 DEF HandedInv, FreedInv
    <3>2. m = Len(batch) /\ waitEnq' = 0
      BY <1>3, <1>4, <1>8, <3>1
    <3>3. pc' = "poll"
      BY <1>1, <3>2
    <3>4. Done + Len(chunk) = received
      BY <1>3, <1>5, <1>6, <3>2
    <3>5. UpTo(Done) \o chunk = UpTo(Done + Len(chunk))
      BY <1>5, <1>6, <1>7, UpToGrows
    <3>6. QED
      BY <1>1, <3>1, <3>3, <3>4, <3>5
  <2>4. ASSUME variant = "baseline"
        PROVE  IsInjective(freed') /\ \A i \in 1 .. Len(freed') : freed'[i] <= received
    <3>1. IsInjective(freed) /\ \A i \in 1 .. Len(freed) : freed[i] <= Done
      BY <2>4 DEF HandedInv, FreedInv
    <3>2. IsInjective(freed') /\ \A i \in 1 .. Len(freed') : freed'[i] <= Done + Len(chunk)
      BY <1>1, <1>3, <1>5, <1>6, <1>7, <3>1, InjectiveGrows
    <3>3. Done + Len(chunk) <= received /\ Done + Len(chunk) \in Nat
      BY <1>3, <1>4, <1>5, <1>6
    <3>4. \A i \in 1 .. Len(freed') : freed'[i] \in Nat
      BY <1>9
    <3>5. QED
      BY <1>3, <3>2, <3>3, <3>4
  <2>5. QED
    BY <1>1, <2>1, <2>2, <2>3, <2>4 DEF FreedInv
<1>14. QED
  BY <1>10, <1>11, <1>12, <1>13 DEF HandedInv

\* Every step keeps what is handed over in order.
LEMMA HandedStep == HandedInv /\ [Next]_vars => HandedInv'
<1> SUFFICES ASSUME HandedInv, [Next]_vars PROVE HandedInv'
  OBVIOUS
<1>1. CASE StartMeili \/ StartRemote \/ StartBaseline
  BY <1>1, ElsewhereHanded
     DEF HandedInv, LoopTypes, StartMeili, StartRemote, StartBaseline, LookUpPorts, Outside
<1>2. CASE Quit \/ Leave
  BY <1>2, ElsewhereHanded DEF HandedInv, LoopTypes, Quit, Leave, Outside
<1>3. CASE Receive
  <2>1. received' \in Nat
    <3>1. PICK set \in SUBSET {m \in Mbufs : mbuf[m].place = "pool"} :
            /\ received' = received + Cardinality(set)
            /\ Cardinality(set) \in 1 .. SmallerOf(EthBatch, MaxPkts - received)
      BY <1>3 DEF Receive
    <3>2. received \in Nat
      BY DEF HandedInv, LoopTypes
    <3>3. QED
      BY <3>1, <3>2
  <2>2. UNCHANGED <<variant, pc, quit, burstVars>> /\ variant = "meili"
    BY <1>3 DEF Receive
  <2>3. QED
    BY <2>1, <2>2, ElsewhereHanded DEF HandedInv, LoopTypes
<1>4. CASE Collect
  BY <1>4, ElsewhereHanded DEF HandedInv, LoopTypes, Collect
<1>5. CASE \E w \in Workers : PassOn(w) \/ CountBytes(w) \/ CountPackets(w)
  BY <1>5, ElsewhereHanded DEF HandedInv, LoopTypes, PassOn, CountBytes, CountPackets
<1>6. CASE PrintSplit \/ PrintStep \/ EndPrint
  BY <1>6, ElsewhereHanded DEF HandedInv, LoopTypes, PrintSplit, PrintStep, EndPrint, Wait, Outside
<1>7. CASE UNCHANGED vars
  BY <1>7, ElsewhereHanded DEF HandedInv, LoopTypes, vars
<1>8. QED
  BY <1>1, <1>2, <1>3, <1>4, <1>5, <1>6, <1>7, PollHanded, SendHanded, ReleaseHanded, ExecHanded
     DEF Next

\* It holds at first.
LEMMA HandedFirst == Init => HandedInv
<1> SUFFICES ASSUME Init PROVE HandedInv
  OBVIOUS
<1>1. LoopTypes /\ BurstTypes
  <2>1. <<>> \in Seq(Nat)
    OBVIOUS
  <2>2. LoopTypes
    BY DEF Init, LoopTypes
  <2>3. BurstTypes
    BY <2>1 DEF Init, BurstTypes
  <2>4. QED
    BY <2>2, <2>3
<1>2. BurstInv
  BY DEF Init, BurstInv
<1>3. UpTo(0) = <<>>
  <2>1. UpTo(0) \in Seq(Nat) /\ Len(UpTo(0)) = 0
    BY UpToIs
  <2>2. QED
    BY <2>1
<1>4. SentInv
  BY <1>3 DEF Init, SentInv
<1>5. FreedInv
  BY <1>3, ParametersAre DEF Init, FreedInv, Done, IsInjective
<1>6. QED
  BY <1>1, <1>2, <1>4, <1>5 DEF HandedInv

\* For every size of bursts and batches: what main has received it has handed over once
\* and in order when it polls again, except where a loop starts over.
THEOREM HandsOverOnce == Spec => []HandedOverOnce
<1>1. HandedInv => HandedOverOnce
  <2> SUFFICES ASSUME HandedInv, pc = "poll" PROVE HandedOverOnce
    BY DEF HandedOverOnce
  <2>1. received \in Nat /\ Len(batch) \in Nat
    BY DEF HandedInv, LoopTypes, BurstTypes
  <2>2. Done = received
    BY <2>1 DEF Done
  <2>3. variant \in {"transmit", "remote"} => received - Len(batch) + nbOut = received
    BY <2>1 DEF HandedInv, SentInv
  <2>4. variant = "remote" \/ (variant = "transmit" /\ ~short) => sent = UpTo(received)
    BY <2>3 DEF HandedInv, SentInv
  <2>5. variant \in {"baseline", "latency"} /\ ~outgrown => freed = UpTo(received)
    BY <2>2 DEF HandedInv, FreedInv
  <2>6. variant = "baseline" => IsInjective(freed)
    BY DEF HandedInv, FreedInv
  <2>7. QED
    BY <2>4, <2>5, <2>6 DEF HandedOverOnce, UpTo
<1>2. QED
  BY <1>1, HandedFirst, HandedStep, PTL DEF Spec

-----------------------------------------------------------------------------
(* Folds over sets.  What they compute is proved by induction on the set,  *)
(* as the absence of a least counterexample.                               *)

\* A set of naturals with an element has a least one.
LEMMA LeastNatural ==
  ASSUME NEW Z \in SUBSET Nat, Z # {}
  PROVE  \E n \in Z : \A m \in Z : n <= m
<1> DEFINE R == OpToRel(<, Nat)
<1>1. \A n, m \in Nat : m < n => <<m, n>> \in R
  BY DEF OpToRel
<1>2. IsWellFoundedOn(R, Nat)
  BY NatLessThanWellFounded
<1> HIDE DEF R
<1>3. PICK n \in Z : \A m \in Z : ~(<<m, n>> \in R)
  BY <1>2, WFMin
<1>4. ASSUME NEW m \in Z PROVE n <= m
  <2>1. ~(m < n)
    BY <1>1, <1>3
  <2>2. QED
    BY <2>1
<1>5. QED
  BY <1>4

\* The element that a sum over U takes first.
Chosen(U) == CHOOSE x \in U : TRUE

\* Taking the chosen element from a set leaves a smaller one.
LEMMA ChosenIs ==
  ASSUME NEW D, IsFiniteSet(D), NEW U \in SUBSET D, U # {}
  PROVE  /\ Chosen(U) \in U /\ Chosen(U) \in D /\ U \ {Chosen(U)} \in SUBSET D
         /\ Cardinality(U) \in Nat /\ Cardinality(U \ {Chosen(U)}) \in Nat
         /\ Cardinality(U \ {Chosen(U)}) = Cardinality(U) - 1
<1>1. Chosen(U) \in U
  BY DEF Chosen
<1>2. IsFiniteSet(U)
  BY FS_Subset
<1> DEFINE x == Chosen(U)
<1>3. x \in U
  BY <1>1
<1> HIDE DEF x
<1>4. IsFiniteSet(U \ {x}) /\ Cardinality(U \ {x}) = Cardinality(U) - 1
  BY <1>2, <1>3, FS_RemoveElement
<1>5. Cardinality(U) \in Nat /\ Cardinality(U \ {x}) \in Nat
  BY <1>2, <1>4, FS_CardinalityType
<1>6. QED
  BY <1>3, <1>4, <1>5 DEF x

\* What holds of the empty set, and of every set from which taking the chosen element
\* leaves one of which it holds, holds of all subsets of a finite set.
LEMMA SubsetInduction ==
  ASSUME NEW D, IsFiniteSet(D), NEW P, {} \in P,
         \A U \in SUBSET D : U # {} /\ U \ {Chosen(U)} \in P => U \in P
  PROVE  \A U \in SUBSET D : U \in P
<1> DEFINE Z == {n \in Nat : \E U \in SUBSET D : Cardinality(U) = n /\ U \notin P}
<1>1. ASSUME Z # {} PROVE FALSE
  <2>1. PICK n \in Z : \A m \in Z : n <= m
    BY <1>1, LeastNatural
  <2>2. PICK U \in SUBSET D : Cardinality(U) = n /\ U \notin P
    BY <2>1
  <2>3. U # {}
    BY <2>2
  <2> DEFINE V == U \ {Chosen(U)}
  <2>4. V \in SUBSET D /\ Cardinality(V) \in Nat /\ Cardinality(V) = n - 1 /\ n \in Nat
    BY <2>2, <2>3, ChosenIs
  <2>5. V \in P
    <3>1. V \in P \/ Cardinality(V) \in Z
      BY <2>4
    <3>2. Cardinality(V) \in Z => n <= Cardinality(V)
      BY <2>1
    <3> HIDE DEF V, Z
    <3>3. QED
      BY ONLY <3>1, <3>2, <2>4
  <2>6. QED
    BY <2>2, <2>3, <2>5
<1>2. ASSUME NEW U \in SUBSET D PROVE U \in P
  <2>1. Cardinality(U) \in Nat
    BY FS_Subset, FS_CardinalityType
  <2>2. QED
    BY <1>1, <2>1
<1>3. QED
  BY <1>2

\* What folding F from b gives for U, when h has it for smaller sets.
FoldStep(h, b, F, U) == IF U = {} THEN b ELSE F[<<Chosen(U), h[U \ {Chosen(U)}]>>]

\* h has the folds of all subsets of D.
Folds(h, b, F, D) == h = [U \in SUBSET D |-> FoldStep(h, b, F, U)]

\* A step of a fold stays in the range.
LEMMA FoldStepIs ==
  ASSUME NEW D, IsFiniteSet(D), NEW R, NEW b \in R, NEW F \in [D \X R -> R],
         NEW U \in SUBSET D, NEW h, U # {} => h[U \ {Chosen(U)}] \in R
  PROVE  FoldStep(h, b, F, U) \in R
<1>1. CASE U = {}
  BY <1>1 DEF FoldStep
<1>2. CASE U # {}
  <2>1. Chosen(U) \in D
    BY <1>2, ChosenIs
  <2>2. <<Chosen(U), h[U \ {Chosen(U)}]>> \in D \X R
    BY <1>2, <2>1
  <2>3. QED
    BY <1>2, <2>2 DEF FoldStep
<1>3. QED
  BY <1>1, <1>2

\* Folds exist: those of sets of at most n elements give those of larger ones.
LEMMA FoldsExist ==
  ASSUME NEW D, IsFiniteSet(D), NEW R, NEW b \in R, NEW F \in [D \X R -> R]
  PROVE  \E h \in [SUBSET D -> R] : Folds(h, b, F, D)
<1> DEFINE Upto(h, n) == \A U \in SUBSET D : Cardinality(U) <= n => h[U] = FoldStep(h, b, F, U)
           Z == {n \in Nat : ~\E h \in [SUBSET D -> R] : Upto(h, n)}
<1>1. ASSUME Z # {} PROVE FALSE
  <2>1. PICK n \in Z : \A m \in Z : n <= m
    BY <1>1, LeastNatural
  <2>2. n # 0
    <3> DEFINE h == [U \in SUBSET D |-> b]
    <3>1. h \in [SUBSET D -> R]
      OBVIOUS
    <3>2. ASSUME NEW U \in SUBSET D, Cardinality(U) <= 0 PROVE h[U] = FoldStep(h, b, F, U)
      <4>1. ASSUME U # {} PROVE FALSE
        <5>1. /\ Cardinality(U) \in Nat /\ Cardinality(U \ {Chosen(U)}) \in Nat
              /\ Cardinality(U \ {Chosen(U)}) = Cardinality(U) - 1
          BY <4>1, ChosenIs
        <5>2. QED
          BY ONLY <3>2, <5>1
      <4>2. QED
        BY <4>1 DEF FoldStep
    <3> HIDE DEF h
    <3>3. QED
      BY <3>1, <3>2
  <2>3. n - 1 \in Nat /\ n - 1 \notin Z
    <3>1. n \in Nat /\ (n - 1 \in Z => n <= n - 1)
      BY <2>1
    <3>2. n - 1 \in Nat /\ ~(n <= n - 1)
      BY ONLY <2>2, <3>1
    <3>3. QED
      BY <3>1, <3>2
  <2>4. PICK h \in [SUBSET D -> R] : Upto(h, n - 1)
    BY <2>3
  <2> DEFINE g == [U \in SUBSET D |-> FoldStep(h, b, F, U)]
  <2>5. g \in [SUBSET D -> R]
    <3>1. ASSUME NEW U \in SUBSET D PROVE FoldStep(h, b, F, U) \in R
      <4>1. U # {} => h[U \ {Chosen(U)}] \in R
        BY ChosenIs
      <4>2. QED
        BY <4>1, FoldStepIs
    <3>2. QED
      BY <3>1
  <2>6. ASSUME NEW U \in SUBSET D, Cardinality(U) <= n PROVE g[U] = FoldStep(g, b, F, U)
    <3>1. g[U] = FoldStep(h, b, F, U)
      OBVIOUS
    <3>2. CASE U = {}
      BY <3>1, <3>2 DEF FoldStep
    <3>3. CASE U # {}
      <4> DEFINE V == U \ {Chosen(U)}
      <4>1. V \in SUBSET D /\ Cardinality(V) <= n - 1
        BY <2>6, <3>3, ChosenIs
      <4>2. h[V] = FoldStep(h, b, F, V)
        BY <2>4, <4>1
      <4>3. g[V] = FoldStep(h, b, F, V)
        BY <4>1
      <4>4. /\ FoldStep(g, b, F, U) = F[<<Chosen(U), g[V]>>]
            /\ FoldStep(h, b, F, U) = F[<<Chosen(U), h[V]>>]
        BY <3>3, Zenon DEF FoldStep
      <4> HIDE DEF g, V
      <4>5. QED
        BY <3>1, <4>2, <4>3, <4>4
    <3>4. QED
      BY <3>2, <3>3
  <2> HIDE DEF g
  <2>7. Upto(g, n)
    BY <2>6
  <2>8. QED
    BY <2>1, <2>5, <2>7
<1>2. Cardinality(D) \in Nat
  BY FS_CardinalityType
<1>3. PICK h \in [SUBSET D -> R] : Upto(h, Cardinality(D))
  BY <1>1, <1>2
<1>4. \A U \in SUBSET D : h[U] = FoldStep(h, b, F, U)
  BY <1>3, FS_Subset
<1>5. h = [U \in SUBSET D |-> h[U]]
  OBVIOUS
<1>6. Folds(h, b, F, D)
  BY <1>4, <1>5, Zenon DEF Folds
<1>7. QED
  BY <1>6

-----------------------------------------------------------------------------
(* Bytes.                                                                  *)

\* The bytes of U, when h has those of smaller sets.
BytesStep(h, lengths, U) == IF U = {} THEN 0 ELSE lengths[Chosen(U)].len + h[U \ {Chosen(U)}]

\* h has the bytes of the subsets of set.
BytesTo(h, lengths, set) ==
  /\ h \in [SUBSET set -> Nat] /\ Bytes(set, lengths) = h[set]
  /\ \A U \in SUBSET set : h[U] = BytesStep(h, lengths, U)

\* Bytes is the sum of the lengths.
LEMMA BytesIs ==
  ASSUME NEW set, IsFiniteSet(set), NEW lengths, \A m \in set : lengths[m].len \in Nat
  PROVE  \E h : BytesTo(h, lengths, set)
<1> DEFINE F == [p \in set \X Nat |-> lengths[p[1]].len + p[2]]
           h == CHOOSE iter : iter = [U \in SUBSET set |-> BytesStep(iter, lengths, U)]
<1>1. F \in [set \X Nat -> Nat]
  OBVIOUS
<1>2. PICK g \in [SUBSET set -> Nat] : Folds(g, 0, F, set)
  BY <1>1, FoldsExist
<1>3. g = [U \in SUBSET set |-> FoldStep(g, 0, F, U)]
  BY <1>2, Zenon DEF Folds
<1>4. ASSUME NEW U \in SUBSET set, NEW k \in [SUBSET set -> Nat]
      PROVE  FoldStep(k, 0, F, U) = BytesStep(k, lengths, U)
  <2>1. CASE U = {}
    BY <2>1 DEF FoldStep, BytesStep
  <2>2. CASE U # {}
    <3>1. Chosen(U) \in set /\ k[U \ {Chosen(U)}] \in Nat
      <4>1. Chosen(U) \in set /\ U \ {Chosen(U)} \in SUBSET set
        BY <2>2, ChosenIs
      <4>2. QED
        BY <4>1
    <3>2. F[<<Chosen(U), k[U \ {Chosen(U)}]>>] = lengths[Chosen(U)].len + k[U \ {Chosen(U)}]
      BY <3>1
    <3> HIDE DEF F
    <3>3. QED
      BY <2>2, <3>2, Zenon DEF FoldStep, BytesStep
  <2>3. QED
    BY <2>1, <2>2
<1> HIDE DEF F
<1>5. g = [U \in SUBSET set |-> BytesStep(g, lengths, U)]
  BY <1>2, <1>3, <1>4
<1>6. h = [U \in SUBSET set |-> BytesStep(h, lengths, U)]
  BY <1>5, Zenon
<1>7. Bytes(set, lengths) = h[set]
  BY Zenon DEF Bytes, MapThenSumSet, MapThenFoldSet, BytesStep, Chosen
<1> HIDE DEF h
<1>8. \A U \in SUBSET set : h[U] = BytesStep(h, lengths, U)
  BY <1>6
<1>9. h = g
  <2> DEFINE P == {U \in SUBSET set : h[U] = g[U]}
  <2>1. {} \in P
    <3>1. {} \in SUBSET set /\ BytesStep(h, lengths, {}) = 0 /\ BytesStep(g, lengths, {}) = 0
      BY DEF BytesStep
    <3>2. g[{}] = BytesStep(g, lengths, {})
      BY <1>5, <3>1
    <3>3. h[{}] = g[{}]
      BY <1>8, <3>1, <3>2
    <3>4. QED
      BY <3>1, <3>3
  <2>2. ASSUME NEW U \in SUBSET set, U # {}, U \ {Chosen(U)} \in P PROVE U \in P
    <3>1. BytesStep(h, lengths, U) = BytesStep(g, lengths, U)
      BY <2>2 DEF BytesStep
    <3>2. g[U] = BytesStep(g, lengths, U) /\ h[U] = BytesStep(h, lengths, U)
      BY <1>5, <1>8
    <3>3. QED
      BY <3>1, <3>2
  <2> HIDE DEF P
  <2>3. \A U \in SUBSET set : U \in P
    BY <2>1, <2>2, SubsetInduction
  <2>4. \A U \in SUBSET set : h[U] = g[U]
    BY <2>3 DEF P
  <2>5. QED
    BY <1>2, <1>6, <2>4
<1>10. QED
  BY <1>2, <1>7, <1>8, <1>9 DEF BytesTo

\* Bytes are a number; of no mbuf, zero; and they depend on the lengths only.
LEMMA BytesSame ==
  ASSUME NEW set, IsFiniteSet(set), NEW k, NEW l, \A m \in set : k[m].len \in Nat,
         \A m \in set : l[m].len = k[m].len
  PROVE  /\ Bytes(set, k) \in Nat /\ Bytes(set, l) = Bytes(set, k)
         /\ set = {} => Bytes(set, k) = 0
<1>1. PICK p : BytesTo(p, k, set)
  BY BytesIs
<1>2. PICK q : BytesTo(q, l, set)
  BY BytesIs
<1>3. \A U \in SUBSET set : p[U] = BytesStep(p, k, U)
  BY <1>1 DEF BytesTo
<1>4. \A U \in SUBSET set : q[U] = BytesStep(q, l, U)
  BY <1>2 DEF BytesTo
<1> DEFINE P == {U \in SUBSET set : q[U] = p[U]}
<1>5. p[{}] = 0
  <2>1. {} \in SUBSET set /\ BytesStep(p, k, {}) = 0
    BY DEF BytesStep
  <2>2. QED
    BY <1>3, <2>1
<1>6. {} \in P
  <2>1. {} \in SUBSET set /\ BytesStep(q, l, {}) = 0
    BY DEF BytesStep
  <2>2. q[{}] = 0
    BY <1>4, <2>1
  <2>3. QED
    BY <1>5, <2>1, <2>2
<1>7. ASSUME NEW U \in SUBSET set, U # {}, U \ {Chosen(U)} \in P PROVE U \in P
  <2>1. Chosen(U) \in set
    BY <1>7, ChosenIs
  <2>2. l[Chosen(U)].len = k[Chosen(U)].len
    BY <2>1
  <2>3. q[U \ {Chosen(U)}] = p[U \ {Chosen(U)}]
    BY <1>7
  <2>4. BytesStep(q, l, U) = BytesStep(p, k, U)
    BY <1>7, <2>2, <2>3 DEF BytesStep
  <2>5. QED
    BY <1>3, <1>4, <2>4
<1> HIDE DEF P
<1>8. set \in P
  BY <1>6, <1>7, SubsetInduction
<1>9. q[set] = p[set]
  BY <1>8 DEF P
<1>10. p[set] \in Nat /\ Bytes(set, k) = p[set] /\ Bytes(set, l) = q[set]
  BY <1>1, <1>2 DEF BytesTo
<1>11. QED
  BY <1>5, <1>9, <1>10

-----------------------------------------------------------------------------
(* The splits.                                                             *)

\* Main has an entry of its own, and the workers have the others.
LEMMA QueuesAre == 0 \in Queues /\ Workers \subseteq Queues /\ 0 \notin Workers
BY ParametersAre DEF Queues, Workers

\* Counters that grow.
LEMMA PlusIs ==
  ASSUME NEW a \in Count, NEW b \in Count
  PROVE  /\ Plus(a, b) \in Count /\ AtMost(a, Plus(a, b))
         /\ Plus(a, b).cnt = a.cnt + b.cnt /\ Plus(a, b).bytes = a.bytes + b.bytes
BY DEF Count, Plus, AtMost

\* The order of counters.
LEMMA AtMostIs ==
  ASSUME NEW a \in Count, NEW b \in Count, NEW c \in Count
  PROVE  AtMost(a, a) /\ (AtMost(a, b) /\ AtMost(b, c) => AtMost(a, c))
BY DEF Count, AtMost

\* What a rate adds to the rates shown so far.
LEMMA RateIs ==
  ASSUME NEW a \in Count, NEW b \in Count, NEW c \in Count, AtMost(a, b), AtMost(b, c)
  PROVE  /\ Plus(a, Minus(c, b)) \in Count /\ AtMost(Plus(a, Minus(c, b)), c)
         /\ a = b => Plus(a, Minus(c, b)) = c
BY DEF Count, AtMost, Plus, Minus

\* What a print has yet to do.
LEMMA TodoIs ==
  ASSUME StatsTypes, PrintInv, printing.todo # <<>>
  PROVE  /\ Head(printing.todo) = Cores - Len(printing.todo) /\ Head(printing.todo) \in Queues
         /\ Len(printing.todo) \in Nat \ {0} /\ Tail(printing.todo) \in Seq(Queues)
         /\ Len(Tail(printing.todo)) = Len(printing.todo) - 1
         /\ \A j \in 1 .. Len(printing.todo) - 1 :
              Tail(printing.todo)[j] = Cores - (Len(printing.todo) - 1) + j - 1
<1> DEFINE t == printing.todo
<1>1. t \in Seq(Queues) /\ t # <<>> /\ Cores \in Nat
  BY ParametersAre DEF StatsTypes
<1>2. \A j \in 1 .. Len(t) : t[j] = Cores - Len(t) + j - 1
  BY DEF PrintInv
<1> HIDE DEF t
<1>3. Len(t) \in Nat \ {0} /\ Head(t) = t[1] /\ Head(t) \in Queues
  BY <1>1
<1>4. Head(t) = Cores - Len(t)
  BY <1>1, <1>2, <1>3
<1>5. /\ Tail(t) \in Seq(Queues) /\ Len(Tail(t)) = Len(t) - 1
      /\ \A j \in 1 .. Len(Tail(t)) : Tail(t)[j] = t[j + 1]
  BY <1>1, HeadTailProperties
<1>6. ASSUME NEW j \in 1 .. Len(t) - 1 PROVE Tail(t)[j] = Cores - (Len(t) - 1) + j - 1
  <2>1. j + 1 \in 1 .. Len(t)
    BY <1>3
  <2>2. Tail(t)[j] = Cores - Len(t) + (j + 1) - 1
    BY <1>2, <1>5, <2>1
  <2>3. QED
    BY <1>1, <1>3, <2>2
<1>7. QED
  BY <1>3, <1>4, <1>5, <1>6 DEF t

\* The counters and the print.
SplitAll == StatsTypes /\ PrintInv /\ SplitInv

\* Where there is nothing to print, nothing is between two reads.
LEMMA NothingStoring ==
  /\ Nothing.todo = <<>> /\ Nothing.step = "read"
  /\ printing = Nothing => \A q : ~Storing(q)
BY DEF Nothing, Storing

\* Counting while main prints: the counters grow, and main's own do not.
LEMMA CountingSplit ==
  ASSUME SplitAll, UNCHANGED printVars, tx' \in [Queues -> Count],
         \A q \in Queues : AtMost(tx[q], tx'[q]),
         tx'[0] = tx[0] \/ printing = Nothing,
         printing # Nothing => pc' \in {"poll", "done"}
  PROVE  SplitAll'
<1> USE DEF printVars
<1>1. /\ tx \in [Queues -> Count] /\ split \in [Queues -> Count] /\ shown \in [Queues -> Count]
      /\ printing.seen \in Count
  BY DEF SplitAll, StatsTypes
<1>2. StatsTypes'
  BY DEF SplitAll, StatsTypes
<1>3. PrintInv'
  BY DEF SplitAll, PrintInv
<1>4. \A q : Storing(q)' = Storing(q)
  BY DEF Storing
<1>5. ASSUME NEW q \in Queues
      PROVE  /\ AtMost(split'[q], tx'[q]) /\ AtMost(shown'[q], tx'[q])
             /\ IF Storing(q)' THEN AtMost(shown'[q], printing'.seen) /\ AtMost(printing'.seen, tx'[q])
                ELSE AtMost(shown'[q], split'[q])
  <2>1. /\ AtMost(split[q], tx[q]) /\ AtMost(shown[q], tx[q])
        /\ IF Storing(q) THEN AtMost(shown[q], printing.seen) /\ AtMost(printing.seen, tx[q])
           ELSE AtMost(shown[q], split[q])
    BY DEF SplitAll, SplitInv
  <2>2. tx[q] \in Count /\ tx'[q] \in Count /\ split[q] \in Count /\ shown[q] \in Count
    BY <1>1
  <2>3. AtMost(tx[q], tx'[q])
    OBVIOUS
  <2>4. AtMost(split[q], tx'[q]) /\ AtMost(shown[q], tx'[q])
    BY <2>1, <2>2, <2>3, AtMostIs
  <2>5. AtMost(printing.seen, tx[q]) => AtMost(printing.seen, tx'[q])
    BY <1>1, <2>2, <2>3, AtMostIs
  <2>6. QED
    BY <1>4, <2>1, <2>4, <2>5
<1>6. IF Storing(0)' THEN shown'[0] = tx'[0] /\ printing'.seen = tx'[0] ELSE shown'[0] = split'[0]
  <2>1. IF Storing(0) THEN shown[0] = tx[0] /\ printing.seen = tx[0] ELSE shown[0] = split[0]
    BY DEF SplitAll, SplitInv
  <2>2. Storing(0) => tx'[0] = tx[0]
    BY NothingStoring
  <2>3. QED
    BY <1>4, <2>1, <2>2
<1>7. SplitInv'
  BY <1>5, <1>6 DEF SplitInv
<1>8. QED
  BY <1>2, <1>3, <1>7 DEF SplitAll

\* A print begins.
LEMMA BeginSplit ==
  ASSUME SplitAll, NEW last \in BOOLEAN, BeginPrint(last), pc' \in {"poll", "done"}
  PROVE  SplitAll'
<1>1. /\ printing = Nothing /\ printing' = [Nothing EXCEPT !.todo = PrintOrder, !.last = last]
      /\ UNCHANGED <<tx, split, shown, total>>
  BY DEF BeginPrint
<1>2. /\ printing'.todo = PrintOrder /\ printing'.step = "read"
      /\ printing' = [todo |-> PrintOrder, seen |-> Zero, step |-> "read", last |-> last]
  BY <1>1 DEF Nothing
<1>3. PrintOrder \in Seq(Queues) /\ Len(PrintOrder) = Cores /\ Cores \in Nat \ {0}
      /\ \A j \in 1 .. Cores : PrintOrder[j] = Cores - Cores + j - 1
  BY ParametersAre DEF PrintOrder, Queues
<1>4. Zero \in Count
  BY DEF Zero, Count
<1>5. StatsTypes'
  BY <1>1, <1>2, <1>3, <1>4 DEF SplitAll, StatsTypes
<1>6. PrintInv'
  BY <1>2, <1>3 DEF PrintInv
<1>7. \A q : ~Storing(q)' /\ ~Storing(q)
  BY <1>1, <1>2, NothingStoring DEF Storing
<1>8. SplitInv'
  BY <1>1, <1>7 DEF SplitAll, SplitInv
<1>9. QED
  BY <1>5, <1>6, <1>8 DEF SplitAll

\* Main reads an entry and prints its rate.
LEMMA ReadSplit ==
  ASSUME SplitAll, PrintRead, pc' = pc
  PROVE  SplitAll'
<1> DEFINE q == Head(printing.todo)
<1>1. /\ printing.todo # <<>> /\ printing.step = "read"
      /\ shown' = [shown EXCEPT ![q] = Plus(@, Minus(tx[q], split[q]))]
      /\ total' = IF printing.last THEN [total EXCEPT ![q] = tx[q]] ELSE total
      /\ printing' = [printing EXCEPT !.seen = tx[q], !.step = "store"]
      /\ UNCHANGED <<tx, split>>
  BY DEF PrintRead
<1>2. /\ tx \in [Queues -> Count] /\ split \in [Queues -> Count] /\ shown \in [Queues -> Count]
      /\ total \in [Queues -> Count] /\ q \in Queues
      /\ printing \in [todo : Seq(Queues), seen : Count, step : {"read", "store"}, last : BOOLEAN]
  BY <1>1, TodoIs DEF SplitAll, StatsTypes
<1>3. /\ tx[q] \in Count /\ shown[q] \in Count /\ split[q] \in Count
  BY <1>2
<1>4. \A p : ~Storing(p)
  BY <1>1 DEF Storing
<1>5. \A p \in Queues : AtMost(split[p], tx[p]) /\ AtMost(shown[p], tx[p]) /\ AtMost(shown[p], split[p])
  BY <1>4 DEF SplitAll, SplitInv
<1>6. shown[0] = split[0]
  BY <1>4 DEF SplitAll, SplitInv
<1>7. /\ printing' \in [todo : Seq(Queues), seen : Count, step : {"read", "store"}, last : BOOLEAN]
      /\ printing'.todo = printing.todo /\ printing'.seen = tx[q] /\ printing'.step = "store"
  BY <1>1, <1>2, <1>3
<1> HIDE DEF q
<1>8. \A p : Storing(p)' = (p = q)
  BY <1>7 DEF Storing, q
<1>9. /\ shown'[q] \in Count /\ AtMost(shown'[q], tx[q]) /\ (q = 0 => shown'[q] = tx[q])
      /\ \A p \in Queues : p # q => shown'[p] = shown[p]
  <2>1. shown'[q] = Plus(shown[q], Minus(tx[q], split[q]))
    BY <1>1, <1>2
  <2>2. AtMost(shown[q], split[q]) /\ AtMost(split[q], tx[q])
    BY <1>2, <1>5
  <2>3. QED
    BY <1>1, <1>2, <1>3, <1>6, <2>1, <2>2, RateIs
<1>10. shown' \in [Queues -> Count]
  <2>1. Plus(shown[q], Minus(tx[q], split[q])) \in Count
    BY <1>1, <1>2, <1>9
  <2>2. QED
    BY <1>1, <1>2, <2>1
<1>11. total' \in [Queues -> Count]
  <2>1. [total EXCEPT ![q] = tx[q]] \in [Queues -> Count]
    BY <1>2, <1>3
  <2>2. QED
    BY <1>1, <1>2, <2>1
<1>12. StatsTypes'
  BY <1>1, <1>2, <1>7, <1>10, <1>11 DEF StatsTypes
<1>13. PrintInv'
  <2>1. printing # Nothing
    BY <1>1 DEF Nothing
  <2>2. QED
    BY <1>1, <1>7, <2>1 DEF SplitAll, PrintInv
<1>14. SplitInv'
  <2>1. ASSUME NEW p \in Queues
        PROVE  /\ AtMost(split'[p], tx'[p]) /\ AtMost(shown'[p], tx'[p])
               /\ IF Storing(p)' THEN AtMost(shown'[p], printing'.seen) /\ AtMost(printing'.seen, tx'[p])
                  ELSE AtMost(shown'[p], split'[p])
    <3>1. CASE p = q
      <4>1. AtMost(tx[q], tx[q])
        BY <1>3, AtMostIs
      <4>2. QED
        BY <1>1, <1>5, <1>7, <1>8, <1>9, <3>1, <4>1
    <3>2. CASE p # q
      BY <1>1, <1>5, <1>8, <1>9, <3>2
    <3>3. QED
      BY <3>1, <3>2
  <2>2. IF Storing(0)' THEN shown'[0] = tx'[0] /\ printing'.seen = tx'[0] ELSE shown'[0] = split'[0]
    BY <1>1, <1>6, <1>7, <1>8, <1>9, QueuesAre
  <2>3. QED
    BY <2>1, <2>2 DEF SplitInv
<1>15. QED
  BY <1>12, <1>13, <1>14 DEF SplitAll

\* Main remembers what it read, or what it reads now.
LEMMA StoreSplit ==
  ASSUME SplitAll, PrintStore, pc' = pc
  PROVE  SplitAll'
<1> DEFINE q == Head(printing.todo)
<1>1. printing.step = "store" /\ UNCHANGED <<tx, shown, total>>
  BY DEF PrintStore
<1>2. PICK cnt \in {printing.seen.cnt, tx[q].cnt}, bytes \in {printing.seen.bytes, tx[q].bytes} :
        split' = [split EXCEPT ![q] = [cnt |-> cnt, bytes |-> bytes]]
  BY DEF PrintStore
<1>3. printing' = IF Len(printing.todo) = 1 THEN Nothing
                  ELSE [printing EXCEPT !.todo = Tail(@), !.step = "read", !.seen = Zero]
  BY DEF PrintStore
<1>4. printing.todo # <<>> /\ printing # Nothing
  BY <1>1, NothingStoring DEF SplitAll, PrintInv
<1>5. /\ tx \in [Queues -> Count] /\ split \in [Queues -> Count] /\ shown \in [Queues -> Count]
      /\ total \in [Queues -> Count] /\ q \in Queues /\ printing.seen \in Count
      /\ printing \in [todo : Seq(Queues), seen : Count, step : {"read", "store"}, last : BOOLEAN]
  BY <1>4, TodoIs DEF SplitAll, StatsTypes
<1>6. tx[q] \in Count /\ shown[q] \in Count
  BY <1>5
<1>7. \A p : Storing(p) = (p = q)
  BY <1>1 DEF Storing
<1>8. AtMost(shown[q], printing.seen) /\ AtMost(printing.seen, tx[q]) /\ AtMost(shown[q], tx[q])
  BY <1>5, <1>7 DEF SplitAll, SplitInv
<1> DEFINE now == [cnt |-> cnt, bytes |-> bytes]
<1>9. now \in Count /\ AtMost(shown[q], now) /\ AtMost(now, tx[q])
      /\ (printing.seen = tx[q] => now = tx[q])
  <2> DEFINE a == printing.seen
             b == tx[q]
             c == shown[q]
  <2>1. cnt \in {a.cnt, b.cnt} /\ bytes \in {a.bytes, b.bytes}
    BY <1>2
  <2>2. a \in Count /\ b \in Count /\ c \in Count
    BY <1>5, <1>6
  <2>3. AtMost(c, a) /\ AtMost(a, b) /\ AtMost(c, b)
    BY <1>8
  <2> HIDE DEF a, b, c
  <2>4. cnt \in Nat /\ bytes \in Nat /\ c.cnt <= cnt /\ c.bytes <= bytes /\ cnt <= b.cnt /\ bytes <= b.bytes
    BY <2>1, <2>2, <2>3 DEF Count, AtMost
  <2>5. now \in Count /\ AtMost(c, now) /\ AtMost(now, b)
    BY <2>4 DEF Count, AtMost
  <2>6. a = b => now = b
    BY <2>1, <2>2 DEF Count
  <2>7. QED
    BY <2>5, <2>6 DEF a, b, c
<1>10. split' = [split EXCEPT ![q] = now]
  BY <1>2
<1> HIDE DEF now
<1>11. split' \in [Queues -> Count] /\ split'[q] = now
       /\ \A p \in Queues : p # q => split'[p] = split[p]
  BY <1>5, <1>9, <1>10
<1>12. /\ printing' \in [todo : Seq(Queues), seen : Count, step : {"read", "store"}, last : BOOLEAN]
       /\ printing'.step = "read" /\ PrintInv'
  <2>1. /\ Len(printing.todo) \in Nat \ {0} /\ Tail(printing.todo) \in Seq(Queues)
        /\ Len(Tail(printing.todo)) = Len(printing.todo) - 1
        /\ \A j \in 1 .. Len(printing.todo) - 1 :
             Tail(printing.todo)[j] = Cores - (Len(printing.todo) - 1) + j - 1
    BY <1>4, TodoIs DEF SplitAll
  <2>2. Zero \in Count
    BY DEF Zero, Count
  <2>3. CASE Len(printing.todo) = 1
    <3>1. printing' = Nothing
      BY <1>3, <2>3
    <3>2. Nothing.todo = <<>> /\ Nothing.step = "read" /\ Nothing.last = FALSE /\ Len(<<>>) = 0
      BY DEF Nothing
    <3>3. Nothing \in [todo : Seq(Queues), seen : Count, step : {"read", "store"}, last : BOOLEAN]
      BY <2>2 DEF Nothing
    <3>4. PrintInv'
      BY <3>1, <3>2, ParametersAre DEF PrintInv
    <3>5. QED
      BY <3>1, <3>2, <3>3, <3>4
  <2>4. CASE Len(printing.todo) # 1
    <3>1. printing' = [printing EXCEPT !.todo = Tail(@), !.step = "read", !.seen = Zero]
      BY <1>3, <2>4
    <3>2. printing'.todo = Tail(printing.todo) /\ printing'.step = "read"
          /\ printing' \in [todo : Seq(Queues), seen : Count, step : {"read", "store"}, last : BOOLEAN]
      BY <1>5, <2>1, <2>2, <3>1
    <3>3. Tail(printing.todo) # <<>>
      <4>1. Len(Tail(printing.todo)) # 0
        BY <2>1, <2>4
      <4>2. Len(<<>>) = 0
        OBVIOUS
      <4>3. QED
        BY <4>1, <4>2, Zenon
    <3>4. Len(printing.todo) <= Cores /\ (printing # Nothing => pc \in {"poll", "done"})
      BY DEF SplitAll, PrintInv
    <3>5. Len(printing'.todo) <= Cores
      BY <2>1, <3>2, <3>4, ParametersAre
    <3>6. \A j \in 1 .. Len(printing'.todo) : printing'.todo[j] = Cores - Len(printing'.todo) + j - 1
      BY <2>1, <3>2
    <3>7. PrintInv'
      BY <1>4, <3>2, <3>3, <3>4, <3>5, <3>6 DEF PrintInv
    <3>8. QED
      BY <3>2, <3>7
  <2>5. QED
    BY <2>3, <2>4
<1>13. StatsTypes'
  BY <1>1, <1>5, <1>11, <1>12 DEF StatsTypes
<1>14. \A p : ~Storing(p)'
  BY <1>12 DEF Storing
<1>15. SplitInv'
  <2>1. ASSUME NEW p \in Queues
        PROVE  AtMost(split'[p], tx'[p]) /\ AtMost(shown'[p], tx'[p]) /\ AtMost(shown'[p], split'[p])
    <3>1. CASE p = q
      BY <1>1, <1>8, <1>9, <1>11, <3>1
    <3>2. CASE p # q
      BY <1>1, <1>7, <1>11, <3>2 DEF SplitAll, SplitInv
    <3>3. QED
      BY <3>1, <3>2
  <2>2. shown'[0] = split'[0]
    <3>1. CASE q = 0
      BY <1>1, <1>7, <1>9, <1>11, <3>1 DEF SplitAll, SplitInv
    <3>2. CASE q # 0
      BY <1>1, <1>7, <1>11, <3>2, QueuesAre DEF SplitAll, SplitInv
    <3>3. QED
      BY <3>1, <3>2
  <2>3. QED
    BY <1>14, <2>1, <2>2 DEF SplitInv
<1>16. QED
  BY <1>12, <1>13, <1>15 DEF SplitAll

-----------------------------------------------------------------------------
(* Counting.                                                               *)

\* The mbufs and the counters have their types, and the counts are exact.
CountAll == MbufTypes /\ tx \in [Queues -> Count] /\ CountInv

\* The counters grow.
Grows == tx' \in [Queues -> Count] /\ \A q \in Queues : AtMost(tx[q], tx'[q])

\* Sets of mbufs.
LEMMA MbufsAre ==
  ASSUME MbufTypes, NEW set \in SUBSET Mbufs
  PROVE  /\ IsFiniteSet(set) /\ Cardinality(set) \in Nat /\ Bytes(set, mbuf) \in Nat
         /\ set = {} => Cardinality(set) = 0 /\ Bytes(set, mbuf) = 0
<1>1. IsFiniteSet(set)
  BY ParametersAre, FS_Subset
<1>2. Cardinality(set) \in Nat
  BY <1>1, FS_CardinalityType
<1>3. \A m \in set : mbuf[m].len \in Nat
  BY DEF MbufTypes, Mbuf
<1>4. Bytes(set, mbuf) \in Nat /\ (set = {} => Bytes(set, mbuf) = 0)
  BY <1>1, <1>3, BytesSame
<1>5. QED
  BY <1>1, <1>2, <1>4, FS_EmptySet

\* The bytes of mbufs that nobody refills stay.
LEMMA BytesStay ==
  ASSUME MbufTypes, NEW set \in SUBSET Mbufs, \A m \in set : mbuf'[m].len = mbuf[m].len
  PROVE  Bytes(set, mbuf') = Bytes(set, mbuf)
<1>1. \A m \in set : mbuf[m].len \in Nat
  BY DEF MbufTypes, Mbuf
<1>2. QED
  BY <1>1, MbufsAre, BytesSame

\* A worker that a step does not concern.
LEMMA WorkerKeeps ==
  ASSUME MbufTypes, NEW w \in Workers, WorkerCounts(w), stale \subseteq stale',
         counting'[w] = counting[w], passed'[w] = passed[w], tx'[w] = tx[w],
         \/ w \in stale' \/ counting[w].bytes
         \/ \A m \in counting[w].pkts : mbuf'[m].len = mbuf[m].len
  PROVE  WorkerCounts(w)'
<1>1. counting[w].pkts \in SUBSET Mbufs
  BY DEF MbufTypes
<1>2. w \notin stale' => Pending(w)' = Pending(w)
  BY <1>1, BytesStay DEF Pending
<1>3. QED
  BY <1>2 DEF WorkerCounts

\* A burst arrives and is dealt to a worker.
LEMMA ReceiveCounts ==
  ASSUME CountAll, Receive
  PROVE  CountAll'
<1>1. PICK w \in Workers, set \in SUBSET {m \in Mbufs : mbuf[m].place = "pool"},
           len \in 1 .. MaxLength :
        /\ Cardinality(set) \in 1 .. SmallerOf(EthBatch, MaxPkts - received)
        /\ received' = received + Cardinality(set)
        /\ mbuf' = [m \in Mbufs |->
                      IF m \in set THEN [place |-> "in", worker |-> w, len |-> len] ELSE mbuf[m]]
        /\ stale' = stale \cup
             {v \in Workers : ~counting[v].bytes /\ counting[v].pkts \cap set # {}}
  BY Zenon DEF Receive
<1>2. UNCHANGED <<counting, passed, tx>>
  BY DEF Receive, statVars
<1>3. MbufTypes /\ MbufTypes'
  <2>1. [place |-> "in", worker |-> w, len |-> len] \in Mbuf
    BY ParametersAre, QueuesAre DEF Mbuf
  <2>2. mbuf' \in [Mbufs -> Mbuf]
    BY <1>1, <2>1 DEF CountAll, MbufTypes
  <2>3. QED
    BY <1>2, <2>2 DEF CountAll, MbufTypes
<1>4. ASSUME NEW v \in Workers PROVE WorkerCounts(v)'
  <2>1. WorkerCounts(v) /\ counting[v].pkts \in SUBSET Mbufs
    BY <1>3 DEF CountAll, CountInv, MbufTypes
  <2>2. v \in stale' \/ counting[v].bytes \/ counting[v].pkts \cap set = {}
    BY <1>1
  <2>3. counting[v].pkts \cap set = {} => \A m \in counting[v].pkts : mbuf'[m].len = mbuf[m].len
    BY <1>1, <2>1
  <2>4. stale \subseteq stale'
    BY <1>1
  <2>5. QED
    BY <1>2, <1>3, <2>1, <2>2, <2>3, <2>4, WorkerKeeps
<1>5. QED
  BY <1>2, <1>3, <1>4 DEF CountAll, CountInv

\* A worker passes packets on.
LEMMA PassOnCounts ==
  ASSUME CountAll, NEW w \in Workers, PassOn(w)
  PROVE  CountAll'
<1>1. PICK set \in SUBSET InPlace("in", w) :
        /\ mbuf' = [m \in Mbufs |-> IF m \in set THEN [mbuf[m] EXCEPT !.place = "out"]
                                     ELSE mbuf[m]]
        /\ counting' = [counting EXCEPT ![w] = [pkts |-> set, bytes |-> FALSE]]
        /\ passed' = [passed EXCEPT ![w] =
                        Plus(@, [cnt |-> Cardinality(set), bytes |-> Bytes(set, mbuf)])]
  BY DEF PassOn
<1>2. counting[w] = Idle /\ UNCHANGED <<stale, tx>>
  BY DEF PassOn, statVars
<1>3. /\ mbuf \in [Mbufs -> Mbuf] /\ passed \in [Queues -> Count] /\ MbufTypes
      /\ counting \in [Workers -> [pkts : SUBSET Mbufs, bytes : BOOLEAN]] /\ w \in Queues /\ w # 0
  BY QueuesAre DEF CountAll, MbufTypes
<1>4. set \in SUBSET Mbufs
  BY DEF InPlace
<1>5. Cardinality(set) \in Nat /\ Bytes(set, mbuf) \in Nat
  BY <1>3, <1>4, MbufsAre
<1> DEFINE new == [cnt |-> Cardinality(set), bytes |-> Bytes(set, mbuf)]
<1>6. new \in Count /\ new.cnt = Cardinality(set) /\ new.bytes = Bytes(set, mbuf)
  BY <1>5 DEF Count
<1>7. passed' = [passed EXCEPT ![w] = Plus(passed[w], new)]
  BY <1>1
<1> HIDE DEF new
<1>8. /\ Plus(passed[w], new) \in Count
      /\ Plus(passed[w], new).cnt = passed[w].cnt + Cardinality(set)
      /\ Plus(passed[w], new).bytes = passed[w].bytes + Bytes(set, mbuf)
  BY <1>3, <1>6, PlusIs
<1>9. MbufTypes'
  <2>1. \A m \in Mbufs : [mbuf[m] EXCEPT !.place = "out"] \in Mbuf
    BY <1>3 DEF Mbuf
  <2>2. mbuf' \in [Mbufs -> Mbuf]
    BY <1>1, <1>3, <2>1
  <2>3. counting' \in [Workers -> [pkts : SUBSET Mbufs, bytes : BOOLEAN]]
    BY <1>1, <1>3, <1>4
  <2>4. passed' \in [Queues -> Count]
    BY <1>3, <1>7, <1>8
  <2>5. QED
    BY <2>2, <2>3, <2>4 DEF MbufTypes
<1>10. \A m \in Mbufs : mbuf'[m].len = mbuf[m].len
  BY <1>1, <1>3 DEF Mbuf
<1>11. ASSUME NEW v \in Workers PROVE WorkerCounts(v)'
  <2>1. WorkerCounts(v) /\ counting[v].pkts \in SUBSET Mbufs
    BY <1>3 DEF CountAll, CountInv
  <2>2. CASE v # w
    BY <1>1, <1>2, <1>3, <1>10, <2>1, <2>2, WorkerKeeps
  <2>3. CASE v = w
    <3>1. counting'[w].pkts = set /\ counting'[w].bytes = FALSE /\ passed'[w] = Plus(passed[w], new)
      BY <1>1, <1>3, <1>7
    <3>2. counting[w].pkts = {} /\ counting[w].bytes = FALSE
      BY <1>2 DEF Idle
    <3>3. Cardinality({}) = 0 /\ Bytes({}, mbuf) = 0
      BY <1>3, MbufsAre
    <3>4. Pending(w) = 0
      BY <3>2, <3>3 DEF Pending
    <3>5. Pending(w)' = Bytes(set, mbuf)
      BY <1>3, <1>4, <1>10, <3>1, BytesStay DEF Pending
    <3>6. tx[w].cnt \in Nat /\ tx[w].bytes \in Nat
      BY <1>3 DEF CountAll, Count
    <3>7. passed[w].cnt = tx[w].cnt /\ (w \notin stale => passed[w].bytes = tx[w].bytes)
      BY <2>1, <2>3, <3>2, <3>3, <3>4, <3>6 DEF WorkerCounts
    <3>8. QED
      BY <1>2, <1>8, <2>3, <3>1, <3>5, <3>7 DEF WorkerCounts
  <2>4. QED
    BY <2>2, <2>3
<1>12. passed'[0] = tx'[0]
  BY <1>2, <1>3, <1>7, QueuesAre DEF CountAll, CountInv
<1>13. QED
  BY <1>2, <1>9, <1>11, <1>12 DEF CountAll, CountInv

\* A worker counts bytes.
LEMMA CountBytesCounts ==
  ASSUME CountAll, NEW w \in Workers, CountBytes(w)
  PROVE  CountAll' /\ Grows /\ tx'[0] = tx[0]
<1> DEFINE n == Bytes(counting[w].pkts, mbuf)
<1>1. /\ ~counting[w].bytes
      /\ tx' = [tx EXCEPT ![w].bytes = @ + n]
      /\ counting' = [counting EXCEPT ![w].bytes = TRUE]
      /\ UNCHANGED <<mbuf, passed, stale>>
  BY DEF CountBytes
<1>2. /\ passed \in [Queues -> Count] /\ tx \in [Queues -> Count] /\ MbufTypes
      /\ counting \in [Workers -> [pkts : SUBSET Mbufs, bytes : BOOLEAN]] /\ w \in Queues /\ w # 0
  BY QueuesAre DEF CountAll, MbufTypes
<1>3. n \in Nat
  BY <1>2, MbufsAre
<1>4. WorkerCounts(w)
  BY DEF CountAll, CountInv
<1>5. Pending(w) = n
  BY <1>1 DEF Pending
<1> HIDE DEF n
<1>6. /\ tx'[w] = [cnt |-> tx[w].cnt, bytes |-> tx[w].bytes + n]
      /\ tx[w] \in Count
      /\ \A q \in Queues : q # w => tx'[q] = tx[q]
  BY <1>1, <1>2 DEF Count
<1>7. tx'[w] \in Count /\ AtMost(tx[w], tx'[w]) /\ tx'[w].cnt = tx[w].cnt
      /\ tx'[w].bytes = tx[w].bytes + n
  BY <1>3, <1>6 DEF Count, AtMost
<1>8. tx' \in [Queues -> Count]
  <2>1. tx' = [q \in Queues |-> tx'[q]]
    BY <1>1, <1>2
  <2>2. \A q \in Queues : tx'[q] \in Count
    BY <1>2, <1>6, <1>7
  <2>3. QED
    BY <2>1, <2>2
<1>9. Grows /\ tx'[0] = tx[0]
  <2>1. \A q \in Queues : AtMost(tx[q], tx'[q])
    <3>1. \A q \in Queues : tx[q] \in Count
      BY <1>2
    <3>2. QED
      BY <1>6, <1>7, <3>1, AtMostIs
  <2>2. QED
    BY <1>2, <1>6, <1>8, <2>1, QueuesAre DEF Grows
<1>10. /\ counting' \in [Workers -> [pkts : SUBSET Mbufs, bytes : BOOLEAN]]
       /\ counting'[w].pkts = counting[w].pkts /\ counting'[w].bytes = TRUE
       /\ \A v \in Workers : v # w => counting'[v] = counting[v]
  BY <1>1, <1>2
<1>11. MbufTypes'
  BY <1>1, <1>2, <1>10 DEF MbufTypes
<1>12. ASSUME NEW v \in Workers PROVE WorkerCounts(v)'
  <2>1. CASE v # w
    BY <1>1, <1>2, <1>6, <1>10, <2>1, WorkerKeeps, QueuesAre DEF CountAll, CountInv
  <2>2. CASE v = w
    <3>1. Pending(w)' = 0
      BY <1>10 DEF Pending
    <3>2. tx[w].bytes \in Nat /\ tx'[w].bytes \in Nat
      BY <1>6, <1>7 DEF Count
    <3>3. QED
      BY <1>1, <1>3, <1>4, <1>5, <1>7, <1>10, <2>2, <3>1, <3>2 DEF WorkerCounts
  <2>3. QED
    BY <2>1, <2>2
<1>13. QED
  BY <1>1, <1>8, <1>9, <1>11, <1>12 DEF CountAll, CountInv

\* A worker counts packets.
LEMMA CountPacketsCounts ==
  ASSUME CountAll, NEW w \in Workers, CountPackets(w)
  PROVE  CountAll' /\ Grows /\ tx'[0] = tx[0]
<1> DEFINE n == Cardinality(counting[w].pkts)
<1>1. /\ counting[w].bytes
      /\ tx' = [tx EXCEPT ![w].cnt = @ + n]
      /\ counting' = [counting EXCEPT ![w] = Idle]
      /\ UNCHANGED <<mbuf, passed, stale>>
  BY DEF CountPackets
<1>2. /\ passed \in [Queues -> Count] /\ tx \in [Queues -> Count] /\ MbufTypes
      /\ counting \in [Workers -> [pkts : SUBSET Mbufs, bytes : BOOLEAN]] /\ w \in Queues /\ w # 0
  BY QueuesAre DEF CountAll, MbufTypes
<1>3. n \in Nat
  BY <1>2, MbufsAre
<1>4. WorkerCounts(w) /\ passed[w].cnt = tx[w].cnt + n
  BY DEF CountAll, CountInv, WorkerCounts
<1>5. Pending(w) = 0
  BY <1>1 DEF Pending
<1> HIDE DEF n
<1>6. /\ tx'[w] = [cnt |-> tx[w].cnt + n, bytes |-> tx[w].bytes]
      /\ tx[w] \in Count
      /\ \A q \in Queues : q # w => tx'[q] = tx[q]
  BY <1>1, <1>2 DEF Count
<1>7. tx'[w] \in Count /\ AtMost(tx[w], tx'[w]) /\ tx'[w].cnt = tx[w].cnt + n
      /\ tx'[w].bytes = tx[w].bytes
  BY <1>3, <1>6 DEF Count, AtMost
<1>8. tx' \in [Queues -> Count]
  <2>1. tx' = [q \in Queues |-> tx'[q]]
    BY <1>1, <1>2
  <2>2. \A q \in Queues : tx'[q] \in Count
    BY <1>2, <1>6, <1>7
  <2>3. QED
    BY <2>1, <2>2
<1>9. Grows /\ tx'[0] = tx[0]
  <2>1. \A q \in Queues : AtMost(tx[q], tx'[q])
    <3>1. \A q \in Queues : tx[q] \in Count
      BY <1>2
    <3>2. QED
      BY <1>6, <1>7, <3>1, AtMostIs
  <2>2. QED
    BY <1>2, <1>6, <1>8, <2>1, QueuesAre DEF Grows
<1>10. /\ counting' \in [Workers -> [pkts : SUBSET Mbufs, bytes : BOOLEAN]]
       /\ counting'[w].pkts = {} /\ counting'[w].bytes = FALSE
       /\ \A v \in Workers : v # w => counting'[v] = counting[v]
  BY <1>1, <1>2 DEF Idle
<1>11. MbufTypes'
  BY <1>1, <1>2, <1>10 DEF MbufTypes
<1>12. ASSUME NEW v \in Workers PROVE WorkerCounts(v)'
  <2>1. CASE v # w
    BY <1>1, <1>2, <1>6, <1>10, <2>1, WorkerKeeps, QueuesAre DEF CountAll, CountInv
  <2>2. CASE v = w
    <3>1. Cardinality({}) = 0 /\ Bytes({}, mbuf) = 0
      BY <1>2, MbufsAre
    <3>2. Pending(w)' = 0 /\ Cardinality(counting'[w].pkts) = 0
      BY <1>1, <1>10, <3>1 DEF Pending
    <3>3. tx[w].bytes \in Nat /\ tx'[w].bytes \in Nat /\ tx'[w].cnt \in Nat
      BY <1>6, <1>7 DEF Count
    <3>4. QED
      BY <1>1, <1>3, <1>4, <1>5, <1>7, <2>2, <3>2, <3>3 DEF WorkerCounts
  <2>3. QED
    BY <2>1, <2>2
<1>13. QED
  BY <1>1, <1>8, <1>9, <1>11, <1>12 DEF CountAll, CountInv

\* Main counts what it passes on itself, at once.
LEMMA MainCounts ==
  ASSUME CountAll, NEW n \in Count, tx' = [tx EXCEPT ![0] = Plus(@, n)],
         passed' = [passed EXCEPT ![0] = Plus(@, n)], UNCHANGED <<counting, stale>>,
         mbuf' \in [Mbufs -> Mbuf], \A m \in Mbufs : mbuf'[m].len = mbuf[m].len
  PROVE  CountAll' /\ Grows
<1>1. /\ passed \in [Queues -> Count] /\ tx \in [Queues -> Count] /\ MbufTypes
      /\ counting \in [Workers -> [pkts : SUBSET Mbufs, bytes : BOOLEAN]]
      /\ passed[0] = tx[0]
  BY DEF CountAll, MbufTypes, CountInv
<1>2. Plus(tx[0], n) \in Count /\ AtMost(tx[0], Plus(tx[0], n))
  BY <1>1, QueuesAre, PlusIs
<1>3. /\ tx' \in [Queues -> Count] /\ passed' \in [Queues -> Count]
      /\ tx'[0] = Plus(tx[0], n) /\ passed'[0] = tx'[0]
      /\ \A q \in Queues : q # 0 => tx'[q] = tx[q] /\ passed'[q] = passed[q]
  BY <1>1, <1>2, QueuesAre
<1>4. Grows
  <2>1. \A q \in Queues : tx[q] \in Count
    BY <1>1
  <2>2. QED
    BY <1>2, <1>3, <2>1, AtMostIs DEF Grows
<1>5. MbufTypes'
  BY <1>1, <1>3 DEF MbufTypes
<1>6. ASSUME NEW v \in Workers PROVE WorkerCounts(v)'
  <2>1. WorkerCounts(v) /\ counting[v].pkts \in SUBSET Mbufs
    BY <1>1 DEF CountAll, CountInv
  <2>2. v \in Queues /\ v # 0
    BY QueuesAre
  <2>3. QED
    BY <1>1, <1>3, <2>1, <2>2, WorkerKeeps
<1>7. QED
  BY <1>3, <1>4, <1>5, <1>6 DEF CountAll, CountInv

\* A step of the loops that count: the print in progress is not theirs.
LEMMA LoopsCount ==
  ASSUME HandedInv, SplitAll, CountAll, Collect \/ Poll \/ Exec
  PROVE  SplitAll' /\ CountAll'
<1>1. printing = Nothing /\ UNCHANGED printVars
  <2>1. CASE Collect \/ Poll
    BY <2>1 DEF Collect, Poll
  <2>2. CASE Exec
    BY <2>2 DEF Exec, SplitAll, PrintInv
  <2>3. QED
    BY <2>1, <2>2
<1>2. MbufTypes /\ mbuf \in [Mbufs -> Mbuf]
  BY DEF CountAll, MbufTypes
<1>3. CountAll' /\ Grows
  <2>1. CASE Collect
    <3>1. PICK w \in Workers :
            LET set == InPlace("out", w)
                n == [cnt |-> Cardinality(set), bytes |-> Bytes(set, mbuf)]
            IN /\ tx' = [tx EXCEPT ![0] = Plus(@, n)]
               /\ passed' = [passed EXCEPT ![0] = Plus(@, n)]
               /\ mbuf' = [m \in Mbufs |-> IF m \in set THEN [mbuf[m] EXCEPT !.place = "pool"]
                                            ELSE mbuf[m]]
      BY <2>1 DEF Collect
    <3> DEFINE set == InPlace("out", w)
               n == [cnt |-> Cardinality(set), bytes |-> Bytes(set, mbuf)]
    <3>2. set \in SUBSET Mbufs
      BY DEF InPlace
    <3>3. /\ tx' = [tx EXCEPT ![0] = Plus(@, n)]
          /\ passed' = [passed EXCEPT ![0] = Plus(@, n)]
          /\ mbuf' = [m \in Mbufs |-> IF m \in set THEN [mbuf[m] EXCEPT !.place = "pool"]
                                       ELSE mbuf[m]]
      BY <3>1
    <3> HIDE DEF set
    <3>4. n \in Count
      BY <1>2, <3>2, MbufsAre DEF Count
    <3>5. \A m \in Mbufs : /\ [mbuf[m] EXCEPT !.place = "pool"] \in Mbuf
                           /\ mbuf'[m].len = mbuf[m].len
      BY <1>2, <3>3 DEF Mbuf
    <3>6. mbuf' \in [Mbufs -> Mbuf]
      BY <1>2, <3>3, <3>5
    <3>7. UNCHANGED <<counting, stale>>
      BY <2>1 DEF Collect
    <3> HIDE DEF n
    <3>8. QED
      BY <3>3, <3>4, <3>5, <3>6, <3>7, MainCounts
  <2>2. CASE Poll \/ Exec
    <3>1. UNCHANGED <<mbuf, counting, stale>>
      BY <2>2 DEF Poll, Exec
    <3>2. CASE UNCHANGED <<tx, passed>>
      <4>1. CountAll'
        BY <3>1, <3>2 DEF CountAll, MbufTypes, CountInv, WorkerCounts, Pending
      <4>2. Grows
        <5>1. tx \in [Queues -> Count] /\ \A q \in Queues : tx[q] \in Count
          BY DEF CountAll
        <5>2. QED
          BY <3>2, <5>1, AtMostIs DEF Grows
      <4>3. QED
        BY <4>1, <4>2
    <3>3. ASSUME NEW n \in Nat, Counted(n) PROVE CountAll' /\ Grows
      <4> DEFINE c == [cnt |-> n, bytes |-> n]
      <4>1. c \in Count
        BY DEF Count
      <4>2. tx' = [tx EXCEPT ![0] = Plus(@, c)] /\ passed' = [passed EXCEPT ![0] = Plus(@, c)]
        BY <3>3 DEF Counted
      <4> HIDE DEF c
      <4>3. QED
        BY <1>2, <3>1, <4>1, <4>2, MainCounts
    <3>4. CASE Poll
      <4>1. PICK n \in 1 .. SmallerOf(EthBatch, MaxPkts - received) :
              Counted(n) \/ UNCHANGED <<tx, passed>>
        BY <3>4 DEF Poll
      <4>2. n \in Nat
        OBVIOUS
      <4>3. QED
        BY <3>2, <3>3, <4>1, <4>2
    <3>5. CASE Exec
      <4>1. Counted(Len(NextChunk))
        BY <3>5 DEF Exec
      <4>2. Len(NextChunk) \in Nat
        <5>1. batch \in Seq(Nat) /\ waitEnq \in Nat /\ waitEnq <= Len(batch) /\ BatchIn \in Nat
          BY ParametersAre DEF HandedInv, BurstTypes, BurstInv
        <5>2. SmallerOf(BatchIn, waitEnq) \in 0 .. Len(batch)
          BY <5>1 DEF SmallerOf
        <5>3. QED
          BY <5>1, <5>2, PrefixIs DEF NextChunk
      <4>3. QED
        BY <3>3, <4>1, <4>2
    <3>6. QED
      BY <2>2, <3>4, <3>5
  <2>3. QED
    BY <2>1, <2>2
<1>4. SplitAll'
  BY <1>1, <1>3, CountingSplit DEF Grows
<1>5. QED
  BY <1>3, <1>4

\* A step that does not count.
LEMMA UncountedSplit ==
  ASSUME SplitAll, UNCHANGED <<tx, printVars>>, printing # Nothing => pc' \in {"poll", "done"}
  PROVE  SplitAll'
<1>1. tx \in [Queues -> Count] /\ \A q \in Queues : tx[q] \in Count
  BY DEF SplitAll, StatsTypes
<1>2. QED
  BY <1>1, AtMostIs, CountingSplit

\* Nor changes what is to be counted.
LEMMA UncountedCounts ==
  ASSUME CountAll, UNCHANGED <<mbufVars, tx>>
  PROVE  CountAll'
BY DEF CountAll, MbufTypes, CountInv, WorkerCounts, Pending, mbufVars

\* Every step keeps the splits and the counts.
LEMMA CountsStep ==
  ASSUME HandedInv, SplitAll, CountAll, [Next]_vars
  PROVE  SplitAll' /\ CountAll'
<1>1. printing # Nothing => pc \in {"poll", "done"}
  BY DEF SplitAll, PrintInv
<1>2. CASE StartMeili \/ StartRemote \/ StartBaseline \/ Quit \/ Leave \/ Send \/ Release
           \/ UNCHANGED vars
  <2>1. UNCHANGED <<mbufVars, statVars>>
    BY <1>2 DEF StartMeili, StartRemote, StartBaseline, LookUpPorts, Quit, Leave, Send, Release, vars
  <2>2. printing # Nothing => pc' \in {"poll", "done"}
    BY <1>1, <1>2
       DEF StartMeili, StartRemote, StartBaseline, LookUpPorts, Quit, Leave, Send, Release, vars
  <2>3. UNCHANGED <<tx, printVars>>
    BY <2>1 DEF statVars, printVars
  <2>4. QED
    BY <2>1, <2>2, <2>3, UncountedSplit, UncountedCounts
<1>3. CASE Collect \/ Poll \/ Exec
  BY <1>3, LoopsCount
<1>4. CASE Receive
  <2>1. UNCHANGED <<tx, printVars, pc>>
    BY <1>4 DEF Receive, statVars, printVars
  <2>2. QED
    BY <1>1, <1>4, <2>1, UncountedSplit, ReceiveCounts
<1>5. ASSUME NEW w \in Workers, PassOn(w) PROVE SplitAll' /\ CountAll'
  <2>1. UNCHANGED <<tx, printVars, pc>>
    BY <1>5 DEF PassOn, statVars, printVars
  <2>2. QED
    BY <1>1, <1>5, <2>1, UncountedSplit, PassOnCounts
<1>6. ASSUME NEW w \in Workers, CountBytes(w) \/ CountPackets(w) PROVE SplitAll' /\ CountAll'
  <2>1. UNCHANGED <<printVars, pc>>
    BY <1>6 DEF CountBytes, CountPackets
  <2>2. CountAll' /\ Grows /\ tx'[0] = tx[0]
    BY <1>6, CountBytesCounts, CountPacketsCounts
  <2>3. QED
    BY <1>1, <2>1, <2>2, CountingSplit DEF Grows
<1>7. CASE PrintSplit \/ PrintStep \/ EndPrint
  <2>1. UNCHANGED <<mbufVars, tx>>
    BY <1>7 DEF PrintSplit, PrintStep, EndPrint, BeginPrint, PrintRead, PrintStore
  <2>2. CountAll'
    BY <2>1, UncountedCounts
  <2>3. ASSUME PrintSplit PROVE SplitAll'
    <3>1. BeginPrint(FALSE) /\ pc' \in {"poll", "done"}
      BY <2>3 DEF PrintSplit
    <3>2. QED
      BY <3>1, BeginSplit, Zenon
  <2>4. ASSUME PrintStep PROVE SplitAll'
    <3>1. (PrintRead \/ PrintStore) /\ pc' = pc
      BY <2>4 DEF PrintStep
    <3>2. QED
      BY <3>1, ReadSplit, StoreSplit
  <2>5. ASSUME EndPrint PROVE SplitAll'
    <3>1. BeginPrint(TRUE) /\ pc' \in {"poll", "done"}
      BY <2>5 DEF EndPrint
    <3>2. QED
      BY <3>1, BeginSplit, Zenon
  <2>6. QED
    BY <1>7, <2>2, <2>3, <2>4, <2>5
<1>8. QED
  BY <1>2, <1>3, <1>4, <1>5, <1>6, <1>7 DEF Next

\* They hold at first.
LEMMA CountsFirst == Init => SplitAll /\ CountAll
<1> SUFFICES ASSUME Init PROVE SplitAll /\ CountAll
  OBVIOUS
<1>1. /\ tx = [q \in Queues |-> Zero] /\ split = tx /\ shown = tx /\ total = tx
      /\ passed = [q \in Queues |-> Zero] /\ printing = Nothing /\ stale = {}
      /\ mbuf = [m \in Mbufs |-> [place |-> "pool", worker |-> 0, len |-> 1]]
      /\ counting = [w \in Workers |-> Idle]
  BY DEF Init, StatsInit
<1>2. Zero \in Count /\ AtMost(Zero, Zero) /\ Zero.cnt = 0 /\ Zero.bytes = 0
  BY DEF Zero, Count, AtMost
<1>3. tx \in [Queues -> Count] /\ passed \in [Queues -> Count]
  BY <1>1, <1>2
<1>4. /\ Nothing.todo = <<>> /\ Len(<<>>) = 0 /\ <<>> \in Seq(Queues)
      /\ Nothing = [todo |-> <<>>, seen |-> Zero, step |-> "read", last |-> FALSE]
  BY DEF Nothing
<1>5. StatsTypes
  BY <1>1, <1>2, <1>3, <1>4 DEF StatsTypes
<1>6. PrintInv
  BY <1>1, <1>4, ParametersAre DEF PrintInv
<1>7. SplitInv
  <2>1. \A q \in Queues : tx[q] = Zero
    BY <1>1
  <2>2. QED
    BY <1>1, <1>2, <2>1, NothingStoring DEF SplitInv
<1>8. MbufTypes
  <2>1. [place |-> "pool", worker |-> 0, len |-> 1] \in Mbuf
    BY QueuesAre DEF Mbuf
  <2>2. Idle \in [pkts : SUBSET Mbufs, bytes : BOOLEAN]
    BY DEF Idle
  <2>3. QED
    BY <1>1, <1>3, <2>1, <2>2 DEF MbufTypes
<1>9. CountInv
  <2>1. ASSUME NEW w \in Workers PROVE WorkerCounts(w)
    <3>1. counting[w].pkts = {} /\ counting[w].bytes = FALSE /\ tx[w] = Zero /\ passed[w] = Zero
      BY <1>1, QueuesAre DEF Idle
    <3>2. Cardinality({}) = 0 /\ Bytes({}, mbuf) = 0
      BY <1>8, MbufsAre
    <3>3. QED
      BY <1>2, <3>1, <3>2 DEF WorkerCounts, Pending
  <2>2. QED
    BY <1>1, <2>1, QueuesAre DEF CountInv
<1>10. QED
  BY <1>3, <1>5, <1>6, <1>7, <1>8, <1>9 DEF SplitAll, CountAll

\* For every number of lcores: no entry remembers more than is counted, so that no rate
\* wraps round, no packet is in two printed rates, and main's own rates miss none.
THEOREM SplitsStayDisjoint == Spec => []SplitsDisjoint
<1>1. SplitAll => SplitsDisjoint
  <2> SUFFICES ASSUME SplitAll PROVE SplitsDisjoint
    OBVIOUS
  <2>1. \A q \in Queues : Storing(q) => printing # Nothing /\ q = Head(printing.todo)
    BY NothingStoring DEF Storing
  <2>2. printing = Nothing => shown[0] = split[0]
    BY NothingStoring DEF SplitAll, SplitInv
  <2>3. \A q \in Queues : /\ AtMost(split[q], tx[q]) /\ AtMost(shown[q], tx[q])
                          /\ ~Storing(q) => AtMost(shown[q], split[q])
    BY DEF SplitAll, SplitInv
  <2>4. QED
    BY <2>1, <2>2, <2>3 DEF SplitsDisjoint
<1>2. HandedInv /\ SplitAll /\ CountAll /\ [Next]_vars => SplitAll' /\ CountAll'
  BY CountsStep
<1>3. QED
  BY <1>1, <1>2, CountsFirst, HandedFirst, HandedStep, PTL DEF Spec

-----------------------------------------------------------------------------
(* The last print.                                                         *)

\* Once main is done, nothing is counted any more.
LEMMA DoneStays ==
  ASSUME SplitAll, FinalInv, pc = "done", [Next]_vars
  PROVE  /\ UNCHANGED <<pc, counting, tx>>
         /\ PrintRead \/ PrintStore \/ UNCHANGED printVars
<1>1. \A w \in Workers : counting[w].pkts = {} /\ counting[w].bytes = FALSE
  BY DEF FinalInv, Idle
<1>2. CASE Quit \/ UNCHANGED vars
  BY <1>2 DEF Quit, vars, mbufVars, statVars, printVars
<1>3. CASE PrintStep
  BY <1>3 DEF PrintStep, PrintRead, PrintStore, mbufVars
<1>4. ~(\E w \in Workers : PassOn(w) \/ CountBytes(w) \/ CountPackets(w))
  BY <1>1 DEF PassOn, CountBytes, CountPackets
<1>5. ~(StartMeili \/ StartRemote \/ StartBaseline \/ Leave \/ Receive \/ Collect)
  BY DEF StartMeili, StartRemote, StartBaseline, LookUpPorts, Leave, Receive, Collect
<1>6. ~(Poll \/ Send \/ Release \/ Exec \/ PrintSplit \/ EndPrint)
  BY DEF Poll, Send, Release, Exec, PrintSplit, EndPrint, Wait
<1>7. QED
  BY <1>2, <1>3, <1>4, <1>5, <1>6 DEF Next

\* The last print begins when every worker has counted.
LEMMA EndPrintFinal ==
  ASSUME SplitAll, EndPrint
  PROVE  FinalInv'
<1>1. /\ \A w \in Workers : counting[w] = Idle
      /\ printing' = [Nothing EXCEPT !.todo = PrintOrder, !.last = TRUE]
      /\ UNCHANGED counting
  BY DEF EndPrint, Wait, BeginPrint, mbufVars
<1>2. printing'.todo = PrintOrder /\ printing'.last = TRUE /\ printing'.step = "read"
  BY <1>1 DEF Nothing
<1>3. Len(PrintOrder) = Cores /\ Cores \in Nat
  BY ParametersAre DEF PrintOrder
<1>4. \A q \in Queues : ~(q < Cores - Len(printing'.todo) + 0)
  BY <1>2, <1>3 DEF Queues
<1>5. QED
  BY <1>1, <1>2, <1>4 DEF FinalInv

\* Then the totals of one entry after the other are final.
LEMMA PrintFinal ==
  ASSUME SplitAll, FinalInv, pc = "done", UNCHANGED <<pc, counting, tx>>,
         PrintRead \/ PrintStore
  PROVE  FinalInv'
<1> DEFINE q == Head(printing.todo)
           n == Len(printing.todo)
<1>1. printing.todo # <<>> /\ printing # Nothing
  <2>1. CASE PrintRead
    BY <2>1, NothingStoring DEF PrintRead
  <2>2. CASE PrintStore
    BY <2>2, NothingStoring DEF PrintStore, SplitAll, PrintInv
  <2>3. QED
    BY <2>1, <2>2
<1>2. /\ q = Cores - n /\ q \in Queues /\ n \in Nat \ {0} /\ Cores \in Nat
      /\ Len(Tail(printing.todo)) = n - 1
  BY <1>1, TodoIs, ParametersAre DEF SplitAll
<1>3. printing.last /\ \A w \in Workers : counting[w] = Idle
  BY <1>1 DEF FinalInv
<1>4. /\ printing \in [todo : Seq(Queues), seen : Count, step : {"read", "store"}, last : BOOLEAN]
      /\ total \in [Queues -> Count]
  BY DEF SplitAll, StatsTypes
<1>5. \A p \in Queues : p < Cores - n + (IF printing.step = "store" THEN 1 ELSE 0) => total[p] = tx[p]
  BY DEF FinalInv
<1>6. CASE PrintRead
  <2>1. /\ printing.step = "read" /\ total' = [total EXCEPT ![q] = tx[q]]
        /\ printing' = [printing EXCEPT !.seen = tx[q], !.step = "store"]
    BY <1>3, <1>6 DEF PrintRead
  <2>2. printing'.todo = printing.todo /\ printing'.step = "store" /\ printing'.last = printing.last
    BY <1>4, <2>1
  <2>3. ASSUME NEW p \in Queues, p < Cores - n + 1 PROVE total'[p] = tx[p]
    <3>1. CASE p = q
      BY <1>4, <2>1, <3>1
    <3>2. CASE p # q
      <4>1. p < Cores - n + 0
        <5>1. p \in Int
          BY DEF Queues
        <5> HIDE DEF q, n
        <5>2. QED
          BY <1>2, <2>3, <3>2, <5>1
      <4>2. QED
        BY <1>4, <1>5, <2>1, <3>2, <4>1
    <3>3. QED
      BY <3>1, <3>2
  <2>4. QED
    BY <1>3, <2>2, <2>3 DEF FinalInv
<1>7. CASE PrintStore
  <2>1. /\ printing.step = "store" /\ total' = total
        /\ printing' = IF n = 1 THEN Nothing
                       ELSE [printing EXCEPT !.todo = Tail(@), !.step = "read", !.seen = Zero]
    BY <1>7 DEF PrintStore
  <2>2. \A p \in Queues : p < Cores - n + 1 => total'[p] = tx[p]
    BY <1>5, <2>1
  <2>3. CASE n = 1
    <3>1. printing' = Nothing /\ Len(Nothing.todo) = 0 /\ Nothing.step = "read"
      BY <2>1, <2>3 DEF Nothing
    <3>2. \A p \in Queues : p < Cores - 0 + 0 => p < Cores - n + 1
      BY <1>2, <2>3 DEF Queues
    <3>3. QED
      BY <1>3, <2>2, <3>1, <3>2 DEF FinalInv
  <2>4. CASE n # 1
    <3>1. printing'.todo = Tail(printing.todo) /\ printing'.step = "read"
          /\ printing'.last = printing.last
      BY <1>4, <2>1, <2>4
    <3>2. \A p \in Queues : p < Cores - (n - 1) + 0 => p < Cores - n + 1
      <4> HIDE DEF n
      <4>1. QED
        BY <1>2 DEF Queues
    <3>3. QED
      BY <1>2, <1>3, <2>2, <3>1, <3>2 DEF FinalInv
  <2>5. QED
    BY <2>3, <2>4
<1>8. QED
  BY <1>6, <1>7

\* So it is after every step.
LEMMA FinalStep ==
  ASSUME SplitAll, FinalInv, [Next]_vars
  PROVE  FinalInv'
<1>1. CASE pc = "done"
  <2>1. /\ UNCHANGED <<pc, counting, tx>>
        /\ PrintRead \/ PrintStore \/ UNCHANGED printVars
    BY <1>1, DoneStays
  <2>2. CASE UNCHANGED printVars
    BY <2>1, <2>2 DEF printVars, FinalInv
  <2>3. QED
    BY <1>1, <2>1, <2>2, PrintFinal
<1>2. CASE pc # "done"
  <2>1. CASE EndPrint
    BY <2>1, EndPrintFinal
  <2>2. CASE ~EndPrint
    <3>1. pc' # "done"
      <4>1. CASE StartMeili \/ StartRemote \/ StartBaseline \/ Quit \/ Leave \/ Receive \/ Collect
        BY <1>2, <4>1 DEF StartMeili, StartRemote, StartBaseline, LookUpPorts, Quit, Leave, Receive, Collect
      <4>2. CASE \E w \in Workers : PassOn(w) \/ CountBytes(w) \/ CountPackets(w)
        BY <1>2, <4>2 DEF PassOn, CountBytes, CountPackets
      <4>3. CASE Poll \/ Send \/ Release \/ Exec
        BY <1>2, <4>3 DEF Poll, Send, Release, Exec
      <4>4. CASE PrintSplit \/ PrintStep \/ UNCHANGED vars
        BY <1>2, <4>4 DEF PrintSplit, PrintStep, vars
      <4>5. QED
        BY <2>2, <4>1, <4>2, <4>3, <4>4 DEF Next
    <3>2. QED
      BY <3>1 DEF FinalInv
  <2>3. QED
    BY <2>1, <2>2
<1>3. QED
  BY <1>1, <1>2

\* For every number of lcores: the totals that main prints at the end are exact, but for
\* the bytes of a worker one of whose mbufs was refilled before it read the length.
THEOREM LastTotalsExact == Spec => []CountsExact
<1>1. SplitAll /\ CountAll /\ FinalInv => CountsExact
  <2> SUFFICES ASSUME SplitAll, CountAll, FinalInv, pc = "done", printing = Nothing,
                      NEW q \in Queues
               PROVE  /\ total[q].cnt = passed[q].cnt
                      /\ q \notin stale => total[q].bytes = passed[q].bytes
    BY DEF CountsExact
  <2>1. Len(printing.todo) = 0 /\ printing.step = "read"
    BY DEF Nothing
  <2>2. q < Cores - Len(printing.todo) + (IF printing.step = "store" THEN 1 ELSE 0)
    BY <2>1, ParametersAre DEF Queues
  <2>3. total[q] = tx[q] /\ \A w \in Workers : counting[w] = Idle
    BY <2>2 DEF FinalInv
  <2>4. CASE q = 0
    BY <2>3, <2>4 DEF CountAll, CountInv
  <2>5. CASE q # 0
    <3>1. q \in Workers
      BY <2>5 DEF Workers
    <3>2. counting[q].pkts = {} /\ counting[q].bytes = FALSE
      BY <2>3, <3>1 DEF Idle
    <3>3. Cardinality({}) = 0 /\ Bytes({}, mbuf) = 0
      BY MbufsAre DEF CountAll
    <3>4. tx[q].cnt \in Nat /\ tx[q].bytes \in Nat
      BY DEF CountAll, Count
    <3>5. Pending(q) = 0
      BY <3>2, <3>3 DEF Pending
    <3>6. WorkerCounts(q)
      BY <3>1 DEF CountAll, CountInv
    <3>7. QED
      BY <2>3, <3>2, <3>3, <3>4, <3>5, <3>6 DEF WorkerCounts
  <2>6. QED
    BY <2>4, <2>5
<1>2. Init => FinalInv
  BY DEF Init, FinalInv
<1>3. HandedInv /\ SplitAll /\ CountAll /\ [Next]_vars => SplitAll' /\ CountAll'
  BY CountsStep
<1>4. SplitAll /\ FinalInv /\ [Next]_vars => FinalInv'
  BY FinalStep
<1>5. QED
  BY <1>1, <1>2, <1>3, <1>4, CountsFirst, HandedFirst, HandedStep, PTL DEF Spec

-----------------------------------------------------------------------------
(* Latencies.                                                              *)

\* Products of a count and values in order.
LEMMA ProductsAre ==
  ASSUME NEW n \in Nat, NEW a \in Nat, NEW b \in Nat, a <= b
  PROVE  /\ n * a \in Nat /\ n * b \in Nat /\ n * a <= n * b
         /\ (n + 1) * a = (n * a) + a
<1>1. PICK d \in Nat : b = a + d
  <2>1. b - a \in Nat /\ b = a + (b - a)
    OBVIOUS
  <2>2. QED
    BY <2>1
<1>2. n * b = (n * a) + (n * d)
  BY <1>1
<1>3. n * a \in Nat /\ n * d \in Nat
  OBVIOUS
<1>4. (n + 1) * a = (n * a) + a
  OBVIOUS
<1>5. QED
  BY <1>2, <1>3, <1>4

\* The remainder of what is smaller.
LEMMA RemainderIs ==
  ASSUME NEW a \in Nat, NEW b \in Nat \ {0}, a < b
  PROVE  a % b = a
<1> DEFINE q == a \div b
<1>1. q \in Nat /\ (b * q) + (a % b) = a /\ a % b \in 0 .. b - 1
  OBVIOUS
<1> HIDE DEF q
<1>2. ASSUME q # 0 PROVE FALSE
  <2>1. PICK d \in Nat : q = 1 + d
    <3>1. q - 1 \in Nat /\ q = 1 + (q - 1)
      BY <1>1, <1>2
    <3>2. QED
      BY <3>1
  <2>2. b * q = b + (b * d) /\ b * d \in Nat
    BY <2>1
  <2>3. QED
    BY <1>1, <2>2
<1>3. QED
  BY <1>1, <1>2

\* An int keeps a number that is small enough.
LEMMA AsIntIs ==
  ASSUME NEW x \in Int
  PROVE  AsInt(x) \in Int /\ (0 <= x /\ x < IntHalf => AsInt(x) = x)
<1> DEFINE low == x % (2 * IntHalf)
<1>1. IntHalf \in Nat \ {0} /\ 2 * IntHalf \in Nat \ {0} /\ IntHalf <= 2 * IntHalf
  BY ParametersAre
<1>2. low \in Nat
  <2>1. x % (2 * IntHalf) \in 0 .. 2 * IntHalf - 1
    BY <1>1
  <2>2. QED
    BY <1>1, <2>1
<1>3. 0 <= x /\ x < IntHalf => low = x
  <2> SUFFICES ASSUME 0 <= x, x < IntHalf PROVE low = x
    OBVIOUS
  <2>1. x \in Nat /\ x < 2 * IntHalf
    BY <1>1
  <2>2. QED
    BY <1>1, <2>1, RemainderIs
<1>4. AsInt(x) = IF low < IntHalf THEN low ELSE low - 2 * IntHalf
  BY Zenon DEF AsInt
<1> HIDE DEF low
<1>5. QED
  BY <1>1, <1>2, <1>3, <1>4

\* A sample keeps the types.
LEMMA SampledTyped ==
  ASSUME NEW l \in Latencies, NEW diff \in Nat, NEW kept
  PROVE  Sampled(l, diff, kept) \in Latencies
<1>1. /\ l.nb \in Int /\ l.samples \in [0 .. NbSamples - 1 -> Int] /\ l.tot \in Nat
      /\ l.min \in Int /\ l.max \in Nat
  BY DEF Latencies
<1> DEFINE i == SampleIndex(l.nb)
           m == IF i < NbSamples \/ kept THEN l.nb ELSE AsInt(diff)
<1>2. m \in Int
  <2>1. AsInt(diff) \in Int
    BY AsIntIs
  <2>2. QED
    BY <1>1, <2>1, Zenon
<1>3. Sampled(l, diff, kept) =
        [nb |-> AsInt(m + 1),
         samples |-> IF i < NbSamples THEN [l.samples EXCEPT ![i] = diff] ELSE l.samples,
         tot |-> l.tot + diff,
         min |-> IF l.min = Unset \/ diff < l.min THEN diff ELSE l.min,
         max |-> IF diff > l.max THEN diff ELSE l.max]
  BY Zenon DEF Sampled
<1> HIDE DEF i, m
<1>4. AsInt(m + 1) \in Int
  BY <1>2, AsIntIs
<1>5. [l.samples EXCEPT ![i] = diff] \in [0 .. NbSamples - 1 -> Int]
  <2> DEFINE q == l.samples
  <2>1. q \in [0 .. NbSamples - 1 -> Int] /\ diff \in Int
    BY <1>1
  <2> HIDE DEF q
  <2>2. [q EXCEPT ![i] = diff] \in [0 .. NbSamples - 1 -> Int]
    BY ONLY <2>1
  <2>3. QED
    BY <2>2 DEF q
<1>6. QED
  BY <1>1, <1>3, <1>4, <1>5 DEF Latencies

\* A sample is one more latency.
LEMMA SampledInv ==
  ASSUME NEW l \in Latencies, NEW n \in Nat, LatencyInv(l, n), NEW diff \in Nat, NEW kept
  PROVE  LatencyInv(Sampled(l, diff, kept), n + 1)
<1> DEFINE i == SampleIndex(l.nb)
           count == IF i < NbSamples \/ kept THEN l.nb ELSE AsInt(diff)
           r == Sampled(l, diff, kept)
<1>1. /\ l.nb \in Int /\ l.samples \in [0 .. NbSamples - 1 -> Int] /\ l.tot \in Nat
      /\ l.min \in Int /\ l.max \in Nat
      /\ NbSamples \in Nat \ {0} /\ IntHalf \in Nat /\ NbSamples < IntHalf
  BY ParametersAre DEF Latencies
<1>2. i \in 0 .. NbSamples /\ (0 <= l.nb /\ l.nb < NbSamples => i = l.nb)
  <2>1. NbSamples + 1 \in Nat \ {0} /\ i = l.nb % (NbSamples + 1)
    BY <1>1 DEF SampleIndex
  <2>2. i \in 0 .. NbSamples + 1 - 1
    BY <1>1, <2>1
  <2>3. 0 <= l.nb /\ l.nb < NbSamples => l.nb % (NbSamples + 1) = l.nb
    <3> SUFFICES ASSUME 0 <= l.nb, l.nb < NbSamples PROVE l.nb % (NbSamples + 1) = l.nb
      OBVIOUS
    <3>1. l.nb \in Nat /\ l.nb < NbSamples + 1
      BY <1>1
    <3>2. QED
      BY <2>1, <3>1, RemainderIs
  <2>4. QED
    BY <1>1, <2>1, <2>2, <2>3
<1>3. /\ r.nb = AsInt(count + 1)
      /\ r.samples = IF i < NbSamples THEN [l.samples EXCEPT ![i] = diff] ELSE l.samples
      /\ r.tot = l.tot + diff
      /\ r.min = IF l.min = Unset \/ diff < l.min THEN diff ELSE l.min
      /\ r.max = IF diff > l.max THEN diff ELSE l.max
  BY DEF Sampled
<1>m. /\ count = IF i < NbSamples \/ kept THEN l.nb ELSE AsInt(diff)
      /\ AsInt(diff) \in Int /\ count \in Int
  <2>1. AsInt(diff) \in Int
    BY AsIntIs
  <2>2. QED
    BY <1>1, <2>1, Zenon
<1> HIDE DEF i, count, r
<1>4. Unset = -1
  BY DEF Unset
<1>5. \A j \in 0 .. NbSamples - 1 : r.samples[j] = IF j = i THEN diff ELSE l.samples[j]
  BY <1>1, <1>2, <1>3
<1>6. /\ 0 <= r.min /\ r.min <= r.max
      /\ (n + 1) * r.min <= r.tot /\ r.tot <= (n + 1) * r.max
      /\ r.min <= diff /\ diff <= r.max
      /\ n # 0 => r.min <= l.min /\ l.max <= r.max
  <2>1. CASE n = 0
    <3>1. l.tot = 0 /\ l.min = Unset
      BY <2>1 DEF LatencyInv
    <3>2. r.tot = diff /\ r.min = diff /\ diff <= r.max /\ r.max \in Nat
      BY <1>1, <1>3, <3>1
    <3>3. (n + 1) * r.min = r.min /\ (n + 1) * r.max = r.max
      BY <2>1, <3>2
    <3>4. QED
      BY <2>1, <3>2, <3>3
  <2>2. CASE n # 0
    <3>1. 0 <= l.min /\ l.min <= l.max /\ n * l.min <= l.tot /\ l.tot <= n * l.max
      BY <2>2 DEF LatencyInv
    <3>2. /\ r.min \in Nat /\ r.min <= l.min /\ r.min <= diff /\ l.min \in Nat
          /\ r.max \in Nat /\ l.max <= r.max /\ diff <= r.max
      <4>1. /\ l.min \in Int /\ l.max \in Int /\ diff \in Nat /\ 0 <= l.min /\ l.min <= l.max
            /\ r.min = IF l.min = Unset \/ diff < l.min THEN diff ELSE l.min
            /\ r.max = IF diff > l.max THEN diff ELSE l.max
        BY <1>1, <1>3, <3>1
      <4>2. QED
        BY ONLY <1>4, <4>1
    <3>3. n * r.min <= n * l.min /\ (n + 1) * r.min = (n * r.min) + r.min
          /\ n * r.min \in Nat /\ n * l.min \in Nat
      BY <3>2, ProductsAre
    <3>4. n * l.max <= n * r.max /\ (n + 1) * r.max = (n * r.max) + r.max
          /\ n * l.max \in Nat /\ n * r.max \in Nat
      <4>1. (n + 1) * r.max = (n * r.max) + r.max
        BY <3>2, ProductsAre
      <4>2. QED
        BY <1>1, <3>2, <4>1, ProductsAre
    <3>5. (n + 1) * r.min <= r.tot
      <4> DEFINE a == n * l.min
                 b == n * r.min
                 c == (n + 1) * r.min
                 m == r.min
                 t == l.tot
      <4>1. /\ a \in Nat /\ b \in Nat /\ m \in Nat /\ t \in Nat /\ diff \in Nat
            /\ b <= a /\ c = b + m /\ a <= t /\ m <= diff /\ r.tot = t + diff
        BY <1>1, <1>3, <3>1, <3>2, <3>3, Zenon
      <4> HIDE DEF a, b, c, m, t
      <4>2. c <= r.tot
        BY ONLY <4>1
      <4>3. QED
        BY <4>2, Zenon DEF c
    <3>6. r.tot <= (n + 1) * r.max
      <4> DEFINE a == n * l.max
                 b == n * r.max
                 c == (n + 1) * r.max
                 m == r.max
                 t == l.tot
      <4>1. /\ a \in Nat /\ b \in Nat /\ m \in Nat /\ t \in Nat /\ diff \in Nat
            /\ a <= b /\ c = b + m /\ t <= a /\ diff <= m /\ r.tot = t + diff
        BY <1>1, <1>3, <3>1, <3>2, <3>4, Zenon
      <4> HIDE DEF a, b, c, m, t
      <4>2. r.tot <= c
        BY ONLY <4>1
      <4>3. QED
        BY <4>2, Zenon DEF c
    <3>7. 0 <= r.min /\ r.min <= r.max
      BY ONLY <3>2, diff \in Nat
    <3>8. QED
      BY <3>2, <3>5, <3>6, <3>7
  <2>3. QED
    BY <2>1, <2>2
<1>7. ASSUME NEW j \in 0 .. NbSamples - 1, r.samples[j] # Unset
      PROVE  r.min <= r.samples[j] /\ r.samples[j] <= r.max
  <2>1. CASE j = i
    <3>1. r.samples[j] = diff
      BY <1>5, <2>1
    <3>2. r.min <= diff /\ diff <= r.max
      BY <1>6
    <3>3. QED
      BY <3>1, <3>2
  <2>2. CASE j # i
    <3>1. r.samples[j] = l.samples[j] /\ l.samples[j] \in Int
      BY <1>1, <1>5, <2>2
    <3>2. n # 0 /\ l.min <= l.samples[j] /\ l.samples[j] <= l.max
      BY <1>7, <3>1 DEF LatencyInv
    <3>3. r.min \in Int /\ r.max \in Int
      BY <1>1, <1>3
    <3>4. r.min <= l.min /\ l.max <= r.max
      BY <1>6, <3>2
    <3>5. l.min \in Int /\ l.max \in Int
      BY <1>1
    <3> DEFINE x == l.samples[j]
               y == r.samples[j]
    <3>6. /\ x \in Int /\ y = x /\ l.min <= x /\ x <= l.max
      BY <3>1, <3>2, Zenon
    <3> HIDE DEF x, y
    <3>7. r.min <= y /\ y <= r.max
      BY ONLY <3>3, <3>4, <3>5, <3>6
    <3>8. QED
      BY <3>7, Zenon DEF y
  <2>3. QED
    BY <2>1, <2>2
<1>8. \/ \A j \in 0 .. NbSamples - 1 : r.samples[j] # Unset
      \/ /\ 0 <= r.nb /\ r.nb < NbSamples
         /\ \A j \in 0 .. r.nb - 1 : r.samples[j] # Unset
  <2>1. diff # Unset
    BY <1>4
  <2>2. CASE \A j \in 0 .. NbSamples - 1 : l.samples[j] # Unset
    BY <1>5, <2>1, <2>2
  <2>3. CASE 0 <= l.nb /\ l.nb < NbSamples /\ \A j \in 0 .. l.nb - 1 : l.samples[j] # Unset
    <3>1. i = l.nb /\ r.nb = l.nb + 1
      <4>1. i = l.nb /\ i < NbSamples
        BY <1>2, <2>3
      <4>2. count = l.nb
        BY <1>m, <4>1, Zenon
      <4>3. l.nb + 1 \in Int /\ 0 <= l.nb + 1 /\ l.nb + 1 < IntHalf
        <5> DEFINE b == l.nb
        <5>1. b \in Int /\ NbSamples \in Nat /\ IntHalf \in Nat
              /\ 0 <= b /\ b < NbSamples /\ NbSamples < IntHalf
          BY <1>1, <2>3, Zenon
        <5> HIDE DEF b
        <5>2. b + 1 \in Int /\ 0 <= b + 1 /\ b + 1 < IntHalf
          BY ONLY <5>1
        <5>3. QED
          BY <5>2, Zenon DEF b
      <4>4. AsInt(l.nb + 1) = l.nb + 1
        BY <4>3, AsIntIs
      <4>5. QED
        BY <1>3, <4>1, <4>2, <4>4, Zenon
    <3>2. \A j \in 0 .. l.nb : r.samples[j] # Unset
      <4>1. ASSUME NEW j \in 0 .. l.nb PROVE r.samples[j] # Unset
        <5>1. j \in 0 .. NbSamples - 1 /\ (j # l.nb => j \in 0 .. l.nb - 1)
          BY <1>1, <2>3
        <5>2. QED
          BY <1>5, <2>1, <2>3, <3>1, <5>1
      <4>2. QED
        BY <4>1
    <3>3. CASE r.nb < NbSamples
      <4>1. \A j \in 0 .. r.nb - 1 : j \in 0 .. l.nb
        BY <1>1, <3>1
      <4>2. \A j \in 0 .. r.nb - 1 : r.samples[j] # Unset
        BY <3>2, <4>1, Zenon
      <4>3. 0 <= r.nb
        BY <1>1, <2>3, <3>1
      <4>4. QED
        BY <3>3, <4>2, <4>3, Zenon
    <3>4. CASE ~(r.nb < NbSamples)
      <4>1. \A j \in 0 .. NbSamples - 1 : j \in 0 .. l.nb
        BY <1>1, <2>3, <3>1, <3>4
      <4>2. QED
        BY <3>2, <4>1
    <3>5. QED
      BY <3>3, <3>4
  <2>4. QED
    BY <2>2, <2>3 DEF LatencyInv
<1>9. n + 1 # 0
  OBVIOUS
<1>b. r.max + (n + 1) < IntHalf => 0 <= r.nb /\ r.nb <= r.max + (n + 1)
  <2> SUFFICES ASSUME r.max + (n + 1) < IntHalf
               PROVE  0 <= r.nb /\ r.nb <= r.max + (n + 1)
    OBVIOUS
  <2>1. r.max \in Nat /\ l.max <= r.max /\ diff <= r.max
    <3> DEFINE a == l.max
               c == r.max
    <3>1. a \in Nat /\ diff \in Nat /\ c = IF diff > a THEN diff ELSE a
      BY <1>1, <1>3, Zenon
    <3> HIDE DEF a, c
    <3>2. c \in Nat /\ a <= c /\ diff <= c
      BY ONLY <3>1
    <3>3. QED
      BY <3>2, Zenon DEF a, c
  <2> DEFINE a == l.max
             b == l.nb
             c == r.max
  <2>2. /\ a \in Nat /\ b \in Int /\ c \in Nat /\ diff \in Nat /\ n \in Nat /\ IntHalf \in Nat
        /\ a <= c /\ diff <= c /\ c + (n + 1) < IntHalf
        /\ a + n < IntHalf => 0 <= b /\ b <= a + n
    BY <1>1, <2>1 DEF LatencyInv
  <2>3. count = b \/ count = AsInt(diff)
    BY <1>m, Zenon
  <2> HIDE DEF a, b, c
  <2>4. /\ diff < IntHalf
        /\ 0 <= b /\ b + 1 <= c + (n + 1) /\ diff + 1 <= c + (n + 1)
    BY ONLY <2>2
  <2>5. AsInt(diff) = diff
    BY <2>2, <2>4, AsIntIs
  <2>6. count = b \/ count = diff
    BY <2>3, <2>5, Zenon
  <2>7. count + 1 \in Int /\ 0 <= count + 1 /\ count + 1 < IntHalf /\ count + 1 <= c + (n + 1)
    BY ONLY <2>2, <2>4, <2>6
  <2>8. r.nb = count + 1
    BY <1>3, <2>7, AsIntIs
  <2>9. QED
    BY <2>7, <2>8, Zenon DEF c
<1>10. LatencyInv(r, n + 1)
  BY <1>6, <1>7, <1>8, <1>9, <1>b DEF LatencyInv
<1>11. QED
  BY <1>10 DEF r

\* Sampling the times of a chunk, as the stage does.
Measured(l, diffs, kept) == FoldSeq(LAMBDA diff, k : Sampled(k, diff, kept), l, diffs)

\* What sampling the times of a chunk gives for U, when h has it for smaller sets.
SampleStep(h, l, diffs, kept, U) ==
  IF U = {} THEN l ELSE Sampled(h[U \ {Chosen(U)}], diffs[Chosen(U)], kept)

\* Sampling the packets of a chunk, one after the other.
LEMMA ChunkSampled ==
  ASSUME NEW diffs \in Seq(Nat), NEW l \in Latencies, NEW kept,
         NEW n \in Nat, LatencyInv(l, n)
  PROVE  /\ Measured(l, diffs, kept) \in Latencies
         /\ LatencyInv(Measured(l, diffs, kept), n + Len(diffs))
<1> DEFINE D == DOMAIN diffs
           F == [p \in D \X Latencies |-> Sampled(p[2], diffs[p[1]], kept)]
           h == CHOOSE iter : iter = [U \in SUBSET D |-> SampleStep(iter, l, diffs, kept, U)]
<1>1. D = 1 .. Len(diffs) /\ Len(diffs) \in Nat /\ IsFiniteSet(D) /\ Cardinality(D) = Len(diffs)
  <2>1. D = 1 .. Len(diffs) /\ Len(diffs) \in Nat
    OBVIOUS
  <2>2. /\ IsFiniteSet(1 .. Len(diffs))
        /\ Cardinality(1 .. Len(diffs)) = IF 1 > Len(diffs) THEN 0 ELSE Len(diffs) - 1 + 1
    BY ONLY <2>1, FS_Interval
  <2>3. Cardinality(1 .. Len(diffs)) = Len(diffs)
    BY ONLY <2>1, <2>2
  <2>4. QED
    BY <2>1, <2>2, <2>3, Zenon
<1>2. Measured(l, diffs, kept) = h[D]
  BY Zenon DEF Measured, FoldSeq, FoldFunction, FoldFunctionOnSet, MapThenFoldSet, SampleStep, Chosen
<1>a. \A i \in D : diffs[i] \in Nat
  OBVIOUS
<1>3. F \in [D \X Latencies -> Latencies]
  BY <1>a, SampledTyped
<1> HIDE DEF D
<1>4. PICK g \in [SUBSET D -> Latencies] : Folds(g, l, F, D)
  BY <1>1, <1>3, FoldsExist
<1>5. ASSUME NEW U \in SUBSET D
      PROVE  FoldStep(g, l, F, U) = SampleStep(g, l, diffs, kept, U)
  <2>1. CASE U = {}
    BY <2>1 DEF FoldStep, SampleStep
  <2>2. CASE U # {}
    <3>1. Chosen(U) \in D /\ U \ {Chosen(U)} \in SUBSET D
      BY <1>1, <2>2, ChosenIs
    <3>2. g[U \ {Chosen(U)}] \in Latencies
      BY <3>1
    <3>3. F[<<Chosen(U), g[U \ {Chosen(U)}]>>] = Sampled(g[U \ {Chosen(U)}], diffs[Chosen(U)], kept)
      BY <3>1, <3>2
    <3> HIDE DEF F
    <3>4. QED
      BY <2>2, <3>3, Zenon DEF FoldStep, SampleStep
  <2>3. QED
    BY <2>1, <2>2
<1> HIDE DEF F
<1>6. \A U \in SUBSET D : g[U] = SampleStep(g, l, diffs, kept, U)
  <2>1. g = [U \in SUBSET D |-> FoldStep(g, l, F, U)]
    BY <1>4, Zenon DEF Folds
  <2>2. \A U \in SUBSET D : g[U] = FoldStep(g, l, F, U)
    BY <2>1
  <2>3. QED
    BY <1>5, <2>2
<1>7. g = [U \in SUBSET D |-> SampleStep(g, l, diffs, kept, U)]
  BY <1>4, <1>6
<1>8. h = [U \in SUBSET D |-> SampleStep(h, l, diffs, kept, U)]
  BY <1>7, Zenon
<1> HIDE DEF h
<1>9. \A U \in SUBSET D : h[U] = SampleStep(h, l, diffs, kept, U)
  BY <1>8
<1> DEFINE P == {U \in SUBSET D : h[U] = g[U] /\ LatencyInv(g[U], n + Cardinality(U))}
<1>10. {} \in P
  <2>1. /\ {} \in SUBSET D /\ SampleStep(h, l, diffs, kept, {}) = l /\ SampleStep(g, l, diffs, kept, {}) = l
        /\ n + Cardinality({}) = n
    BY FS_EmptySet DEF SampleStep
  <2>2. h[{}] = l /\ g[{}] = l
    BY <1>6, <1>9, <2>1
  <2>3. QED
    BY <2>1, <2>2
<1>11. ASSUME NEW U \in SUBSET D, U # {}, U \ {Chosen(U)} \in P PROVE U \in P
  <2> DEFINE V == U \ {Chosen(U)}
  <2>1. /\ V \in SUBSET D /\ Cardinality(V) \in Nat /\ Cardinality(U) \in Nat
        /\ Cardinality(V) = Cardinality(U) - 1
    <3>1. IsFiniteSet(D) /\ U \in SUBSET D /\ U # {}
      BY <1>1, <1>11
    <3>2. QED
      BY ONLY <3>1, ChosenIs
  <2>2. h[V] = g[V] /\ LatencyInv(g[V], n + Cardinality(V))
    BY <1>11
  <2>3. SampleStep(h, l, diffs, kept, U) = Sampled(h[V], diffs[Chosen(U)], kept) /\ SampleStep(g, l, diffs, kept, U) = Sampled(g[V], diffs[Chosen(U)], kept)
    BY <1>11 DEF SampleStep
  <2>4. h[U] = g[U] /\ g[U] = Sampled(g[V], diffs[Chosen(U)], kept)
    BY <1>6, <1>9, <2>2, <2>3
  <2>5. g[V] \in Latencies /\ n + Cardinality(V) \in Nat
    BY <2>1
  <2>6. LatencyInv(Sampled(g[V], diffs[Chosen(U)], kept), (n + Cardinality(V)) + 1)
    <3>1. Chosen(U) \in D
      BY <1>1, <1>11, ChosenIs
    <3>2. diffs[Chosen(U)] \in Nat
      BY <1>a, <3>1
    <3>3. QED
      BY <2>2, <2>5, <3>2, SampledInv
  <2>7. (n + Cardinality(V)) + 1 = n + Cardinality(U)
    BY <2>1
  <2>8. LatencyInv(g[U], n + Cardinality(U))
    BY <2>4, <2>6, <2>7
  <2>9. QED
    BY <2>4, <2>8
<1> HIDE DEF P
<1>12. D \in P
  <2>1. IsFiniteSet(D)
    BY <1>1
  <2>2. \A U \in SUBSET D : U \in P
    BY <1>10, <1>11, <2>1, SubsetInduction
  <2>3. QED
    BY <2>2
<1>13. h[D] = g[D] /\ LatencyInv(g[D], n + Cardinality(D)) /\ g[D] \in Latencies
  BY <1>12 DEF P
<1>14. QED
  BY <1>1, <1>2, <1>13

\* Only the latency build measures, and only when the stage has run.
LEMMA NotMeasured ==
  ASSUME SplitAll, [Next]_vars, ~Exec
  PROVE  lat' = lat /\ Timed' = Timed
<1>1. tx \in [Queues -> Count] /\ 0 \in Queues /\ 0 \notin Workers
  BY QueuesAre DEF SplitAll, StatsTypes
<1>2. CASE StartMeili \/ StartRemote \/ StartBaseline \/ Quit \/ Leave \/ Receive
  BY <1>2 DEF StartMeili, StartRemote, StartBaseline, LookUpPorts, Quit, Leave, Receive,
              statVars, Timed
<1>3. CASE Collect
  BY <1>3 DEF Collect, Timed
<1>4. CASE \E w \in Workers : PassOn(w) \/ CountBytes(w) \/ CountPackets(w)
  <2>1. PICK w \in Workers : PassOn(w) \/ CountBytes(w) \/ CountPackets(w)
    BY <1>4
  <2>2. lat' = lat /\ variant' = variant
    BY <2>1 DEF PassOn, CountBytes, CountPackets, statVars
  <2>3. tx'[0] = tx[0]
    BY <1>1, <2>1 DEF PassOn, CountBytes, CountPackets, statVars
  <2>4. QED
    BY <2>2, <2>3 DEF Timed
<1>5. CASE Poll
  BY <1>5 DEF Poll, Timed
<1>6. CASE Send \/ Release \/ UNCHANGED vars
  BY <1>6 DEF Send, Release, vars, statVars, Timed
<1>7. CASE PrintSplit \/ PrintStep \/ EndPrint
  BY <1>7 DEF PrintSplit, PrintStep, EndPrint, BeginPrint, PrintRead, PrintStore, Timed
<1>8. QED
  BY <1>2, <1>3, <1>4, <1>5, <1>6, <1>7 DEF Next

\* The packets of a chunk are measured and counted.
LEMMA ExecMeasured ==
  ASSUME HandedInv, SplitAll, LatInv, Exec
  PROVE  LatInv'
<1>1. tx \in [Queues -> Count] /\ 0 \in Queues
  BY QueuesAre DEF SplitAll, StatsTypes
<1>2. tx[0].cnt \in Nat
  BY <1>1 DEF Count
<1>3. CASE variant # "latency"
  BY <1>3 DEF Exec, LatInv, Timed
<1>4. CASE variant = "latency"
  <2> DEFINE chunk == NextChunk
  <2>1. chunk \in Seq(Nat) /\ Len(chunk) \in Nat
    <3>1. batch \in Seq(Nat) /\ waitEnq \in Nat /\ waitEnq <= Len(batch) /\ Len(batch) \in Nat
      BY DEF HandedInv, BurstTypes, BurstInv
    <3>2. SmallerOf(BatchIn, waitEnq) \in 0 .. Len(batch)
      BY <3>1, ParametersAre DEF SmallerOf
    <3>3. QED
      BY <3>1, <3>2, PrefixIs DEF NextChunk
  <2>2. PICK diffs \in [1 .. Len(chunk) -> 0 .. MaxLatency], kept \in BOOLEAN :
               lat' = FoldSeq(LAMBDA diff, l : Sampled(l, diff, kept), lat, diffs)
    BY <1>4, Zenon DEF Exec
  <2>4. variant' = "latency" /\ tx' = [tx EXCEPT ![0] = Plus(@, [cnt |-> Len(chunk), bytes |-> Len(chunk)])]
    BY <1>4 DEF Exec, Counted
  <2> HIDE DEF chunk
  <2>3. diffs \in Seq(Nat) /\ Len(diffs) = Len(chunk)
    <3>1. 0 .. MaxLatency \subseteq Nat
      BY ParametersAre
    <3>2. diffs \in [1 .. Len(chunk) -> Nat]
      BY <3>1
    <3>3. QED
      BY <2>1, <3>2
  <2>5. tx'[0].cnt = tx[0].cnt + Len(chunk)
    BY <1>1, <2>4 DEF Plus
  <2>6. Timed = tx[0].cnt /\ Timed' = tx[0].cnt + Len(chunk)
    BY <1>4, <2>4, <2>5 DEF Timed
  <2>7. lat \in Latencies /\ LatencyInv(lat, tx[0].cnt)
    BY <2>6 DEF LatInv
  <2>8. /\ lat' \in Latencies
        /\ LatencyInv(lat', tx[0].cnt + Len(chunk))
    <3>1. /\ Measured(lat, diffs, kept) \in Latencies
          /\ LatencyInv(Measured(lat, diffs, kept), tx[0].cnt + Len(diffs))
      BY <1>2, <2>3, <2>7, ChunkSampled
    <3>2. lat' = Measured(lat, diffs, kept)
      BY <2>2, Zenon DEF Measured
    <3>3. Len(diffs) = Len(chunk)
      BY <2>3
    <3>4. QED
      BY <3>1, <3>2, <3>3, Zenon
  <2>9. lat' \in Latencies /\ LatencyInv(lat', Timed')
    BY <2>6, <2>8
  <2>10. QED
    BY <2>9 DEF LatInv
<1>5. QED
  BY <1>3, <1>4

\* So they are after every step.
LEMMA LatStep == HandedInv /\ SplitAll /\ LatInv /\ [Next]_vars => LatInv'
<1> SUFFICES ASSUME HandedInv, SplitAll, LatInv, [Next]_vars PROVE LatInv'
  OBVIOUS
<1>1. CASE ~Exec
  <2>1. lat' = lat /\ Timed' = Timed
    BY <1>1, NotMeasured
  <2>2. QED
    BY <2>1 DEF LatInv
<1>2. CASE Exec
  BY <1>2, ExecMeasured
<1>3. QED
  BY <1>1, <1>2

\* At first nothing is measured.
LEMMA LatFirst == Init => LatInv
<1> SUFFICES ASSUME Init PROVE LatInv
  OBVIOUS
<1>1. lat = [nb |-> 0, samples |-> [i \in 0 .. NbSamples - 1 |-> Unset],
             tot |-> 0, min |-> Unset, max |-> 0]
  BY DEF Init, StatsInit
<1>2. tx = [q \in Queues |-> Zero] /\ 0 \in Queues
  BY QueuesAre DEF Init, StatsInit
<1>3. Timed = 0
  BY <1>2 DEF Timed, Zero
<1>4. lat \in Latencies
  BY <1>1 DEF Latencies, Unset
<1>5. /\ lat.nb = 0 /\ lat.tot = 0 /\ lat.min = Unset /\ lat.max = 0
      /\ \A i \in 0 .. NbSamples - 1 : lat.samples[i] = Unset
  BY <1>1
<1>6. 0 < NbSamples /\ \A i \in 0 .. 0 - 1 : FALSE
  BY ParametersAre
<1>7. LatencyInv(lat, 0)
  BY <1>5, <1>6 DEF LatencyInv
<1>8. QED
  BY <1>3, <1>4, <1>7 DEF LatInv

\* For every size of the array of samples and width of an int: although the last index
\* is behind the end of the array, only latencies that were measured are listed as long as
\* the count is not negative, which it is not while the latencies and the packets are
\* small; and the mean that is printed lies between the extremes.
THEOREM LatenciesConsistent == Spec => []LatencyConsistent
<1>1. SplitAll /\ LatInv => LatencyConsistent
  <2> SUFFICES ASSUME SplitAll, LatInv PROVE LatencyConsistent
    OBVIOUS
  <2> DEFINE n == IF lat.nb < NbSamples THEN lat.nb ELSE NbSamples
  <2>1. /\ lat.nb \in Int /\ lat.tot \in Nat /\ lat.min \in Int /\ lat.max \in Nat
        /\ NbSamples \in Nat \ {0}
    BY ParametersAre DEF LatInv, Latencies
  <2>2. tx[0].cnt \in Nat
    BY QueuesAre DEF SplitAll, StatsTypes, Count
  <2>3. \A i \in 0 .. n - 1 : i \in 0 .. NbSamples - 1 /\ (lat.nb < NbSamples => i \in 0 .. lat.nb - 1)
    BY <2>1
  <2>4. \A i \in 0 .. n - 1 : lat.samples[i] # Unset
    <3>1. \/ \A i \in 0 .. NbSamples - 1 : lat.samples[i] # Unset
          \/ lat.nb < NbSamples /\ \A i \in 0 .. lat.nb - 1 : lat.samples[i] # Unset
      BY DEF LatInv, LatencyInv
    <3>2. QED
      BY <2>3, <3>1
  <2>b. lat.max + tx[0].cnt < IntHalf => 0 <= lat.nb
    <3> SUFFICES ASSUME lat.max + tx[0].cnt < IntHalf PROVE 0 <= lat.nb
      OBVIOUS
    <3>1. Timed \in Nat /\ Timed <= tx[0].cnt
      BY <2>2 DEF Timed
    <3>2. lat.max + Timed < IntHalf
      <4> DEFINE a == lat.max
                 c == tx[0].cnt
      <4>1. a \in Nat /\ c \in Nat /\ IntHalf \in Nat /\ a + c < IntHalf
        BY <2>1, <2>2, ParametersAre
      <4> HIDE DEF a, c
      <4>2. \A k \in Nat : k <= c => a + k < IntHalf
        BY ONLY <4>1
      <4>3. QED
        BY <3>1, <4>2 DEF a, c
    <3>3. QED
      BY <3>2 DEF LatInv, LatencyInv
  <2>5. \A i \in 0 .. n - 1 : lat.min <= lat.samples[i] /\ lat.samples[i] <= lat.max
    BY <2>3, <2>4 DEF LatInv, LatencyInv
  <2>6. ASSUME variant = "latency"
        PROVE  tx[0].cnt * lat.min <= lat.tot /\ lat.tot <= tx[0].cnt * lat.max
    <3>1. LatencyInv(lat, tx[0].cnt)
      BY <2>6 DEF LatInv, Timed
    <3>2. CASE tx[0].cnt = 0
      <4>1. lat.tot = 0
        BY <3>1, <3>2 DEF LatencyInv
      <4>2. tx[0].cnt * lat.min = 0 /\ tx[0].cnt * lat.max = 0
        BY <2>1, <3>2
      <4>3. QED
        BY <4>1, <4>2
    <3>3. CASE tx[0].cnt # 0
      BY <3>1, <3>3 DEF LatencyInv
    <3>4. QED
      BY <3>2, <3>3
  <2>7. \A l \in Listed(lat) : \E i \in 0 .. n - 1 : l = lat.samples[i]
    BY DEF Listed
  <2> HIDE DEF n
  <2>8. \A l \in Listed(lat) : l # Unset /\ lat.min <= l /\ l <= lat.max
    BY <2>4, <2>5, <2>7
  <2>9. QED
    BY <2>1, <2>6, <2>8, <2>b DEF LatencyConsistent
<1>2. HandedInv /\ SplitAll /\ CountAll /\ [Next]_vars => SplitAll' /\ CountAll'
  BY CountsStep
<1>3. QED
  BY <1>1, <1>2, CountsFirst, HandedFirst, HandedStep, LatFirst, LatStep, PTL DEF Spec

===============================================================================
