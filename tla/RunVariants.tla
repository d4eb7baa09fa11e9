---------------------------- MODULE RunVariants ----------------------------
(***************************************************************************)
(* The loops of main that the build can choose from, and what they count:  *)
(*   "meili"     workers behind rings, as DataPlane models them; here it   *)
(*               matters when a packet is counted and when its mbuf is     *)
(*               freed and used again;                                     *)
(*   "transmit"  the same, sending what is collected back to the port;     *)
(*   "remote"    every burst goes back to the port at once;                *)
(*   "baseline"  main runs the stage itself, chunk by chunk in the latency *)
(*               build ("latency").                                        *)
(* In the last four, packets are numbered in the order of their arrival.   *)
(***************************************************************************)
EXTENDS Statistics

CONSTANTS
  Mbufs,       \* mbufs of the pool
  MaxLength,   \* bound: packets are 1 .. MaxLength bytes long
  MaxPkts,     \* bound: packets received
  EthBatch,    \* DEFAULT_ETH_BATCH_SIZE
  BatchIn,     \* batch_size_in, the configured batch size
  MaxLatency   \* bound: latency of a packet

ASSUME RunVariantsAssumption ==
  /\ \A n \in {MaxLength, EthBatch, BatchIn, MaxLatency} : n \in Nat \ {0}
  /\ MaxPkts \in Nat /\ IsFiniteSet(Mbufs)

VARIABLES
  variant,
  pc,         \* where main is
  quit,       \* force_quit, or the time limit as main last saw it
  received,   \* rx_buf_cnt
  mbuf,       \* of each mbuf: the place it is in, the worker it went to, the length it holds
  counting,   \* of each worker: the packets it has passed on and not yet counted, and which counter is next
  passed,     \* history: what each lcore really passed on
  stale,      \* history: workers one of whose packets was gone before they counted it
  batch,      \* mbuf_in or mbuf_out
  nbOut,      \* tot_enq, tot_tx: packets of the batch that the port has taken
  waitEnq,    \* batch_cnt_wait_on_enq
  sent,       \* history: packets in the order in which the port took them
  freed,      \* history: packets in the order in which main freed them
  short,      \* history: the port took only part of what it was offered
  outgrown    \* history: a burst was larger than batch_size_in

mbufVars == <<mbuf, counting, passed, stale>>
burstVars == <<batch, nbOut, waitEnq, sent, freed, short, outgrown>>
vars == <<variant, pc, quit, received, mbufVars, burstVars, statVars>>

Workers == Queues \ {0}
Idle == [pkts |-> {}, bytes |-> FALSE]
InPlace(place, w) == {m \in Mbufs : mbuf[m].place = place /\ mbuf[m].worker = w}
SmallerOf(a, b) == IF a < b THEN a ELSE b
Bytes(set, lengths) == MapThenSumSet(LAMBDA m : lengths[m].len, set)

Init ==
  /\ variant \in {"meili", "transmit", "remote", "baseline", "latency"}
  /\ pc = "start" /\ quit = FALSE /\ received = 0
  /\ mbuf = [m \in Mbufs |-> [place |-> "pool", worker |-> 0, len |-> 1]]
  /\ counting = [w \in Workers |-> Idle]
  /\ passed = [q \in Queues |-> Zero] /\ stale = {}
  /\ batch = <<>> /\ nbOut = 0 /\ waitEnq = 0 /\ sent = <<>> /\ freed = <<>>
  /\ short = FALSE /\ outgrown = FALSE
  /\ StatsInit

\* run_dpdk, in the version that is built, looks the ports up before its loop; main is
\* not in the loop if it cannot.
LookUpPorts(variants) ==
  /\ pc = "start" /\ variant \in variants
  /\ pc' \in {"poll", "wait"}
  /\ UNCHANGED <<variant, quit, received, mbufVars, burstVars, statVars>>

StartMeili == LookUpPorts({"meili", "transmit"})
StartRemote == LookUpPorts({"remote"})
StartBaseline == LookUpPorts({"baseline", "latency"})

\* A signal, or the time limit, noticed in the loop condition.
Quit ==
  /\ ~quit /\ quit' = TRUE
  /\ UNCHANGED <<variant, pc, received, mbufVars, burstVars, statVars>>

Leave ==
  /\ pc = "poll" /\ printing = Nothing /\ quit
  /\ pc' = "wait"
  /\ UNCHANGED <<variant, quit, received, mbufVars, burstVars, statVars>>

-----------------------------------------------------------------------------
(* meili: counting while the packets move on                               *)

\* A burst arrives and is dealt to a worker.
Receive ==
  /\ variant = "meili" /\ pc = "poll" /\ printing = Nothing /\ ~quit
  /\ \E w \in Workers, set \in SUBSET {m \in Mbufs : mbuf[m].place = "pool"},
        len \in 1 .. MaxLength :
       /\ Cardinality(set) \in 1 .. SmallerOf(EthBatch, MaxPkts - received)
       /\ received' = received + Cardinality(set)
       /\ mbuf' = [m \in Mbufs |->
                     IF m \in set THEN [place |-> "in", worker |-> w, len |-> len]
                     ELSE mbuf[m]]
       /\ stale' = stale \cup
            {v \in Workers : ~counting[v].bytes /\ counting[v].pkts \cap set # {}}
  /\ UNCHANGED <<variant, pc, quit, counting, passed, burstVars, statVars>>

\* A worker passes on packets of its ring; from then on main may have them.
PassOn(w) ==
  /\ pc # "done" /\ counting[w] = Idle
  /\ \E set \in SUBSET InPlace("in", w) :
       /\ set # {}
       /\ mbuf' = [m \in Mbufs |-> IF m \in set THEN [mbuf[m] EXCEPT !.place = "out"]
                                    ELSE mbuf[m]]
       /\ counting' = [counting EXCEPT ![w] = [pkts |-> set, bytes |-> FALSE]]
       /\ passed' = [passed EXCEPT ![w] =
                       Plus(@, [cnt |-> Cardinality(set), bytes |-> Bytes(set, mbuf)])]
  /\ UNCHANGED <<variant, pc, quit, received, stale, burstVars, statVars>>

\* Then it reads their lengths, whoever has them now, and then it counts them.
CountBytes(w) ==
  /\ counting[w].pkts # {} /\ ~counting[w].bytes
  /\ tx' = [tx EXCEPT ![w].bytes = @ + Bytes(counting[w].pkts, mbuf)]
  /\ counting' = [counting EXCEPT ![w].bytes = TRUE]
  /\ UNCHANGED <<variant, pc, quit, received, mbuf, passed, stale, burstVars, printVars, lat>>
CountPackets(w) ==
  /\ counting[w].bytes
  /\ tx' = [tx EXCEPT ![w].cnt = @ + Cardinality(counting[w].pkts)]
  /\ counting' = [counting EXCEPT ![w] = Idle]
  /\ UNCHANGED <<variant, pc, quit, received, mbuf, passed, stale, burstVars, printVars, lat>>

\* Main collects, counts and frees.
Collect ==
  /\ variant = "meili" /\ pc = "poll" /\ printing = Nothing
  /\ \E w \in Workers :
       LET set == InPlace("out", w)
           n == [cnt |-> Cardinality(set), bytes |-> Bytes(set, mbuf)]
       IN /\ set # {}
          /\ tx' = [tx EXCEPT ![0] = Plus(@, n)]
          /\ passed' = [passed EXCEPT ![0] = Plus(@, n)]
          /\ mbuf' = [m \in Mbufs |-> IF m \in set THEN [mbuf[m] EXCEPT !.place = "pool"]
                                       ELSE mbuf[m]]
  /\ UNCHANGED <<variant, pc, quit, received, counting, stale, burstVars, printVars, lat>>

-----------------------------------------------------------------------------
(* transmit, remote and baseline: one burst at a time                      *)

Counted(n) ==
  /\ tx' = [tx EXCEPT ![0] = Plus(@, [cnt |-> n, bytes |-> n])]
  /\ passed' = [passed EXCEPT ![0] = Plus(@, [cnt |-> n, bytes |-> n])]

\* A burst; an idle poll changes nothing.
Poll ==
  /\ variant # "meili" /\ pc = "poll" /\ printing = Nothing /\ ~quit
  /\ \E n \in 1 .. SmallerOf(EthBatch, MaxPkts - received) :
       /\ batch' = [i \in 1 .. n |-> received + i]
       /\ received' = received + n
       /\ waitEnq' = n
       /\ outgrown' = (outgrown \/ n > BatchIn)
       /\ IF variant \in {"transmit", "remote"} THEN pc' = "send" /\ Counted(n)
          ELSE pc' = "exec" /\ UNCHANGED <<tx, passed>>
  /\ nbOut' = 0
  /\ UNCHANGED <<variant, quit, mbuf, counting, stale, sent, freed, short, printVars, lat>>

OfferedBug == SubSeq(batch, 1, Len(batch) - nbOut)

\* What is offered to the port: the rest of the burst; the loop of "transmit" offers
\* as many packets from the start of the burst.
Offered ==
  IF variant = "transmit" THEN SubSeq(batch, 1, Len(batch) - nbOut)
  ELSE SubSeq(batch, nbOut + 1, Len(batch))

\* A turn of the loop around rte_eth_tx_burst, which does not look at force_quit.
Send ==
  /\ pc = "send" /\ nbOut < Len(batch)
  /\ \E k \in 1 .. Len(batch) - nbOut :
       /\ sent' = sent \o SubSeq(Offered, 1, k)
       /\ nbOut' = nbOut + k
       /\ short' = (short \/ k < Len(Offered))
  /\ UNCHANGED <<variant, pc, quit, received, mbufVars, batch, waitEnq, freed, outgrown, statVars>>

\* All sent: main frees the packets, though the port has them.
Release ==
  /\ pc = "send" /\ nbOut = Len(batch)
  /\ freed' = freed \o batch
  /\ pc' = "poll"
  /\ UNCHANGED <<variant, quit, received, mbufVars, batch, nbOut, waitEnq, sent, short,
                 outgrown, statVars>>

\* batch_cnt_tot_enq stays zero, because nb_enq is cleared before it is added.
NextChunk == SubSeq(batch, 1, SmallerOf(BatchIn, waitEnq))

\* The stage runs on a chunk, which is timed, counted and freed.  Only the latency
\* build goes on with the rest of the burst.
Exec ==
  /\ pc = "exec"
  /\ LET chunk == NextChunk
     IN /\ freed' = freed \o chunk
        /\ Counted(Len(chunk))
        /\ waitEnq' = waitEnq - Len(chunk)
        /\ IF variant = "latency"
           THEN \E diffs \in [1 .. Len(chunk) -> 0 .. MaxLatency], kept \in BOOLEAN :
                  lat' = FoldSeq(LAMBDA diff, l : Sampled(l, diff, kept), lat, diffs)
           ELSE UNCHANGED lat
  /\ pc' = IF variant = "latency" /\ waitEnq' > 0 THEN "exec" ELSE "poll"
  /\ UNCHANGED <<variant, quit, received, mbuf, counting, stale, batch, nbOut, sent, short,
                 outgrown, printVars>>

-----------------------------------------------------------------------------
(* Printing, and the end                                                   *)

PrintSplit ==
  /\ pc = "poll" /\ received > 0 /\ BeginPrint(FALSE)
  /\ UNCHANGED <<variant, pc, quit, received, mbufVars, burstVars>>

PrintStep ==
  /\ PrintRead \/ PrintStore
  /\ UNCHANGED <<variant, pc, quit, received, mbufVars, burstVars>>

WaitBug == pc = "wait" /\ printing = Nothing

\* pipeline_run waits for all lcores, which leave at the head of their loops.
Wait == pc = "wait" /\ printing = Nothing /\ \A w \in Workers : counting[w] = Idle

EndPrint ==
  /\ Wait
  /\ BeginPrint(TRUE)
  /\ pc' = "done"
  /\ UNCHANGED <<variant, quit, received, mbufVars, burstVars>>

Next ==
  \/ StartMeili \/ StartRemote \/ StartBaseline \/ Quit \/ Leave
  \/ Receive \/ Collect
  \/ \E w \in Workers : PassOn(w) \/ CountBytes(w) \/ CountPackets(w)
  \/ Poll \/ Send \/ Release \/ Exec
  \/ PrintSplit \/ PrintStep \/ EndPrint

Spec == Init /\ [][Next]_vars

-----------------------------------------------------------------------------

(* The counters are unsigned and a rate is a difference of two of them, taken
   while a worker counts: no entry remembers more than is counted, so no rate
   wraps round, and no packet is in two of the printed rates.  A rate may miss
   packets that came between its two reads, but main's own never does. *)
SplitsDisjoint ==
  /\ \A q \in Queues : AtMost(shown[q], split[q]) \/ (printing # Nothing /\ q = Head(printing.todo))
  /\ \A q \in Queues : AtMost(split[q], tx[q]) /\ AtMost(shown[q], tx[q])
  /\ printing = Nothing => shown[0] = split[0]

(* Main prints the last time when every worker has counted all that it passed on:
   the totals are exact for every lcore.  Only the bytes of a worker may be wrong, when
   main had freed a packet and the port had refilled it before the worker read its
   length. *)
CountsExact ==
  pc = "done" /\ printing = Nothing =>
    \A q \in Queues : /\ total[q].cnt = passed[q].cnt
                      /\ q \notin stale => total[q].bytes = passed[q].bytes

(* The array of samples is one entry too short for the index that is computed, so that
   nb_sampled is overwritten with a latency, in a build that does not keep it.  Still, as
   long as the count is not negative, only latencies that were measured are listed; and
   it is not negative while the latencies and the packets stay below 2^31.  The mean over
   tx_buf_cnt lies between the extremes in any case. *)
LatencyConsistent ==
  /\ lat.nb >= 0 => /\ Unset \notin Listed(lat)
                    /\ \A l \in Listed(lat) : lat.min <= l /\ l <= lat.max
  /\ lat.max + tx[0].cnt < IntHalf => lat.nb >= 0
  /\ variant = "latency" => tx[0].cnt * lat.min <= lat.tot /\ lat.tot <= tx[0].cnt * lat.max

(* What main has received it hands over once and in order when it polls again,
   however the port takes it in pieces, except where a loop starts over: "transmit"
   when the port takes a burst in pieces, the baselines when a burst is larger
   than the batch size. *)
HandedOverOnce ==
  pc = "poll" =>
    /\ variant = "remote" \/ (variant = "transmit" /\ ~short) =>
         sent = [i \in 1 .. received |-> i]
    /\ variant \in {"baseline", "latency"} /\ ~outgrown =>
         freed = [i \in 1 .. received |-> i]
    /\ variant = "baseline" => IsInjective(freed)

=============================================================================
