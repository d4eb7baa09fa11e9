------------------------------ MODULE DataPlane ------------------------------
(***************************************************************************)
(* The packet data plane of Meili: the main lcore (run_dpdk and the run    *)
(* around it, pipeline_run) receives bursts from the Ethernet port, numbers*)
(* the packets and deals them out, a chunk at a time, to the instances of  *)
(* the single pipeline stage; each instance is a worker lcore that moves   *)
(* packets from its ring_in to its ring_out; the main lcore collects them  *)
(* from the ring_outs, counts them and frees them.  The rings are DPDK     *)
(* single-producer single-consumer FIFO rings.                             *)
(*                                                                         *)
(* An mbuf is represented by the sequence number seq_exec writes into it.  *)
(* A spin loop that finds no room, and the poll of an idle port with       *)
(* nothing in flight (`continue'), change no state: they are stuttering    *)
(* steps of this specification.                                            *)
(***************************************************************************)
EXTENDS Integers, Sequences, FiniteSets

CONSTANTS
  NbInst,      \* instances of the stage: cores - 1, one worker lcore each
  RingCap,     \* packets a ring holds (RING_SIZE - 1)
  EthBatch,    \* most packets one rx burst returns (DEFAULT_ETH_BATCH_SIZE)
  BatchIn,     \* most packets of a chunk (input_batches)
  BatchOut,    \* most packets main takes from a ring_out (MAX_PKTS_BURST)
  WorkerBurst, \* most packets a worker takes at once (DEFAULT_BATCH_SIZE)
  HasLimit,    \* is a run duration configured (max_cycles # 0)?
  MaxPkts      \* bound: packets the port ever delivers

(***************************************************************************)
(* The sizes compiled in and accepted by conf_validate: batches of at      *)
(* least one packet, a collecting burst as large as a ring, and rings that *)
(* dwarf the two batches (8191 against 64 + 1024).                         *)
(***************************************************************************)
ASSUME SizesAssumption ==
  /\ NbInst \in Nat \ {0}
  /\ RingCap \in Nat \ {0}
  /\ EthBatch \in Nat \ {0}
  /\ BatchIn \in Nat \ {0}
  /\ BatchOut \in Nat
  /\ WorkerBurst \in Nat \ {0}
  /\ HasLimit \in BOOLEAN
  /\ MaxPkts \in Nat
  /\ BatchOut >= RingCap
  /\ WorkerBurst + BatchIn <= RingCap + 1

Inst == 0 .. NbInst - 1

VARIABLES
  main_pc,           \* where the main lcore is
  force_quit,        \* set by the signal handler
  running,           \* run_conf->running
  time_up,           \* has the configured duration passed?
  cycles_over,       \* main's last sample of the clock: cycles > max_cycles
  rx_held,           \* mbufs of the last rx burst not dealt out yet
  wait_on_enq,       \* batch_cnt_wait_on_enq
  batch_cnt_enq,     \* packets of the current chunk
  wait_on_deq,       \* batch_cnt_wait_on_deq, packets believed in flight
  chunk,             \* rest of the current chunk, to enqueue
  seqn,              \* packets numbered so far (seq_stage state)
  ring_in,           \* per instance
  ring_out,          \* per instance
  ring_in_index,     \* instance that gets the next chunk
  ring_out_index,    \* instance collected from next (also in post_search)
  worker_pc,         \* where each worker lcore is
  mbufs_out,         \* per worker, processed and not yet in ring_out
  sent,              \* history: packets counted and freed, in order
  flushed,           \* history: packets freed by pipeline_post_search
  leaked             \* history: packets given up in the middle of a chunk

runVars == <<running, cycles_over>>
dealVars == <<rx_held, wait_on_enq, batch_cnt_enq, chunk, seqn, ring_in_index>>
histVars == <<sent, flushed, leaked>>
workerVars == <<worker_pc, mbufs_out>>
envVars == <<force_quit, time_up>>
vars == <<main_pc, runVars, dealVars, wait_on_deq, ring_out_index, histVars,
          workerVars, envVars, ring_in, ring_out>>

Lesser(a, b) == IF a <= b THEN a ELSE b
Greater(a, b) == IF a >= b THEN a ELSE b
Take(s, n) == SubSeq(s, 1, n)
Drop(s, n) == SubSeq(s, n + 1, Len(s))
NextInst(i) == (i + 1) % NbInst

\* Operators whose name ends in Bug are variants with a plausible error, put in
\* the place of the operator after them to see that a property notices.
RoomBug(ring) == RingCap + 1 - Len(ring)

Room(ring) == RingCap - Len(ring)

-----------------------------------------------------------------------------
(* The life of the run: pipeline_run around the main loop.                 *)

Init ==
  /\ main_pc = "launch"
  /\ force_quit = FALSE
  /\ running = TRUE
  /\ time_up = FALSE
  /\ cycles_over = FALSE
  /\ rx_held = 0
  /\ wait_on_enq = 0
  /\ batch_cnt_enq = 0
  /\ wait_on_deq = 0
  /\ chunk = <<>>
  /\ seqn = 0
  /\ ring_in = [w \in Inst |-> <<>>]
  /\ ring_out = [w \in Inst |-> <<>>]
  /\ ring_in_index = 0
  /\ ring_out_index = 0
  /\ worker_pc = [w \in Inst |-> "idle"]
  /\ mbufs_out = [w \in Inst |-> <<>>]
  /\ sent = <<>>
  /\ flushed = <<>>
  /\ leaked = <<>>

\* The workers are launched in the order of their instances.
Launch(w) ==
  /\ main_pc = "launch"
  /\ worker_pc[w] = "idle"
  /\ \A v \in Inst : v < w => worker_pc[v] # "idle"
  /\ worker_pc' = [worker_pc EXCEPT ![w] = "head"]
  /\ UNCHANGED <<main_pc, runVars, dealVars, wait_on_deq, ring_out_index,
                 histVars, mbufs_out, envVars, ring_in, ring_out>>

StartMain ==
  /\ main_pc = "launch"
  /\ \A w \in Inst : worker_pc[w] # "idle"
  /\ main_pc' = "poll"
  /\ UNCHANGED <<runVars, dealVars, wait_on_deq, ring_out_index, histVars,
                 workerVars, envVars, ring_in, ring_out>>

\* The loop is over: workers are told, post_search starts at ring_out 0.
ToPostRun ==
  /\ main_pc' = "post"
  /\ running' = FALSE
  /\ ring_out_index' = 0
  /\ UNCHANGED <<cycles_over, dealVars, wait_on_deq, histVars, workerVars,
                 envVars, ring_in, ring_out>>

\* A lcore that cannot be launched, or a port run_dpdk does not find.
StartFails == main_pc = "launch" /\ ToPostRun

\* The outer loop ends on a signal or once the sampled clock is past the limit.
LeaveLoop == main_pc = "poll" /\ (force_quit \/ cycles_over) /\ ToPostRun

\* pipeline_post_search drains the ring_outs in turn, until it meets an empty one.
PostSearch ==
  /\ main_pc = "post"
  /\ LET n == Lesser(BatchIn, Len(ring_out[ring_out_index]))
     IN /\ flushed' = flushed \o Take(ring_out[ring_out_index], n)
        /\ ring_out' = [ring_out EXCEPT ![ring_out_index] = Drop(@, n)]
        /\ main_pc' = IF n = 0 THEN "wait" ELSE "post"
  /\ ring_out_index' = NextInst(ring_out_index)
  /\ UNCHANGED <<runVars, dealVars, wait_on_deq, sent, leaked, workerVars,
                 envVars, ring_in>>

\* rte_eal_wait_lcore on every worker lcore.
WaitWorkers ==
  /\ main_pc = "wait"
  /\ \A w \in Inst : worker_pc[w] \in {"idle", "exit"}
  /\ main_pc' = "done"
  /\ UNCHANGED <<runVars, dealVars, wait_on_deq, ring_out_index, histVars,
                 workerVars, envVars, ring_in, ring_out>>

-----------------------------------------------------------------------------
(* The main lcore inside the loop: run_dpdk.                               *)

\* rte_eth_rx_burst returned n packets.
Receive(n) ==
  /\ main_pc = "poll" /\ ~force_quit /\ ~cycles_over
  /\ seqn + n <= MaxPkts
  /\ rx_held' = n
  /\ wait_on_enq' = n
  /\ main_pc' = "inner"
  /\ UNCHANGED <<runVars, batch_cnt_enq, chunk, seqn, ring_in_index,
                 wait_on_deq, ring_out_index, histVars, workerVars, envVars,
                 ring_in, ring_out>>

PollIdleBug ==
  /\ main_pc = "poll" /\ ~force_quit /\ ~cycles_over
  /\ wait_on_deq > BatchIn
  /\ main_pc' = "deq"
  /\ UNCHANGED <<runVars, dealVars, wait_on_deq, ring_out_index, histVars,
                 workerVars, envVars, ring_in, ring_out>>

\* The port is idle but packets are in flight: goto aggregate_packets, into the
\* middle of the inner loop.
PollIdle ==
  /\ main_pc = "poll" /\ ~force_quit /\ ~cycles_over
  /\ wait_on_deq > 0
  /\ main_pc' = "deq"
  /\ UNCHANGED <<runVars, dealVars, wait_on_deq, ring_out_index, histVars,
                 workerVars, envVars, ring_in, ring_out>>

ChunkSizeBug == BatchIn

\* batch_cnt_enq: the port may have delivered less than a chunk.
ChunkSize == Lesser(BatchIn, wait_on_enq)

TakeChunkBug ==
  /\ main_pc = "inner" /\ ~force_quit
  /\ wait_on_enq > 0
  /\ batch_cnt_enq' = ChunkSize
  /\ wait_on_deq' = wait_on_deq + BatchIn
  /\ chunk' = [k \in 1 .. ChunkSize |-> seqn + k]
  /\ seqn' = seqn + ChunkSize
  /\ rx_held' = rx_held - ChunkSize
  /\ main_pc' = "enq"
  /\ UNCHANGED <<runVars, wait_on_enq, ring_in_index, ring_out_index, histVars,
                 workerVars, envVars, ring_in, ring_out>>

\* seq_exec numbers the next chunk, which is from now on counted as in flight.
TakeChunk ==
  /\ main_pc = "inner" /\ ~force_quit
  /\ wait_on_enq > 0
  /\ batch_cnt_enq' = ChunkSize
  /\ wait_on_deq' = wait_on_deq + ChunkSize
  /\ chunk' = [k \in 1 .. ChunkSize |-> seqn + k]
  /\ seqn' = seqn + ChunkSize
  /\ rx_held' = rx_held - ChunkSize
  /\ main_pc' = "enq"
  /\ UNCHANGED <<runVars, wait_on_enq, ring_in_index, ring_out_index, histVars,
                 workerVars, envVars, ring_in, ring_out>>

EnqueueOnceBug ==
  /\ main_pc = "enq" /\ ~force_quit
  /\ LET n == Lesser(Len(chunk), Room(ring_in[ring_in_index]))
     IN /\ n > 0
        /\ ring_in' = [ring_in EXCEPT ![ring_in_index] = @ \o Take(chunk, n)]
        /\ chunk' = <<>>
  /\ UNCHANGED <<main_pc, runVars, rx_held, wait_on_enq, batch_cnt_enq, seqn,
                 ring_in_index, wait_on_deq, ring_out_index, histVars,
                 workerVars, envVars, ring_out>>

EnqueueOffsetBug ==
  /\ main_pc = "enq" /\ ~force_quit
  /\ LET n == Lesser(Len(chunk), Room(ring_in[ring_in_index]))
     IN /\ n > 0
        /\ ring_in' = [ring_in EXCEPT ![ring_in_index] = @ \o Take(chunk, n)]
        /\ chunk' = Take(chunk, Len(chunk) - n)
  /\ UNCHANGED <<main_pc, runVars, rx_held, wait_on_enq, batch_cnt_enq, seqn,
                 ring_in_index, wait_on_deq, ring_out_index, histVars,
                 workerVars, envVars, ring_out>>

\* One rte_ring_enqueue_burst of the spin loop that found room.
Enqueue ==
  /\ main_pc = "enq" /\ ~force_quit
  /\ LET n == Lesser(Len(chunk), Room(ring_in[ring_in_index]))
     IN /\ n > 0
        /\ ring_in' = [ring_in EXCEPT ![ring_in_index] = @ \o Take(chunk, n)]
        /\ chunk' = Drop(chunk, n)
  /\ UNCHANGED <<main_pc, runVars, rx_held, wait_on_enq, batch_cnt_enq, seqn,
                 ring_in_index, wait_on_deq, ring_out_index, histVars,
                 workerVars, envVars, ring_out>>

EndEnqueueSpinBug ==
  /\ main_pc = "enq"
  /\ chunk = <<>>
  /\ leaked' = leaked \o chunk
  /\ chunk' = <<>>
  /\ ring_in_index' = NextInst(ring_in_index)
  /\ main_pc' = "deq"
  /\ UNCHANGED <<runVars, rx_held, wait_on_enq, batch_cnt_enq, seqn,
                 wait_on_deq, ring_out_index, sent, flushed, workerVars,
                 envVars, ring_in, ring_out>>

EndEnqueueIndexBug ==
  /\ main_pc = "enq"
  /\ chunk = <<>> \/ force_quit
  /\ leaked' = leaked \o chunk
  /\ chunk' = <<>>
  /\ ring_in_index' = ring_in_index
  /\ main_pc' = "deq"
  /\ UNCHANGED <<runVars, rx_held, wait_on_enq, batch_cnt_enq, seqn,
                 wait_on_deq, ring_out_index, sent, flushed, workerVars,
                 envVars, ring_in, ring_out>>

\* The spin loop ends: all are in, or a signal made main give up the rest.
EndEnqueue ==
  /\ main_pc = "enq"
  /\ chunk = <<>> \/ force_quit
  /\ leaked' = leaked \o chunk
  /\ chunk' = <<>>
  /\ ring_in_index' = NextInst(ring_in_index)
  /\ main_pc' = "deq"
  /\ UNCHANGED <<runVars, rx_held, wait_on_enq, batch_cnt_enq, seqn,
                 wait_on_deq, ring_out_index, sent, flushed, workerVars,
                 envVars, ring_in, ring_out>>

\* wait_on_enq is only ever compared with 0; below 0 it is kept at this bound.
WaitFloor == -EthBatch

\* aggregate_packets to finish_pipeline_batch: collect, count and free, then
\* close the chunk (after an idle poll, a chunk closed before).
Aggregate ==
  /\ main_pc = "deq"
  /\ LET n == Lesser(BatchOut, Len(ring_out[ring_out_index]))
     IN /\ sent' = sent \o Take(ring_out[ring_out_index], n)
        /\ ring_out' = [ring_out EXCEPT ![ring_out_index] = Drop(@, n)]
        /\ wait_on_deq' = wait_on_deq - n
  /\ ring_out_index' = NextInst(ring_out_index)
  /\ wait_on_enq' = Greater(WaitFloor, wait_on_enq - batch_cnt_enq)
  /\ main_pc' = "inner"
  /\ UNCHANGED <<runVars, rx_held, batch_cnt_enq, chunk, seqn, ring_in_index,
                 flushed, leaked, workerVars, envVars, ring_in>>

EndInnerBug ==
  /\ main_pc = "inner"
  /\ force_quit \/ wait_on_enq <= 0
  /\ cycles_over' = (time_up /\ rx_held > 0)
  /\ main_pc' = "poll"
  /\ UNCHANGED <<running, dealVars, wait_on_deq, ring_out_index, histVars,
                 workerVars, envVars, ring_in, ring_out>>

\* The inner loop is over; main samples the clock.
EndInner ==
  /\ main_pc = "inner"
  /\ force_quit \/ wait_on_enq <= 0
  /\ cycles_over' = time_up
  /\ main_pc' = "poll"
  /\ UNCHANGED <<running, dealVars, wait_on_deq, ring_out_index, histVars,
                 workerVars, envVars, ring_in, ring_out>>

-----------------------------------------------------------------------------
(* A worker lcore: pipeline_stage_run_safe.                                *)

WorkerCheckBug(w) ==
  /\ worker_pc[w] = "head"
  /\ worker_pc' = [worker_pc EXCEPT ![w] =
                     IF ~force_quit THEN "deq" ELSE "exit"]
  /\ UNCHANGED <<main_pc, runVars, dealVars, wait_on_deq, ring_out_index,
                 histVars, mbufs_out, envVars, ring_in, ring_out>>

\* The loop condition: go round again, or exit.
WorkerCheck(w) ==
  /\ worker_pc[w] = "head"
  /\ worker_pc' = [worker_pc EXCEPT ![w] =
                     IF ~force_quit /\ running THEN "deq" ELSE "exit"]
  /\ UNCHANGED <<main_pc, runVars, dealVars, wait_on_deq, ring_out_index,
                 histVars, mbufs_out, envVars, ring_in, ring_out>>

\* Take a burst from ring_in and run the stage on it, packet by packet.
WorkerDequeue(w) ==
  /\ worker_pc[w] = "deq"
  /\ LET n == Lesser(WorkerBurst, Len(ring_in[w]))
     IN /\ mbufs_out' = [mbufs_out EXCEPT ![w] = Take(ring_in[w], n)]
        /\ ring_in' = [ring_in EXCEPT ![w] = Drop(@, n)]
        /\ worker_pc' = [worker_pc EXCEPT ![w] = IF n = 0 THEN "head" ELSE "out"]
  /\ UNCHANGED <<main_pc, runVars, dealVars, wait_on_deq, ring_out_index,
                 histVars, envVars, ring_out>>

\* One rte_ring_enqueue_burst of the worker's spin loop that found room.  The
\* loop looks at neither force_quit nor running.
WorkerEnqueue(w) ==
  /\ worker_pc[w] = "out"
  /\ LET n == Lesser(Len(mbufs_out[w]), Room(ring_out[w]))
     IN /\ n > 0
        /\ ring_out' = [ring_out EXCEPT ![w] = @ \o Take(mbufs_out[w], n)]
        /\ mbufs_out' = [mbufs_out EXCEPT ![w] = Drop(@, n)]
        /\ worker_pc' = [worker_pc EXCEPT ![w] =
                           IF n = Len(mbufs_out[w]) THEN "head" ELSE "out"]
  /\ UNCHANGED <<main_pc, runVars, dealVars, wait_on_deq, ring_out_index,
                 histVars, envVars, ring_in>>

-----------------------------------------------------------------------------
(* The environment.                                                        *)

Signal ==
  /\ ~force_quit
  /\ force_quit' = TRUE
  /\ UNCHANGED <<main_pc, runVars, dealVars, wait_on_deq, ring_out_index,
                 histVars, workerVars, time_up, ring_in, ring_out>>

TimeUp ==
  /\ HasLimit /\ ~time_up
  /\ time_up' = TRUE
  /\ UNCHANGED <<main_pc, runVars, dealVars, wait_on_deq, ring_out_index,
                 histVars, workerVars, force_quit, ring_in, ring_out>>

-----------------------------------------------------------------------------

\* The steps main takes by itself, whatever the port delivers.
Main ==
  \/ StartMain \/ LeaveLoop \/ PostSearch \/ WaitWorkers
  \/ PollIdle \/ TakeChunk \/ Enqueue \/ EndEnqueue \/ Aggregate \/ EndInner
  \/ \E w \in Inst : Launch(w)

Worker(w) == WorkerCheck(w) \/ WorkerDequeue(w) \/ WorkerEnqueue(w)

Next ==
  \/ Main
  \/ StartFails
  \/ \E n \in 1 .. EthBatch : Receive(n)
  \/ \E w \in Inst : Worker(w)
  \/ Signal
  \/ TimeUp

Spec == Init /\ [][Next]_vars

(***************************************************************************)
(* Every lcore is a thread pinned to a core of its own that polls without  *)
(* blocking, so it never stops taking the steps it can take.  Nothing is   *)
(* assumed of the traffic, the clock or the user.                          *)
(***************************************************************************)
Fairness == WF_vars(Main) /\ \A w \in Inst : WF_vars(Worker(w))

FairSpec == Spec /\ Fairness

-----------------------------------------------------------------------------
(* Invariants.                                                             *)

\* Every variable has a value of its type; rings, chunks and bursts respect
\* their sizes.
TypeOK ==
  /\ main_pc \in {"launch", "poll", "inner", "enq", "deq", "post", "wait", "done"}
  /\ force_quit \in BOOLEAN /\ running \in BOOLEAN
  /\ time_up \in BOOLEAN /\ cycles_over \in BOOLEAN
  /\ rx_held \in Int
  /\ wait_on_enq \in Int /\ batch_cnt_enq \in Nat /\ wait_on_deq \in Int
  /\ seqn \in Nat
  /\ ring_in_index \in Inst /\ ring_out_index \in Inst
  /\ worker_pc \in [Inst -> {"idle", "head", "deq", "out", "exit"}]
  /\ chunk \in Seq(Nat) /\ Len(chunk) <= BatchIn
  /\ ring_in \in [Inst -> Seq(Nat)] /\ ring_out \in [Inst -> Seq(Nat)]
  /\ \A w \in Inst : Len(ring_in[w]) <= RingCap /\ Len(ring_out[w]) <= RingCap
  /\ mbufs_out \in [Inst -> Seq(Nat)]
  /\ \A w \in Inst : Len(mbufs_out[w]) <= WorkerBurst
  /\ sent \in Seq(Nat) /\ flushed \in Seq(Nat) /\ leaked \in Seq(Nat)

\* A worker holds packets only while it moves them to its ring_out.
HandsEmpty == \A w \in Inst : worker_pc[w] # "out" => mbufs_out[w] = <<>>

\* The packets on the path through instance w, the oldest first.
Path(w) ==
  ring_out[w] \o mbufs_out[w] \o ring_in[w]
    \o (IF main_pc = "enq" /\ ring_in_index = w THEN chunk ELSE <<>>)

(* The main lcore waits for room in a ring_in while the worker behind that
   ring waits for room in its ring_out, which only main empties: the spin loops
   of run_dpdk and of pipeline_stage_run_safe would then wait for each other
   for ever.  It must never happen. *)
NoCircularWait ==
  \A w \in Inst :
    ~ /\ main_pc = "enq" /\ ring_in_index = w /\ chunk # <<>>
      /\ Room(ring_in[w]) = 0
      /\ mbufs_out[w] # <<>>
      /\ Room(ring_out[w]) = 0

\* Chunks until instance w is dealt to, and visits until it is collected from.
Distance(i, w) == IF w >= i THEN w - i ELSE w - i + NbInst

\* May instance w have been dealt a chunk since it was last collected from?
DealtSince(w) ==
  LET toDeal == Distance(ring_in_index, w)
      toCollect == Distance(ring_out_index, w)
  IN CASE main_pc \in {"launch", "poll", "inner"} -> toCollect < toDeal
       [] main_pc = "enq" -> toCollect < toDeal \/ toDeal = 0
       [] main_pc = "deq" -> toCollect <= toDeal
       [] OTHER -> TRUE

(* Why there is no circular wait: between two visits to a ring_out the round
   robin deals its instance at most one chunk, so a path holds no more than what
   one visit leaves behind (a full ring_in and a worker's burst) and a chunk. *)
PathBounded ==
  \A w \in Inst :
    Len(Path(w)) <= RingCap + WorkerBurst + (IF DealtSince(w) THEN BatchIn ELSE 0)

\* The containers a packet can be in, and the slots that hold packet p.
Containers == ({"path"} \X Inst) \cup ({"sent", "flushed", "leaked"} \X {0})

Contents(c) == CASE c[1] = "path" -> Path(c[2])
                 [] c[1] = "sent" -> sent
                 [] c[1] = "flushed" -> flushed
                 [] c[1] = "leaked" -> leaked

Slots(p) == UNION {{<<c, i>> : i \in {j \in DOMAIN Contents(c) : Contents(c)[j] = p}} :
                     c \in Containers}

(* A numbered packet is in exactly one place: bursts that were accepted in part
   are neither repeated nor forgotten, by main or by a worker.  Main gives up
   packets only after a signal. *)
NothingLostOrDuplicated ==
  /\ \A p \in 1 .. seqn : Cardinality(Slots(p)) = 1
  /\ leaked # <<>> => force_quit

(* batch_cnt_wait_on_deq, which decides whether an idle port sends main to the
   ring_outs, counts exactly the packets in rings and workers (and those given
   up): too low and the last packets would stay, too high and main would never
   rest. *)
InFlightExact ==
  main_pc \in {"poll", "inner", "enq", "deq"} =>
    wait_on_deq = Len(leaked)
      + Cardinality({p \in 1 .. seqn : \E w \in Inst : p \in {Path(w)[i] : i \in DOMAIN Path(w)}})

(* Jumping into the inner loop with the counters of an older burst (the goto of
   an idle poll) never makes main deal out mbufs it does not hold: when the
   inner loop goes on, the burst holds exactly what is still to be enqueued. *)
DealsOnlyWhatItHolds ==
  /\ rx_held >= 0
  /\ main_pc = "inner" /\ wait_on_enq > 0 => rx_held = wait_on_enq

-----------------------------------------------------------------------------
(* Refinement and liveness.                                                *)

\* The stop of the run, as the paths see it: a signal, or the end of the loop.
Closed == force_quit \/ ~running

(* Seen from outside the pipeline is a bundle of FIFO paths. *)
Paths == INSTANCE PathService
           WITH queue <- [w \in Inst |-> Path(w)], admitted <- seqn,
                delivered <- sent, closed <- Closed

RefinesPathService == Paths!Spec

(* Every packet numbered is freed by main unless the run is stopped: no packet
   is stranded behind an idle port. *)
EveryPacketLeaves ==
  \A p \in 1 .. MaxPkts :
    seqn >= p ~> (\E i \in DOMAIN sent : sent[i] = p) \/ Closed

(* A signal gets main out of its loops, whatever the workers do. *)
SignalStopsMain == force_quit ~> main_pc \in {"wait", "done"}

(* The time limit stops main when it has anything to do once the limit has passed.
   An idle port with nothing in flight is the exception: main then never looks
   at the clock again. *)
LimitStopsBusyMain == time_up /\ main_pc = "inner" ~> ~running

\* Worker w spins on a full ring_out.
Blocked(w) == mbufs_out[w] # <<>> /\ Room(ring_out[w]) = 0

(* A stopped run ends, unless post_search left a worker in front of a full
   ring_out: the only way for the shutdown to hang. *)
RunEndsUnlessBlocked ==
  Closed ~> main_pc = "done" \/ (\E w \in Inst : Blocked(w))

-----------------------------------------------------------------------------
(* What comments and docs say, and the code does not do.                   *)

(* Clearing running notices all workers of the end of the run. *)
WorkersStop == ~running ~> \A w \in Inst : worker_pc[w] \in {"idle", "exit"}

=============================================================================
