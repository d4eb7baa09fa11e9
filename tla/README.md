# Meili data plane: TLA+ models, checks and proofs

This directory models this repository: Meili, a DPDK packet pipeline for SmartNICs,
from its command line to its exit, and the script that places its stages on a cluster
of NICs. Every definition is translated from the C and Python sources under `src/`;
`PROJECT.json` maps each to its lines.

```
tlc -workers 2 -config DataPlane_safety.cfg MCDataPlane     # any cfg with its MC module
tlapm DataPlane_proofs.tla        # the proofs; likewise RegexQueue_proofs, Reorder_proofs,
                                  # FlowTable_proofs, Configuration_proofs, Lifecycle_proofs,
                                  # ResourceAllocation_proofs, RunVariants_proofs
```

## The system

One process runs on a SmartNIC. The **main lcore** polls an Ethernet port, numbers
the packets and deals them out to **worker lcores**, one for each instance of the
(single) pipeline stage; a worker runs the user's function on each packet, which may
call the regex accelerator; main collects the packets, counts them and frees them.
Everything between two lcores goes through DPDK single-producer single-consumer
rings. No lcore ever blocks; all waiting is spinning.

```
          seq_exec   ring_in[w]     worker w      ring_out[w]
 port --> main ----> =========> user function ==> =========> main --> (reorder_exec) --> free
                                   |    ^
                                regex() |   queue pair of the accelerator
```

| Component | State | Operations | Hard behaviours | What makes it correct |
| --- | --- | --- | --- | --- |
| Main loop, `runtime/run_dpdk.c` | burst held, `batch_cnt_wait_on_enq`, `batch_cnt_enq`, `batch_cnt_wait_on_deq`, the two round-robin indices, sampled clock | receive, take a chunk, number it, spin it into a `ring_in`, collect from a `ring_out`, free; `goto aggregate_packets` on an idle poll | partial enqueues, a jump into the inner loop with old counters, a signal inside a spin loop, mutual spinning with a worker | no packet lost or repeated, exact in-flight count, no circular wait, progress |
| Run and workers, `runtime/pipeline.c` | `running`, per worker the burst in hand | launch, worker loop, end of run, `pipeline_post_search`, wait for the lcores | flag read before the dequeue, workers that spin on a full ring at the end, launch failure | the run ends, nothing is lost on the way |
| Start and end, `runtime/main.c`, `meili_runtime.c`, `pipeline_init_safe`, `pipeline_free`, `lib/regex/`, `utils/input_mode/`, `stats_init` | `force_quit`, what has been acquired | signal handler, initialisation call by call and its cleanup labels | failure of one acquisition of many, cleanup by another count than allocation | what was acquired is released, once; no pointer is followed that was never set |
| Packet ordering, `packet_ordering/`, `utils/rte_reorder/` | next sequence number; `order_buf`, `ready_buf`, `min_seqn` | number, insert, overflow, drain | wrap-around of numbers, late and early packets, a full `ready_buf` | ascending output, each packet once |
| Regex queue, `lib/regex/dpdk_bf_regex.c`, `lib/meili.c` | staged operations, queue pair, counters | stage, push, pull | queue pair that takes a batch in pieces and answers out of order, push into a full queue pair, packet freed while its search runs | each packet searched once; a push returns |
| Control plane, `control/resource_allocation.py` | demands, free units and bandwidth, allocation | choose a NIC, place units | bandwidth shared between neighbouring stages, less than one unit | conservation, bandwidth accounted for, the loop ends |
| Configuration, `lib/conf/` | options, argument vector of the file, warnings | command line, file, validation, defaults | zero means unset, defaults applied after validation, an exception from precedence for raw rules | precedence; what is accepted is usable |
| Flow table, `lib/net/` | hash table, data array, uninitialised flags | add, look up, remove by packet or by key; iterate, free | keys of the two directions of a flow, two hashes for one key | one entry per flow, a map |
| Statistics, `utils/stats/`, and the build's other loops | counters per lcore, marks of the last print, latency samples; the burst on its way out | count, print, sample; send, run a stage on a chunk | read while written, lengths read after a packet was handed on, an index behind an array, sending in pieces | rates that do not wrap or repeat, exact totals, each packet handed over once |
| Log, ports, timestamps, string helpers, run modes | list of warnings, mempools, registered functions | record, register, set up | parts of the components above | |
| Example application, cJSON | | user functions; a vendored parser | | |

Interactions: main and each worker share a pair of rings and the flags `running` and
`force_quit`; the signal handler writes `force_quit`; a worker and the accelerator
share a queue pair; main frees the mbufs that a worker may still have in that queue
pair. The control plane is a program of its own.

The compiled configuration is the one the build enables: `MEILI_MODE`, separate rings
per instance (`SHARED_BUFFER` off), no rate limit, latency, only-main, baseline or
all-remote mode. Of the modes left out of that build, `RunVariants` has the loops that
transmit, send everything to another NIC, or run the stage on main (the baseline, with and
without latency). The loop of `LATENCY_MODE_ON` inside main's own (`run_dpdk.c:467-600`),
`ONLY_MAIN_MODE_ON` and `SHARED_BUFFER` are not modelled.

## Modules

| Module | Models |
| --- | --- |
| `DataPlane` | main lcore, workers, rings, launch and end of a run |
| `PathService` | what `DataPlane` promises: a bundle of FIFO paths |
| `Reorder` | `seq_exec`, `reorder_exec` and the reorder buffer |
| `RegexQueue` | `regex()`, staging, push and pull on one queue pair |
| `Lifecycle` | `main`, `meili_runtime_init`, every initialisation and cleanup |
| `Configuration` | `conf_setup`: command line, file, validation, defaults |
| `FlowTable` | `flow_table_*`, keys and hashes of packets |
| `FlowMap` | what `FlowTable` promises: a bounded map |
| `Statistics` | the counters, the print, the latency samples |
| `RunVariants` | the loops that count, with the build's other loops; extends `Statistics` |
| `ResourceAllocation` | the placement loops of the control plane |
| `*_proofs` | theorems about the module of that name |
| `MC*` | the instances TLC checks |

**DataPlane.** `main_pc` says where main is: `launch` (`pipeline_run` starts the
workers), `poll` (loop condition and `rte_eth_rx_burst`), `inner` (condition of the
inner loop), `enq` (spin loop of the enqueue), `deq` (label `aggregate_packets`),
`post` and `wait` (end of `pipeline_run`), `done`. `worker_pc[w]` is `idle` (not
launched), `head` (loop condition), `deq`, `out` (spin loop), `exit`. A step is one
access to state that another lcore can see: one test of a flag, one ring operation;
what a thread does in private between two of them belongs to one of the steps. Ring
operations are atomic because each end of a ring belongs to one thread. An mbuf is
represented by the sequence number written into it. `sent`, `flushed` and `leaked` are
history: packets freed by main, by `pipeline_post_search`, and given up by a signal in
the middle of a chunk. A turn of a spin loop that finds no room, and an idle poll with
nothing in flight, change nothing and are stuttering steps.

**PathService** is the abstract specification: packets are admitted in ascending
order, each to a path, and delivered from the head of a path. Packets are given up
only once the service is closed. `DataPlane` implements it under the mapping
`queue <- Path`, where `Path(w)` puts the ring_out, the worker's hands, the ring_in
and the rest of the chunk one behind the other. Order holds on each path and not
between paths: chunk 1 goes to instance 0, chunk 2 to instance 1, whose worker may be
faster. This is why the pipeline needs the next module.

**Reorder.** Between `seq_exec` and `reorder_exec` a packet may be overtaken by up to
`MaxDelay` others. An insert that overflows runs `rte_reorder_fill_overflow` turn by
turn (`outer`, `inner`), because what its two loops leave behind when `ready_buf`
fills up is the point. A drain is one step: it is sequential code that no one
observes half-way. The calls of `reorder_exec` in `run_dpdk.c:501` and
`pipeline.c:614` are commented out in this code, so the module models the component
against the traffic it was written for. `first` and `outrun` are history: the packet
that `min_seqn` stands for, and whether insert has been given a packet `Modulus` or more
after it. From then on a number does not tell which packet is meant.

**RegexQueue.** One worker and its queue pair. `pc` is inside `regex()`: `push` (the
enqueue loop), `poll` (the dequeue in it), `pull`. The accelerator is outside the
code: it takes operations while it has descriptors and answers them in any order, as the
queue pair is configured to "Accept out of order results."
(`RTE_REGEX_QUEUE_PAIR_CFG_OOS_F`, `dpdk_bf_regex.c:120`). `Answer` picks any operation in the
queue pair, `Dequeue` any answered ones (`Bursts`), so both are sets, as is what has been
answered for. `Free` is main freeing a packet whose `regex()` has returned.

**ResourceAllocation.** The vectors of the script are one-hot, as its comments say, so
they are numbers of units of a kind; bandwidth is in integers. `Place` is a turn of
the inner loop, with the choice of `find_next_snic` and the branch of
`allocate_one_snic` that applies; `FallBack` is a turn after `find_next_snic` has
returned -1, which indexes the last NIC. Ties in the key are broken in any way.

**Lifecycle.** `pc` is the next call of `main` or `meili_runtime_init`, or the cleanup
label reached. An object is a pair of a kind and an index, and an initialisation is
the sequence of the objects it acquires (`PortObjects`, `OpsObjects`,
`PipelineObjects`): it may fail at each of them, with what it had until then. `held`
is what exists; `freed` and `twice` are history, because cleanup goes by pointers
that keep their values; `wild` collects pointers that are followed without ever
having been set (after which the process dies, `undefined`, or gets away with it). The run
itself is one step: `DataPlane` has its inside. The run's own clean end, a failed
launch of a worker and a configuration with one core are cases of `Launch`, `Run` and
`PostSearch`.

**Configuration.** `Parse` is one option of `conf_parse_args`, on the command line or
in the vector made of the file; `SetNum`, `SetStr`, `SetDev`, `SetMode` and `SetDpdk`
are its setters, which all leave a field alone that is set. `EndCommandLine` is what
`conf_setup` does in between, with no memory for the default name of the file as a way to
fail. `ReadLine` fills the vector as far as it goes, with two entries for a line that has a
colon and one for a line without. `getopt_long` then takes the next entry for the value of an
option that needs one, though that entry is the option of the next line, whose own value
is passed over (`ValueOf`, `LinesUsed`); at the end of the vector such an option is refused.
`Validate` is `conf_validate` with the warnings it records, and `conf_set_defaults`
after it. Strings are values, a word of the EAL options is an `-a`, an address of
function 0 or another, one that is too short, or something else. `given` is history.

**FlowTable.** The hash table is DPDK's and external: entries are compared by hash and
key, and take positions from a pool of free ones. Translated are the key of a packet
(with the ports found 20 bytes behind the IP header, whatever its length), the
symmetric key, the two sources of a hash (the port's and the software's), the
operations through packets and through keys, iteration, creation with parameters that
are not cleared (`extra_flag` is any value) and release. User writes through a
returned pointer are part of looking up. **FlowMap** is a map from keys with their
hashes to states; a new key has whatever state its position held.

**Statistics** has state and operators, **RunVariants** the loops. In variant `meili`
a worker hands packets on before it reads their lengths and counts them, while main
prints (each entry is read twice, `PrintRead` and `PrintStore`) and frees mbufs, which
the port fills again. In the others main has a burst of its own: `transmit` and
`remote` send it, `baseline` and `latency` run the stage on chunks of it. Each of the three
functions looks up its ports first: `StartMeili` (variants `meili` and `transmit`), `StartRemote`
and `StartBaseline` (`baseline` and `latency`).

## Runs

| Run | Result | Question |
| --- | --- | --- |
| `dp_safety` | holds | With bursts accepted in part, a signal at any moment and idle polls between bursts: is every packet in one place, the in-flight count exact, does main deal out only what it holds, and does the data plane implement `PathService`? |
| `dp_liveness` | holds | Can main and a worker wait for each other? No: a path is bounded. Does every packet leave, does a signal stop main, does a time limit stop a main lcore that is busy, does a stopped run end? |
| `dp_shutdown` | violated | Do workers stop when `running` is cleared (`pipeline.c:715`)? |
| `ro_window` | holds | Window aligned with `min_seqn`, ascending output, each packet once, nothing left behind. |
| `rx_push` | holds | Each packet searched once whatever the order of the answers, exact counters, a push returns. |
| `rx_release` | violated | Is an mbuf kept until its response is handled (`dpdk_bf_regex.c:713`)? |
| `lc_start` | holds | With a failure possible at every acquisition: is everything there at the launch, is what has a cleanup released at the exit, once, and what is followed without having been set? |
| `conf_setup` | holds | Does the first setting of an option stand, do raw rules of the command line stand against the file, do the vectors suffice, is an accepted configuration usable? |
| `ft_flows` | holds | One entry per flow, no position lost or shared, the symmetric key finds conversations, the table is a map; also with flags that nobody set. |
| `rv_loops` | holds | No rate wraps or repeats a packet, the last totals are exact, only measured latencies are listed while their count is not negative, the loops hand over each packet once where they do not start over. |
| `ra_place` | holds | Units conserved, bandwidth accounted for, the placement ends. |
| `ra_demand` | violated | Does the loop meet the demand (`resource_allocation.py:215`)? |

What the violated runs show:

* `dp_shutdown`: a worker in front of a full ring_out spins without looking at any flag
  (`pipeline.c:123`). `pipeline_post_search` stops at the first empty ring_out, which
  need not be the full one, and main then waits for the worker for ever.
  `RunEndsUnlessBlocked` in `dp_liveness` shows that this is the only way to hang.
* `rx_release`: the reference count is not raised (`dpdk_bf_regex.c:735`) and `regex()`
  returns while the operation is staged; main frees the packet.
* `ra_demand`: the preferred NIC has idle bandwidth, less than one unit needs. The
  division gives zero units, `resource_get_one_hot` returns `None` and the subtraction
  in line 169 raises, though another NIC could take the unit.

The properties that hold name exceptions, which are what the code does and a reader
might not expect (paths below `src/src`):

* No order between paths: `reorder_exec` is commented out in `runtime/run_dpdk.c:501`
  (`RefinesPathService` promises order on each path only).
* The clock is sampled at the end of the outer loop's body. An idle poll with nothing in
  flight `continue`s before that (`runtime/run_dpdk.c:298`), so with no traffic the
  time limit is never noticed (`LimitStopsBusyMain` is about a main that is busy).
* `rte_reorder_fill_overflow` takes a packet out of `order_buf`, writes it to the last
  entry of `ready_buf`, which is not counted, and breaks
  (`utils/rte_reorder/rte_reorder.c:338`): the packet is lost (`lost` in `EachPacketOnce`).
* An insert that refuses a packet as out of range (`utils/rte_reorder/rte_reorder.c:408`) does
  not move the window. After a gap of twice the buffer every packet is refused until the
  numbers have come round; the first that fits again goes in front of one that has waited
  in `order_buf` all the time, and is drained first, although `rte_reorder.h:154` speaks of
  "in-order buffers" (`outrun` in `OutputAscends` and `EachPacketOnce`). With 32 bits this takes
  2^32 packets; with `Size` 2, `Modulus` 9, `SeqStart` 4, `ExecMax` 5, `DrainMax` 1, `MaxDelay` 5
  and `MaxPkts` 16 TLC finds it in seconds when `outrun` is left out of the two properties.
* Zero stands for "not given": an explicit zero on the command line is overwritten by the
  file (`lib/conf/meili_conf.c:173`, `FirstSettingWins`).
* Cleanup visits as many entries of a port's row as there are cores, while a row has one
  for each queue (`utils/input_mode/input_dpdk_port.c:249`), and initialisation follows a row
  for each device where there is one for each port asked for (`BehindRows`, `InputInit`).
* The entries of the arrays of operations are not cleared, so that the cleanup of a
  half-finished initialisation follows them (`lib/regex/dpdk_bf_regex.c:209`, `OpsUnset`).
* `pipeline_free` follows the stages behind one that could not be initialised
  (`runtime/pipeline.c:545`); after a failed launch of a worker the statistics follow the
  stages of lcores that were not launched (`RunFollowsOnlyItsOwn`); with one core there is
  no instance and the round robins divide by zero (`runtime/pipeline.c:178`).
* `extra_flag` of the hash table's parameters is uninitialised (`lib/net/meili_flow.c:25`): with
  flags set, positions are lost or lie behind the array (`PositionsAccounted`).
* A flow added through a packet is not found through its key, whose hash is another
  (`OneEntryPerKey`); conversations with exchanged ports share a symmetric key.
* `nb_sampled & NUMBER_OF_SAMPLE` reaches the entry behind the array, which is `nb_sampled`
  itself (`utils/stats/stats.c:722`, `Sampled`): the 64 bits of a latency are stored over an
  int and its padding. A latency whose low 32 bits are 2^31 or more makes the count negative; then
  `RTE_MIN` (`utils/stats/stats.c:571`) is negative and `qsort` gets a huge length.
  `LatencyConsistent` says what is listed as long as the count is not negative, and that it is
  not while latencies and packets stay below 2^31.
* A worker reads the lengths of packets that main may have freed (`runtime/pipeline.c:132`): the
  bytes counted may be those of other packets (`stale` in `CountsExact`).
* The loop that transmits offers the burst from its start again when the port takes part
  of it (`runtime/run_dpdk.c:556`, `Offered`); when a burst is larger than a batch, the baseline
  loop of the latency build runs its stage on the first chunk again, and the plain one drops
  the rest
  (`runtime/run_dpdk.c:1078`, `NextChunk`). `HandedOverOnce` excludes both. The baseline modes call
  `pipeline_stage_exec_safe`, whose definition is commented out, so they do not link as they are.

### Bounds

* `dp_safety`: two instances (the round robin and overtaking need two, and all instances
  are alike), rings of two packets, bursts of three and chunks of two, so that a burst
  makes a full and a short chunk and a ring takes part of a chunk; five packets, so that
  two bursts and an idle poll between them fit.
* `dp_liveness`: rings of one packet and five packets: both paths can be filled to the bound.
  The sizes satisfy `SizesAssumption` with equality, the tightest case, and there is a
  time limit.
* `WorkerBurst` is one in all three runs of `DataPlane`, the most that `SizesAssumption` allows
  with rings so small. That a worker takes more than one packet and passes them on in parts is
  covered by the theorems only, which hold for every `WorkerBurst`.
* `ro_window`: buffers of four entries, numbers modulo 16 starting at 13, so that they wrap
  inside the window; calls of up to three packets, drains of two, nine packets and a delay
  of up to eight: packets arrive in the window, just outside it, and vastly outside
  (ERANGE); overflows end in success and in ENOSPC. `MaxDelay` is at most
  `Modulus - 2 * Size`: in the program 2^32 against a few ten thousand packets in flight.
  Nine packets are fewer than the 16 numbers, so that `outrun` stays false and the two
  properties that exclude it are checked in every state.
* `rx_push`: four batches of two into a queue pair of three, so that every second batch is
  taken in pieces and there may be more answers than a burst takes.
* `lc_start`: up to four cores on up to five lcores, two instances at most (a configuration
  has too few, enough and too many), one or two ports and no to three devices, one queue
  per port, so that there are more cores than queues and more devices than rows.
* `conf_setup`: 21 arguments, of each kind a zero, a usual, an extreme and a refused value; two
  on the command line and three lines in the file, each with its value or without, of which
  the vector takes two with values and three without; two warnings fit. Precedence needs two settings of an option, and
  an exception from it a third.
* `ft_flows`: two entries (and one more position with several writers) for six packets and
  three keys: a flow and its reverse, one with exchanged ports, one with IP options, one
  without ports, one that is not IPv4, keys with other padding. The table fills up.
* `rv_loops`: main and two workers (an odd number of entries, so that the last one is printed
  alone), two mbufs, three packets so that an mbuf is used again, bursts of two and batches
  of one, one sample, one print before the last. An int reaches from -4 to 3 (`IntHalf`) and
  latencies from 0 to 4, so that counts above the array's size and negative ones occur. The mbufs are symmetric: they are only
  compared.
* `ra_place`: three NICs of two types, three stages, units of two and three bandwidth units
  so that divisions have remainders, and bandwidths 0, 1, 3 and 6.

`MaxPkts`, `MaxDelay`, `MaxPrints`, `MaxLength`, `MaxLatency`, `MaxCmd`, `MaxLines`, `MaxCores`,
`MaxLcores`, `MaxDevs`, `Traffic`, `UserKeys`, `Demands`, `Bandwidths` and `NicTypes` are bounds of the
models; all other constants stand for constants or parameters of the code. `WaitFloor` in
`DataPlane` keeps `batch_cnt_wait_on_enq`, which only its sign is read of, from
decreasing without bound over idle polls (the program's `int` would get there after
2^31 packets' worth of idle polls).

### Fairness and deadlock checking

* `DataPlane`: weak fairness of main and of each worker. Every lcore is a thread pinned to a
  core of its own that polls without blocking, so an enabled step is taken. None for the
  traffic, the clock, the signal or a failing start.
* `Reorder`: weak fairness of `reorder_exec`, which stands in main's loop.
* `RegexQueue`: weak fairness of the call in progress, and of the accelerator's answers.
* `ResourceAllocation`: the script runs.
* The other modules have safety properties only and state no fairness.

`CHECK_DEADLOCK FALSE` stands where the program really stops: at `done` (and, in
`DataPlane`, in the stuttering spin loops), when all packets of the bound are through
(`RegexQueue`), when the script, the setup or the process ends (`ResourceAllocation`,
`Configuration`, `Lifecycle`, `RunVariants`). `Reorder` and `FlowTable` never stop and are
checked.

## Proofs

Every safety invariant, type invariant, refinement and action property that a run checks is a
theorem; what stays with TLC is liveness. For the liveness properties the proofs give the
safety half: what decreases with each step, and what a step that could help cannot take away.

`DataPlane_proofs` proves, for every number of instances and every ring, burst and
chunk size:

| Theorem | States |
| --- | --- |
| `TypeCorrect` | `Spec => []TypeOK`, with the capacities of rings, chunks and bursts |
| `HandsStayEmpty` | a worker holds packets only in its spin loop |
| `PathsStayBounded` | `Spec => []PathBounded` |
| `NeverCircularWait` | `Spec => []NoCircularWait` |

The only assumption is `SizesAssumption`: positive sizes, a collecting burst as large as
a ring (`MAX_PKTS_BURST` 8192 against 8191) and `WorkerBurst + BatchIn <= RingCap + 1`
(64 + 1024 against 8192; `conf_validate` refuses larger batches).

`NoCircularWait` is not inductive: that both rings of an instance are full is not
excluded by the step before. The inductive invariant is
`TypeOK /\ HandsEmpty /\ PathBounded`. `PathBounded` says that the path through an
instance holds at most `RingCap + WorkerBurst` packets, and `BatchIn` more when a chunk
may have been dealt to it since main last emptied its ring_out. `DealtSince` computes
that from where the two round-robin indices stand: each inner turn moves both by one, so
an instance is dealt to and collected from once in a cycle. Worker steps move packets
along the path without changing its load; collecting takes the ring_out away, and what
is left fits in a ring_in and a burst; a chunk is dealt only to an instance that was
collected from since its last one. A circular wait would need two full rings, a packet in
the worker's hands and one in main's: `2 * RingCap + 2`, which the bound excludes.
`HandsEmpty` is needed because a worker's dequeue would otherwise overwrite packets.
Lengths are proved through `Load`, the sum of what each place holds.

On top of these the module proves

| Theorem | States |
| --- | --- |
| `NeverDealsTwice` | `Spec => []DealsOnlyWhatItHolds` |
| `ImplementsPathService` | `Spec => RefinesPathService`, that is `Spec => Paths!Spec` |
| `EveryPacketOnce` | `Spec => []NothingLostOrDuplicated` |
| `FlightCountExact` | `Spec => []InFlightExact` |
| `PathsStayInOrder` | `Spec => []PathsAscend`: the packets of each path ascend |
| `OldestLeaveFirst` | `Spec => [][OldestLeave]_vars`: no packet overtakes another of its path |
| `NeverRestsOnPackets` | `Spec => []RestsOnlyDry`: main only polls the port when all paths are empty |
| `SignalUnwinds` | `Spec => [][Unwinds]_vars`: after a signal each step of main brings it nearer its end |
| `WorkersRetire` | `Spec => [][Retires]_vars`: after the loop each worker has less and less to do |

`BurstInv` says what `batch_cnt_wait_on_enq` is at each place of main's loops relative to the
burst in hand; that it is not positive when main polls again is what keeps main from
dealing the old burst out once more after the jump from an idle poll. `RunningInv` says where the run is still on. For the
refinement every step of `DataPlane` is one of five: numbering a chunk is `Admit`,
collecting is `Deliver`, `pipeline_post_search` and a chunk cut off by a signal are `GiveUp`,
a stop is `Close`, and all others, the ring operations among them, move packets from one
part of a path to the one in front of it, which leaves the path as it is (`MoveUp`).
Equality of the concatenations is proved position by position.

`PacketInv` is about the packets. `PlaceInv` (`Placed`) says that the paths, and what was sent,
flushed and given up, hold each number below `seqn` once, as functions from containers to
sequences: a step of the five kinds above takes from the head of one container what it
appends to another, or adds the next numbers to a path. From it `FlightInv` follows step by step:
`batch_cnt_wait_on_deq` is the number of packets on the paths and of those given up, and
with `LeakInv` (given up only after a signal) that is what `InFlightExact` says.

For the order `PathChanges` says that a step does one of four things to the paths: nothing, the
next numbers at the end of one, packets off the front of one, or the rest of a chunk off
its end; the first three keep a path ascending and let only its oldest packets leave. The exception
of `OldestLeave`, a chunk given up, is needed: then the newest packets leave.
`NeverRestsOnPackets` combines the order with `FlightInv`: if `batch_cnt_wait_on_deq` is not
positive no number is on a path, and a path holds nothing but numbers. It is the step that
`EveryPacketLeaves` rests on: whenever a packet is on a path an idle poll goes to the
ring_outs. `SignalUnwinds` orders the places of main (`Rank`), at equal rank the packets on
the paths, which only `pipeline_post_search` takes off and nothing adds to once the signal
is there, and at last the workers not launched: every step of main is a descent, and no other
step ascends. `WorkLeft` is what a worker does before it looks at `running` again.

`RegexQueue_proofs` proves, for every batch size, queue depth and number of calls
(`RegexAssumption`: sizes positive):

| Theorem | States |
| --- | --- |
| `RegexTypes` | `Spec => []TypeOK`: the batch fits in its array, the queue pair in its descriptors |
| `CountersStayExact` | `Spec => []CountersExact` |
| `EachSearchedOnce` | `Spec => []SearchedOnce` |
| `PushGetsOn` | `Spec => [][InPush /\ InPush' => WorkDone \/ WaitsForAnswer]_vars` |

`TypeOK` is strengthened with `BatchOpen`: outside a push the batch has room and none of
it is in the queue pair; without it a call could write behind the last entry. `GivenOnce`
says that the batch has the packets of the last calls, that those handed over, in the queue pair or
answered for, are the calls up to `Given`, and that none is in both places. So what a push
hands over next is new to the queue pair (`NextPieceIs`), which is also why the pair stays
within its descriptors: a step adds as many operations as it counts (`EnqueueGives`), or
moves some from one place to the other (`DequeueTakes`).
`PushWork` counts what each operation of a push still needs: to be handed over, answered and
pulled. Every step inside a push makes it smaller, or finds the queue pair full or without
responses and leaves everything as it is; with a full pair there is an operation to answer or
a response to pull, so worker and accelerator never wait for each other.

`Reorder_proofs` proves, for every size of the buffers and width of the sequence numbers
with `2 * Size < Modulus` and a `MaxDelay` of at most `Modulus - 2 * Size` (`ReorderAssumption`; in the
program 2^32, the buffer's size and the packets in flight):

| Theorem | States |
| --- | --- |
| `TypeCorrect` | `Spec => []TypeOK` |
| `WindowStaysAligned` | `Spec => []WindowAligned` |
| `OutputStaysAscending` | `Spec => []OutputAscends` |
| `PacketsStayOnce` | `Spec => []EachPacketOnce` |
| `DrainStopsOnlyAtGap` | `Spec => [][StandsStillAtGap]_vars`: a drain that gives nothing back waits for a packet that is not there |

The inductive invariant of the window adds `FillInv` and `ReadyInv`. During an overflow `order_head` has
moved by `order_head_adv` and `min_seqn` has not: what is still behind the head is of the
window that the overflow found, so `order_head_adv` never passes the packet that caused the overflow,
and both agree again when it returns. `ReadyInv` says that the entries of `ready_buf` in
use hold packets. The first lemmas are arithmetic of remainders, which the
solver does not do by itself.

That an entry is for one *number* does not make it be for one *packet*, and without
`outrun` the last two theorems are false: the attempt to prove them led to the
counterexample described above. Until then, `OffsetExact` says that the offset
of a packet, a remainder, is its distance from `first`; it needs that no packet of the
pipeline is more than `MaxDelay` late. `PlaceInv` is then exact: entry k is for packet
`Due + k`, and all that has been given back or waits in `ready_buf` (`Out`) ascends and came
before `Due`. An overflow and a drain append to `Out` exactly what the head has moved over
(`OutGrows`, `OutDrains`), so both stay true. `OnceInv` says that the numbered packets are split
between the pipeline, insert's hand, `Kept` (window and `Out`), the refused and the lost.
`DrainStopsOnlyAtGap` uses both: a numbered packet that is due (`first`) is in one of these places;
it is not in `Out`, which is older, and if the drain takes nothing it is not at the head of the
window, the only entry that is for it.

`FlowTable_proofs` proves, for every traffic, keys and size (`FlowAssumption`):

| Theorem | States |
| --- | --- |
| `TypeCorrect` | `Spec => []TypeOK` |
| `PositionsAreAccounted` | `Spec => []PositionsAccounted` |
| `FlowHasOneEntry` | `Spec => []OneEntryPerKey` |
| `SymmetricKeysFindConversations` | `Spec => []SymmetricKeysFind` |
| `TableImplementsMap` | `Spec => ImplementsMap`, the refinement of `FlowMap` |

`HashInv` strengthens `OneEntryPerKey`: an entry has the port's hash or the software's, of its
key, according to the interfaces used. `MapInv` adds to the types and positions that
entries have keys and hashes that occur. The refinement shows for adding, removing and
writing what `Content` becomes (`ContentAdd`, `ContentRemove`, `ContentWrite`), and that a free
position means fewer keys than the capacity (`RoomLeft`, by counting positions).

`Configuration_proofs` proves, for every set of arguments and every limit
(`ConfigurationAssumption`: defaults and limits fit each other):

| Theorem | States |
| --- | --- |
| `TypeCorrect` | `Spec => []TypeOK` |
| `EarlierWins` | `Spec => []FirstSettingWins` |
| `RawRulesStand` | `Spec => []RawRulesNotOverridden` |
| `AcceptedUsable` | `Spec => []AcceptedIsUsable` |

`HistoryInv` types what the parser sees: the arguments of the user (`Args`), those of lines without a
value, and values that are the text of an option; before the command line has ended all of it comes
from there. `FirstInv` says of each option that it has the value of the first setting in
`given`, from the sources that count for it (`CompiledSources` for the compiled rules), and a
setting that is appended is the first only if there was none (`FirstKept`). `NameInv` does so for the
name of the file, which gets its default in between. `RawInv` follows `raw_rule_cmd_line`
from the command line into the parse of the file.

`Lifecycle_proofs` proves, for every number of cores, lcores, devices, instances and queue
pairs (`LifecycleAssumption`):

| Theorem | States |
| --- | --- |
| `ReleasedOnce` | `Spec => []NothingReleasedTwice` |
| `LaunchedComplete` | `Spec => []StartComplete` |
| `NothingLeftAtExit` | `Spec => []ReleasedAtExit` |
| `RunFollowsItsOwn` | `Spec => []RunFollowsOnlyItsOwn` |

`FreedInv` says which kinds of objects cannot have been released yet at each label: all,
before the first label; each label only what its callers do not undo themselves.
`StartInv` says what each call leaves for the launch. `HeldInv` says what can be held: at a call no
more than the calls before it acquire, at a label no more than it and those behind it
release, and what a failing initialisation may leave (`Broken`, `Leftover`). `FollowInv` says
what pointers may have been followed: none wrongly before the launch, and after it only
those of workers that were launched.

`ResourceAllocation_proofs` proves, for every cluster and pipeline (`AllocationAssumption`):

| Theorem | States |
| --- | --- |
| `TypeCorrect` | `Spec => []TypeOK`: units, bandwidth and demands never become negative |
| `UnitsAreConserved` | `Spec => []UnitsConserved` |
| `BandwidthIsAccounted` | `Spec => []BandwidthAccounted` |
| `PlacedInFull` | at the end of the stages each has all the units it asked for |
| `EveryTurnCounts` | each turn that neither crashes nor falls back to the last NIC (index -1) makes `Owed` smaller |

The heart of the first is `QuotientIs`: the units computed by division need no more bandwidth
than there is. The others are about sums over NICs and stages; a placement changes one
term. `BandwidthInv` adds that stages behind the current one have no units yet: what a stage
draws from the idle bandwidth depends on its predecessor's units, which no longer change
when it is placed. `Owed` is the number of units still to place and of stages still to come; a
turn that places nothing and stays at its stage would leave it as it is, and there is none.
`PlacedInFull` follows the stages that are met (`EarlierMet`).

`RunVariants_proofs` proves, for every number of lcores, mbufs and packets
(`RunVariantsAssumption`, `StatisticsAssumption`):

| Theorem | States |
| --- | --- |
| `HandsOverOnce` | `Spec => []HandedOverOnce` |
| `SplitsStayDisjoint` | `Spec => []SplitsDisjoint` |
| `LastTotalsExact` | `Spec => []CountsExact` |
| `LatenciesConsistent` | `Spec => []LatencyConsistent` |

`HandedInv` says for each loop how far the burst at hand has been handed over. `SplitAll` follows a print from entry
to entry: what is remembered of an entry is at most what has been counted, and between the
two reads of it at most what the first has seen. `CountAll` relates the counters to what the lcores really
passed on, with the packets a worker has passed on and not counted yet; `FinalInv` says
that in the last print nothing is counted any more. `LatInv` bounds the total by the number of
packets times the least and the greatest latency, and the count of samples by the greatest
latency and the number of packets, as long as these fit in an int together; it says that
either the whole array has been written or the count tells how far. The 64-bit sums are
taken not to wrap.

Sums, folds and cardinalities over data of any size appear in several of these theorems. The
induction theorems of the library cannot be used for them; the proofs
take the least counterexample instead (`NatLessThanWellFounded`), as in `SubsetInduction`.

Only model-checked is liveness (`EveryPacketLeaves`, `SignalStopsMain`, `LimitStopsBusyMain`,
`RunEndsUnlessBlocked`, `DrainsDry`, `PushReturns`, `Ends`): fairness and `ENABLED` are out of the
prover's reach. What their steps do is proved (`NeverRestsOnPackets`, `SignalUnwinds`,
`WorkersRetire`, `DrainStopsOnlyAtGap`, `PushGetsOn`, `EveryTurnCounts`); `LimitStopsBusyMain` is about
the loop going round once more and has no such theorem.

## Not modelled, and why

* The rate limiter: it compares clocks and skips a poll. Rewriting of MAC addresses.
* `rte_reorder_drain_up_to_seqn`, `rte_reorder_reset`, `rte_reorder_find_existing`, `reorder_verify`,
  the reference count test in `pipeline_post_search`: not called, compiled out, or without
  effect on the control.
* Compiling and loading rules: the vendor's library; in `Lifecycle` the rules are an object.
* `LATENCY_MODE_ON` inside main's loop, `ONLY_MAIN_MODE_ON`, `SHARED_BUFFER`: other builds.
* Running out of memory where `conf_parse_file` copies a value: the copy is not checked
  (`meili_conf.c:615`), and `getopt_long` would find the end of the vector there.
* The tables that `stats.c` prints, log levels, string and number helpers: formatting and
  sequential helpers. Of the log, the bounded list of warnings is in `Configuration`.
* The user functions of `src/src/example`: sequential code on one packet.
* `run_local.c`, the text and pcap input: stubs in this build.
* cJSON, SHA-1, rule sets, traffic generator: third-party or data.

## What is left

* `OrderedPipeline`, composing `PathService` with `Reorder`: FIFO paths and the reorder buffer
  together give the order in which packets were numbered, as long as no path is more
  than a window behind. The code does not compose them now (the call is commented out).
* `RegexQueue` composed with `DataPlane`: what is staged or in the accelerator at the end of a
  run, when nothing calls `regex_dev_post_search`.
