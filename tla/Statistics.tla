----------------------------- MODULE Statistics -----------------------------
(***************************************************************************)
(* The statistics of a run: every lcore counts in an entry of rm_stats of  *)
(* its own, main prints all entries while the workers go on counting, and  *)
(* the latency build samples the time that each packet took.               *)
(*                                                                         *)
(* This module has the state and the operators; RunVariants has the loops  *)
(* that count.                                                             *)
(***************************************************************************)
EXTENDS Integers, Sequences, FiniteSets, FiniteSetsExt, SequencesExt

CONSTANTS
  Cores,      \* number of entries of rm_stats; main has entry 0
  NbSamples,  \* NUMBER_OF_SAMPLE, one less than a power of two
  IntHalf,    \* 2^31: an int reaches from -IntHalf to IntHalf - 1
  MaxPrints   \* bound: prints during the run

ASSUME StatisticsAssumption ==
  /\ Cores \in Nat \ {0} /\ MaxPrints \in Nat
  /\ NbSamples \in Nat \ {0}
  /\ IntHalf \in Nat /\ NbSamples < IntHalf

VARIABLES
  tx,      \* tx_buf_cnt and tx_buf_bytes of each entry
  split,   \* split_tx_buf_cnt and split_tx_buf_bytes
  printing, \* the print in progress: entries to go, what was read of the first
  prints,  \* prints begun
  shown,   \* history: what the splits printed so far add up to
  total,   \* history: the totals of the last print
  lat      \* nb_sampled, time_diff_sample, tot_lat, min_lat and max_lat

statVars == <<tx, split, printing, prints, shown, total, lat>>
printVars == <<split, printing, prints, shown, total>>

Queues == 0 .. Cores - 1
Zero == [cnt |-> 0, bytes |-> 0]
Plus(a, b) == [cnt |-> a.cnt + b.cnt, bytes |-> a.bytes + b.bytes]
Minus(a, b) == [cnt |-> a.cnt - b.cnt, bytes |-> a.bytes - b.bytes]
AtMost(a, b) == a.cnt <= b.cnt /\ a.bytes <= b.bytes

Unset == -1
Nothing == [todo |-> <<>>, seen |-> Zero, step |-> "read", last |-> FALSE]

\* Operators whose name ends in Bug are variants with a plausible error, put in
\* the place of the operator after them to see that a property notices.

\* stats_init
StatsInit ==
  /\ tx = [q \in Queues |-> Zero] /\ split = tx /\ shown = tx /\ total = tx
  /\ printing = Nothing /\ prints = 0
  /\ lat = [nb |-> 0, samples |-> [i \in 0 .. NbSamples - 1 |-> Unset],
            tot |-> 0, min |-> Unset, max |-> 0]

-----------------------------------------------------------------------------
(* Printing                                                                *)

\* stats_print_update visits the even entries, each with the one behind it, which are
\* all of them in order.
PrintOrder == [k \in 1 .. Cores |-> k - 1]

\* The print of every second, and the one at the end of the run.
BeginPrint(last) ==
  /\ printing = Nothing
  /\ last \/ prints < MaxPrints
  /\ prints' = prints + 1
  /\ printing' = [Nothing EXCEPT !.todo = PrintOrder, !.last = last]
  /\ UNCHANGED <<tx, split, shown, total, lat>>

\* stats_print_update_single: the totals and the rate since the last printing.
PrintRead ==
  /\ printing.todo # <<>> /\ printing.step = "read"
  /\ LET q == Head(printing.todo)
     IN /\ shown' = [shown EXCEPT ![q] = Plus(@, Minus(tx[q], split[q]))]
        /\ total' = IF printing.last THEN [total EXCEPT ![q] = tx[q]] ELSE total
        /\ printing' = [printing EXCEPT !.seen = tx[q], !.step = "store"]
  /\ UNCHANGED <<tx, split, prints, lat>>

PrintStoreBug ==
  /\ printing.step = "store"
  /\ printing' = IF Len(printing.todo) = 1 THEN Nothing
                 ELSE [printing EXCEPT !.todo = Tail(@), !.step = "read", !.seen = Zero]
  /\ UNCHANGED <<tx, split, prints, shown, total, lat>>

\* Then the counters are remembered.  Nothing orders these reads against the lcore
\* that counts: the values are those printed, or later ones.
PrintStore ==
  /\ printing.step = "store"
  /\ LET q == Head(printing.todo)
     IN \E cnt \in {printing.seen.cnt, tx[q].cnt}, bytes \in {printing.seen.bytes, tx[q].bytes} :
          split' = [split EXCEPT ![q] = [cnt |-> cnt, bytes |-> bytes]]
  /\ printing' = IF Len(printing.todo) = 1 THEN Nothing
                 ELSE [printing EXCEPT !.todo = Tail(@), !.step = "read", !.seen = Zero]
  /\ UNCHANGED <<tx, prints, shown, total, lat>>

-----------------------------------------------------------------------------
(* Latency                                                                 *)

SampleIndexBug(nb) == (nb + 1) % (NbSamples + 1)

\* nb_sampled & NUMBER_OF_SAMPLE: a remainder, as that is one less than a power of two.
SampleIndex(nb) == nb % (NbSamples + 1)

\* The low word of a number, as a signed int.
AsInt(x) ==
  LET low == x % (2 * IntHalf) IN IF low < IntHalf THEN low ELSE low - 2 * IntHalf

\* A turn of stats_update_time_main.  The array ends at NbSamples - 1 and nb_sampled
\* follows it: the 64 bits of a sample behind the end overwrite nb_sampled, an int,
\* and the padding behind that.  As the store is outside the array, a build may also
\* have nb_sampled in a register over it and put the old count back (kept).
Sampled(l, diff, kept) ==
  LET i == SampleIndex(l.nb)
      nb == IF i < NbSamples \/ kept THEN l.nb ELSE AsInt(diff)
  IN [nb |-> AsInt(nb + 1),
      samples |-> IF i < NbSamples THEN [l.samples EXCEPT ![i] = diff] ELSE l.samples,
      tot |-> l.tot + diff,
      min |-> IF l.min = Unset \/ diff < l.min THEN diff ELSE l.min,
      max |-> IF diff > l.max THEN diff ELSE l.max]

\* The samples that stats_print_lat sorts, when the count is not negative.  A negative
\* one is converted to a huge number, and the sort leaves the array.
Listed(l) == {l.samples[i] : i \in 0 .. (IF l.nb < NbSamples THEN l.nb ELSE NbSamples) - 1}

=============================================================================
