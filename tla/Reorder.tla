------------------------------- MODULE Reorder -------------------------------
(***************************************************************************)
(* Packet ordering: seq_exec numbers the packets that enter the pipeline,  *)
(* reorder_exec puts the packets that leave it back in order, with the     *)
(* reorder buffer of rte_reorder.c.  That buffer is two circular buffers:  *)
(* order_buf, a window of consecutive sequence numbers whose first is      *)
(* min_seqn, and ready_buf, where packets wait that the window has passed. *)
(*                                                                         *)
(* A packet is the number of packets seq_exec saw before it; the sequence  *)
(* number in its mbuf is that number, wrapped.  Between the two stages a   *)
(* packet may be overtaken by others.  Main's calls of reorder_exec are    *)
(* commented out in this code: this is the component as they would use it. *)
(***************************************************************************)
EXTENDS Integers, Sequences, FiniteSets

CONSTANTS
  Size,        \* entries of each circular buffer (REORDER_BUFFER_SIZE)
  Modulus,     \* sequence numbers are below it (2^32)
  SeqStart,    \* the first one (SEQ_NUM_START)
  ExecMax,     \* most mbufs one call of reorder_exec is given
  DrainMax,    \* most mbufs it drains (REORDER_DEFAULT_BATCH_SIZE)
  MaxDelay,    \* bound: packets numbered while a packet is in the pipeline
  MaxPkts,     \* bound: packets ever numbered
  None         \* the NULL entry

ASSUME ReorderAssumption ==
  /\ Size \in Nat \ {0} /\ Modulus \in Nat \ {0}
  /\ 2 * Size < Modulus
  /\ SeqStart \in 0 .. Modulus - 1
  /\ ExecMax \in Nat /\ DrainMax \in Nat \ {0}
  /\ MaxDelay \in 1 .. Modulus - 2 * Size
  /\ MaxPkts \in Nat
  /\ None \notin Nat

VARIABLES
  numbered,    \* packets numbered so far (seq_state.seqn, not wrapped)
  pipeline,    \* packets numbered and not yet at reorder_exec
  pc,          \* idle, or in reorder_exec: exec, or in fill_overflow: outer, inner
  left,        \* mbufs of the call still to insert
  mbuf,        \* mbuf being inserted while fill_overflow runs
  order_head_adv,
  needed,      \* fill_overflow's n
  order, order_head,                \* order_buf
  ready, ready_head, ready_tail,    \* ready_buf
  min_seqn,
  drained,     \* history: packets given back, in order
  rejected,    \* history: packets insert refused (ERANGE, ENOSPC)
  lost,        \* history: packets in no reachable entry
  first,       \* history: the packet that min_seqn stands for
  outrun       \* history: insert has met a packet a turn of the numbers after it

srcVars == <<numbered, pipeline>>
fillVars == <<mbuf, order_head_adv, needed>>
orderVars == <<order, order_head, min_seqn>>
readyVars == <<ready, ready_head, ready_tail>>
histVars == <<drained, rejected, lost>>
turnVars == <<first, outrun>>
vars == <<srcVars, pc, left, fillVars, orderVars, readyVars, histVars, turnVars>>

Position == 0 .. Size - 1
Seqn(m) == (SeqStart + m) % Modulus
Masked(i) == i % Size
Lesser(a, b) == IF a <= b THEN a ELSE b

Init ==
  /\ numbered = 0 /\ pipeline = {}
  /\ pc = "idle" /\ left = 0
  /\ mbuf = None /\ order_head_adv = 0 /\ needed = 0
  /\ order = [i \in Position |-> None] /\ order_head = 0
  /\ ready = [i \in Position |-> None] /\ ready_head = 0 /\ ready_tail = 0
  /\ min_seqn = SeqStart
  /\ drained = <<>> /\ rejected = {} /\ lost = {}
  /\ first = 0 /\ outrun = FALSE

\* seq_exec, for one packet of its burst.
SeqExec ==
  /\ numbered < MaxPkts
  /\ \A m \in pipeline : numbered - m < MaxDelay
  /\ numbered' = numbered + 1
  /\ pipeline' = pipeline \cup {numbered}
  /\ UNCHANGED <<pc, left, fillVars, orderVars, readyVars, histVars, turnVars>>

\* reorder_exec is called with n mbufs.
Call(n) ==
  /\ pc = "idle"
  /\ left' = n
  /\ pc' = "exec"
  /\ UNCHANGED <<srcVars, fillVars, orderVars, readyVars, histVars, turnVars>>

-----------------------------------------------------------------------------
(* rte_reorder_insert: the next mbuf of the call is any of the pipeline's. *)

\* Operators whose name ends in Bug are variants with a plausible error, put in
\* the place of the operator after them to see that a property notices.
OffsetBug(m) == IF Seqn(m) >= min_seqn THEN Seqn(m) - min_seqn ELSE 0

\* How far packet m is from the head; the subtraction wraps.
Offset(m) == (Seqn(m) - min_seqn) % Modulus

NextMbuf(m) ==
  /\ pc = "exec" /\ left > 0
  /\ m \in pipeline
  /\ pipeline' = pipeline \ {m}
  /\ left' = left - 1
  /\ outrun' = (outrun \/ m - first >= Modulus)

\* The packet fits in the window.
InsertInWindow(m) ==
  /\ NextMbuf(m)
  /\ Offset(m) < Size
  /\ order' = [order EXCEPT ![Masked(order_head + Offset(m))] = m]
  /\ UNCHANGED <<numbered, pc, fillVars, order_head, min_seqn, readyVars, histVars, first>>

\* It is just outside: the window has to move by at least `needed' positions.
InsertOverflow(m) ==
  /\ NextMbuf(m)
  /\ Offset(m) >= Size /\ Offset(m) < 2 * Size
  /\ mbuf' = m
  /\ needed' = Offset(m) + 1 - Size
  /\ order_head_adv' = 0
  /\ pc' = "outer"
  /\ UNCHANGED <<numbered, orderVars, readyVars, histVars, first>>

\* It is vastly outside: ERANGE.  reorder_exec prints a message and goes on.
InsertOutOfRange(m) ==
  /\ NextMbuf(m)
  /\ Offset(m) >= 2 * Size
  /\ rejected' = rejected \cup {m}
  /\ UNCHANGED <<numbered, pc, fillVars, orderVars, readyVars, drained, lost, first>>

-----------------------------------------------------------------------------
(* rte_reorder_fill_overflow, one step for each turn of its two loops.     *)

ReadyFull == Masked(ready_head + 1) = ready_tail

AdvanceBug ==
  /\ order_head' = order_head + 1
  /\ order_head_adv' = order_head_adv + 1

\* The head of order_buf moves by one position.
Advance ==
  /\ order_head' = Masked(order_head + 1)
  /\ order_head_adv' = order_head_adv + 1

\* A turn of the outer loop: if a packet is missing at the head, skip it.
FillOuter ==
  /\ pc = "outer"
  /\ order_head_adv < needed /\ ~ReadyFull
  /\ IF order[order_head] = None THEN Advance ELSE UNCHANGED <<order_head, order_head_adv>>
  /\ pc' = "inner"
  /\ UNCHANGED <<srcVars, left, mbuf, needed, order, min_seqn, readyVars, histVars, turnVars>>

\* A turn of the inner loop moves the packet at the head to ready_buf.  When
\* that is full it stops, and does not step over the entry it has just written.
FillMove ==
  /\ pc = "inner"
  /\ order[order_head] # None
  /\ ready' = [ready EXCEPT ![ready_head] = order[order_head]]
  /\ order' = [order EXCEPT ![order_head] = None]
  /\ Advance
  /\ IF ReadyFull
     THEN pc' = "outer" /\ lost' = lost \cup {order[order_head]} /\ UNCHANGED ready_head
     ELSE ready_head' = Masked(ready_head + 1) /\ UNCHANGED <<pc, lost>>
  /\ UNCHANGED <<srcVars, left, mbuf, needed, min_seqn, ready_tail, drained, rejected, turnVars>>

FillRunEnds ==
  /\ pc = "inner"
  /\ order[order_head] = None
  /\ pc' = "outer"
  /\ UNCHANGED <<srcVars, left, fillVars, orderVars, readyVars, histVars, turnVars>>

FillReturnsBug ==
  /\ pc = "outer"
  /\ order_head_adv >= needed \/ ReadyFull
  /\ min_seqn' = (min_seqn + order_head_adv) % Modulus /\ first' = first + order_head_adv
  /\ IF order_head_adv < needed
     THEN rejected' = rejected \cup {mbuf} /\ UNCHANGED order
     ELSE /\ order' = [order EXCEPT ![Masked(order_head + Offset(mbuf))] = mbuf]
          /\ UNCHANGED rejected
  /\ mbuf' = None /\ order_head_adv' = 0 /\ needed' = 0
  /\ pc' = "exec"
  /\ UNCHANGED <<srcVars, left, order_head, readyVars, drained, lost, outrun>>

\* fill_overflow returns and insert goes on: ENOSPC, or the packet now fits.
FillReturns ==
  /\ pc = "outer"
  /\ order_head_adv >= needed \/ ReadyFull
  /\ min_seqn' = (min_seqn + order_head_adv) % Modulus /\ first' = first + order_head_adv
  /\ IF order_head_adv < needed
     THEN rejected' = rejected \cup {mbuf} /\ UNCHANGED order
     ELSE /\ order' = [order EXCEPT ![Masked(order_head + Offset(mbuf) - order_head_adv)] = mbuf]
          /\ UNCHANGED rejected
  /\ mbuf' = None /\ order_head_adv' = 0 /\ needed' = 0
  /\ pc' = "exec"
  /\ UNCHANGED <<srcVars, left, order_head, readyVars, drained, lost, outrun>>

-----------------------------------------------------------------------------
(* rte_reorder_drain, with which reorder_exec ends.                        *)

ReadyCount == Masked(ready_head - ready_tail)
ReadyList == [k \in 1 .. ReadyCount |-> ready[Masked(ready_tail + k - 1)]]
OrderAt(k) == order[Masked(order_head + k)]

\* The packets at the head of order_buf up to the first gap, at most n of them.
RunLength(n) ==
  CHOOSE k \in 0 .. Lesser(n, Size) :
    /\ \A i \in 0 .. k - 1 : OrderAt(i) # None
    /\ k = Lesser(n, Size) \/ OrderAt(k) = None
Run(n) == [k \in 1 .. RunLength(n) |-> OrderAt(k - 1)]

Cleared(entries, from, n) ==
  [p \in Position |-> IF Masked(p - from) < n THEN None ELSE entries[p]]

DrainOrderFirstBug ==
  /\ pc = "exec" /\ left = 0
  /\ LET o == RunLength(DrainMax)
         r == Lesser(DrainMax - o, ReadyCount)
     IN /\ drained' = drained \o Run(DrainMax) \o SubSeq(ReadyList, 1, r)
        /\ ready' = Cleared(ready, ready_tail, r)
        /\ ready_tail' = Masked(ready_tail + r)
        /\ order' = Cleared(order, order_head, o)
        /\ order_head' = Masked(order_head + o)
        /\ min_seqn' = (min_seqn + o) % Modulus /\ first' = first + o
  /\ pc' = "idle"
  /\ UNCHANGED <<srcVars, left, fillVars, ready_head, rejected, lost, outrun>>

DrainReadyOnlyBug ==
  /\ pc = "exec" /\ left = 0
  /\ LET r == Lesser(DrainMax, ReadyCount)
     IN /\ drained' = drained \o SubSeq(ReadyList, 1, r)
        /\ ready' = Cleared(ready, ready_tail, r)
        /\ ready_tail' = Masked(ready_tail + r)
  /\ pc' = "idle"
  /\ UNCHANGED <<srcVars, left, fillVars, orderVars, ready_head, rejected, lost, turnVars>>

\* All of the call are in: first what waits in ready_buf, then, if there is
\* room, the packets at the head of order_buf.
Drain ==
  /\ pc = "exec" /\ left = 0
  /\ LET r == Lesser(DrainMax, ReadyCount)
         o == RunLength(DrainMax - r)
     IN /\ drained' = drained \o SubSeq(ReadyList, 1, r) \o Run(DrainMax - r)
        /\ ready' = Cleared(ready, ready_tail, r)
        /\ ready_tail' = Masked(ready_tail + r)
        /\ order' = Cleared(order, order_head, o)
        /\ order_head' = Masked(order_head + o)
        /\ min_seqn' = (min_seqn + o) % Modulus /\ first' = first + o
  /\ pc' = "idle"
  /\ UNCHANGED <<srcVars, left, fillVars, ready_head, rejected, lost, outrun>>

-----------------------------------------------------------------------------

Insert(m) == InsertInWindow(m) \/ InsertOverflow(m) \/ InsertOutOfRange(m)
Fill == FillOuter \/ FillMove \/ FillRunEnds \/ FillReturns

\* reorder_exec is given mbufs that have come out of the pipeline.
ReorderExec ==
  \/ \E n \in 0 .. Lesser(ExecMax, Cardinality(pipeline)) : Call(n)
  \/ \E m \in pipeline : Insert(m)
  \/ Fill
  \/ Drain

Next == SeqExec \/ ReorderExec

Spec == Init /\ [][Next]_vars

(***************************************************************************)
(* The call in run_dpdk stands in the loop of the main lcore, a thread     *)
(* pinned to a core of its own: reorder_exec is called again and again,    *)
(* with or without packets, and a call returns.  Nothing is assumed of the *)
(* traffic, nor that a packet comes out of the pipeline.                   *)
(***************************************************************************)
FairSpec == Spec /\ WF_vars(ReorderExec)

-----------------------------------------------------------------------------

\* Every variable has a value of its type.
TypeOK ==
  /\ numbered \in 0 .. MaxPkts
  /\ pipeline \subseteq Nat /\ IsFiniteSet(pipeline)
  /\ pc \in {"idle", "exec", "outer", "inner"}
  /\ left \in 0 .. ExecMax
  /\ mbuf \in Nat \cup {None}
  /\ order_head_adv \in Nat /\ needed \in 0 .. Size
  /\ order \in [Position -> Nat \cup {None}] /\ order_head \in Position
  /\ ready \in [Position -> Nat \cup {None}]
  /\ ready_head \in Position /\ ready_tail \in Position
  /\ min_seqn \in 0 .. Modulus - 1
  /\ drained \in Seq(Nat) /\ rejected \subseteq Nat /\ lost \subseteq Nat
  /\ first \in Nat /\ outrun \in BOOLEAN

(* The window: entry k behind the head of order_buf is for the sequence number
   min_seqn + k, through every move of the head by a drain or by an overflow
   (which adds what it moved to min_seqn only when it returns). *)
WindowAligned ==
  \A k \in Position :
    OrderAt(k) # None =>
      Seqn(OrderAt(k)) = (min_seqn + order_head_adv + k) % Modulus

(* What has been given back, what waits in ready_buf and what is in order_buf
   ascend, in this order, across the wrap-around of sequence numbers: no drain
   and no insert, of a late packet or of one that moves the window, can make a
   packet leave after one numbered later.  Only when the window has fallen behind
   by a whole turn of the numbers (it is not moved for packets that are refused as
   out of range) is a packet taken for one that was due long ago. *)
OutputAscends ==
  ~outrun =>
    LET out == drained \o ReadyList
    IN /\ \A i, j \in 1 .. Len(out) : i < j => out[i] < out[j]
       /\ \A k \in Position :
            OrderAt(k) # None =>
              /\ \A i \in 1 .. Len(out) : out[i] < OrderAt(k)
              /\ \A j \in 0 .. k - 1 : OrderAt(j) # None => OrderAt(j) < OrderAt(k)

Copies(m) ==
  Cardinality({p \in Position : order[p] = m})
  + Cardinality({k \in 1 .. ReadyCount : ReadyList[k] = m})
  + Cardinality({i \in DOMAIN drained : drained[i] = m})
  + Cardinality({c \in {"pipeline", "mbuf", "rejected", "lost"} :
                   \/ c = "pipeline" /\ m \in pipeline
                   \/ c = "mbuf" /\ m = mbuf
                   \/ c = "rejected" /\ m \in rejected
                   \/ c = "lost" /\ m \in lost})

(* A packet is in exactly one place: none is overwritten in its entry by another
   that is placed there, or is given back twice; again, unless the window has fallen
   behind by a turn of the numbers. *)
EachPacketOnce == ~outrun => \A m \in 0 .. numbered - 1 : Copies(m) = 1

(* When all packets have come out of the pipeline and none was refused, all are
   given back, by calls without new packets: a drain that takes few packets
   leaves none behind for good. *)
DrainsDry ==
  [] (numbered = MaxPkts /\ pipeline = {} /\ rejected = {} /\ lost = {} /\ mbuf = None
        => <> (Len(drained) = MaxPkts \/ rejected # {} \/ lost # {}))

=============================================================================
