------------------------------ MODULE RegexQueue ------------------------------
(***************************************************************************)
(* The regex API on one worker lcore: regex() stages the packet as an      *)
(* operation of the next batch (search_live); a full batch is pushed into  *)
(* the worker's queue pair of the accelerator, which may take it in pieces;*)
(* otherwise finished operations are pulled once.  The packet then goes on *)
(* to the main lcore, which frees it.                                      *)
(*                                                                         *)
(* A packet is its number in the order of the calls.  The queue pair (the  *)
(* accelerator behind it is not part of this code) takes operations while  *)
(* it has descriptors left.  It is configured to "Accept out of order      *)
(* results." (RTE_REGEX_QUEUE_PAIR_CFG_OOS_F): any operation in it may be  *)
(* answered first, and any answered ones come out of it first.             *)
(***************************************************************************)
EXTENDS Integers, Sequences, FiniteSets

CONSTANTS
  BatchSize,   \* max_batch_size: operations of a batch (input_batches)
  QueueDepth,  \* descriptors of the queue pair
  MaxPkts      \* bound: packets the worker passes to regex()

ASSUME RegexAssumption ==
  /\ BatchSize \in Nat \ {0}
  /\ QueueDepth \in Nat \ {0}
  /\ MaxPkts \in Nat

VARIABLES
  pc,              \* idle, or inside regex(): push, poll (in a push), pull
  seen,            \* packets passed to regex() so far
  staged,          \* ops_arr_tx, the first op_offset entries
  num_enqueued,    \* operations of the batch in the queue pair
  device,          \* the operations in the queue pair, a set: one that is handed over
                   \* twice shows in what is counted (CountersExact)
  answered,        \* those of them that have a response
  responses,       \* history: packets whose response was handled
  total_enqueued, total_dequeued,
  freed            \* packets main has freed (it frees them in order)

vars == <<pc, seen, staged, num_enqueued, device, answered, responses,
          total_enqueued, total_dequeued, freed>>

Lesser(a, b) == IF a <= b THEN a ELSE b

\* The operations of the batch in places a .. b.
Piece(a, b) == {staged[i] : i \in a .. b}

Init ==
  /\ pc = "idle" /\ seen = 0
  /\ staged = <<>> /\ num_enqueued = 0
  /\ device = {} /\ answered = {} /\ responses = {}
  /\ total_enqueued = 0 /\ total_dequeued = 0
  /\ freed = 0

\* Operators whose name ends in Bug are variants with a plausible error, put in
\* the place of the operator after them to see that a property notices.
BatchFullBug(ops) == Len(ops) > BatchSize

\* search_live asks for a push when the batch is complete.
BatchFull(ops) == Len(ops) = BatchSize

\* regex() is called with the next packet.
Search ==
  /\ pc = "idle"
  /\ seen < MaxPkts
  /\ seen' = seen + 1
  /\ staged' = Append(staged, seen + 1)
  /\ pc' = IF BatchFull(staged') THEN "push" ELSE "pull"
  /\ UNCHANGED <<num_enqueued, device, answered, responses, total_enqueued,
                 total_dequeued, freed>>

Accepted == Lesser(Len(staged) - num_enqueued, QueueDepth - Cardinality(device))

EnqueueRestartBug ==
  /\ pc = "push" /\ num_enqueued < Len(staged)
  /\ device' = device \cup Piece(1, Accepted)
  /\ num_enqueued' = num_enqueued + Accepted
  /\ pc' = "poll"
  /\ UNCHANGED <<seen, staged, answered, responses, total_enqueued,
                 total_dequeued, freed>>

EnqueueSpinBug ==
  /\ pc = "push" /\ num_enqueued < Len(staged)
  /\ device' = device \cup Piece(num_enqueued + 1, num_enqueued + Accepted)
  /\ num_enqueued' = num_enqueued + Accepted
  /\ pc' = IF Accepted > 0 THEN "poll" ELSE "push"
  /\ UNCHANGED <<seen, staged, answered, responses, total_enqueued,
                 total_dequeued, freed>>

\* A turn of the push loop hands over what the queue pair takes, ...
Enqueue ==
  /\ pc = "push" /\ num_enqueued < Len(staged)
  /\ device' = device \cup Piece(num_enqueued + 1, num_enqueued + Accepted)
  /\ num_enqueued' = num_enqueued + Accepted
  /\ pc' = "poll"
  /\ UNCHANGED <<seen, staged, answered, responses, total_enqueued,
                 total_dequeued, freed>>

\* What a burst may return: as many answered operations as it has room for.
Bursts ==
  {ops \in SUBSET answered : Cardinality(ops) = Lesser(BatchSize, Cardinality(answered))}

\* ... and then takes responses, to make room.  So does a call without a push.
Dequeue ==
  /\ pc \in {"poll", "pull"}
  /\ \E ops \in Bursts :
       /\ responses' = responses \cup ops
       /\ device' = device \ ops
       /\ answered' = answered \ ops
       /\ total_dequeued' = total_dequeued + Cardinality(ops)
  /\ pc' = IF pc = "poll" THEN "push" ELSE "idle"
  /\ UNCHANGED <<seen, staged, num_enqueued, total_enqueued, freed>>

PushedBug ==
  /\ pc = "push" /\ num_enqueued = Len(staged)
  /\ total_enqueued' = total_enqueued + Len(staged) - Cardinality(device)
  /\ staged' = <<>>
  /\ num_enqueued' = 0
  /\ pc' = "idle"
  /\ UNCHANGED <<seen, device, answered, responses, total_dequeued, freed>>

\* The whole batch is in: count it and start a new one.
Pushed ==
  /\ pc = "push" /\ num_enqueued = Len(staged)
  /\ total_enqueued' = total_enqueued + num_enqueued
  /\ staged' = <<>>
  /\ num_enqueued' = 0
  /\ pc' = "idle"
  /\ UNCHANGED <<seen, device, answered, responses, total_dequeued, freed>>

\* The accelerator finishes the search for one of the operations.
Answer ==
  /\ \E op \in device \ answered : answered' = answered \cup {op}
  /\ UNCHANGED <<pc, seen, staged, num_enqueued, device, responses,
                 total_enqueued, total_dequeued, freed>>

\* regex() has returned for the packet, the worker has passed it on, main frees it.
Free ==
  /\ freed < IF pc = "idle" THEN seen ELSE seen - 1
  /\ freed' = freed + 1
  /\ UNCHANGED <<pc, seen, staged, num_enqueued, device, answered, responses,
                 total_enqueued, total_dequeued>>

InCall == Enqueue \/ Dequeue \/ Pushed

Next == Search \/ InCall \/ Answer \/ Free

Spec == Init /\ [][Next]_vars

(***************************************************************************)
(* The worker lcore does not stop in the middle of a call, and the         *)
(* accelerator answers what it has been given.                             *)
(***************************************************************************)
FairSpec == Spec /\ WF_vars(InCall) /\ WF_vars(Answer)

-----------------------------------------------------------------------------

\* Every variable has a value of its type; the batch fits in its array and the
\* queue pair is never given more than it has descriptors for.
TypeOK ==
  /\ pc \in {"idle", "push", "poll", "pull"}
  /\ seen \in 0 .. MaxPkts /\ freed \in 0 .. seen
  /\ staged \in Seq(Nat) /\ Len(staged) <= BatchSize
  /\ num_enqueued \in 0 .. Len(staged)
  /\ device \in SUBSET Nat /\ IsFiniteSet(device) /\ Cardinality(device) <= QueueDepth
  /\ answered \in SUBSET device
  /\ responses \in SUBSET Nat
  /\ total_enqueued \in Nat /\ total_dequeued \in Nat

(* Each packet passed to regex() is searched exactly once, however a push is split
   over a full queue pair and in whatever order the accelerator answers: at any time
   it is in one of three places, still to push, in the queue pair, or answered for. *)
SearchedOnce ==
  LET rest == Piece(num_enqueued + 1, Len(staged))
  IN /\ rest \cup device \cup responses = 1 .. seen
     /\ rest \cap device = {} /\ rest \cap responses = {} /\ device \cap responses = {}

(* Between calls total_enqueued and total_dequeued, which post_search compares
   to see whether operations are in flight, differ by exactly those; during a
   push, which dequeues before it counts, total_dequeued may be ahead. *)
CountersExact ==
  total_enqueued + num_enqueued - total_dequeued = Cardinality(device)

(* A push into a full queue pair returns: it takes responses while it waits, so
   worker and accelerator do not wait for each other. *)
PushReturns == pc = "push" ~> pc = "idle"

(* What prep_op says of the packet's mbuf: it is not released until the response
   is handled. *)
ReleasedAfterResponse == 1 .. freed \subseteq responses

=============================================================================
