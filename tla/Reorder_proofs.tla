---------------------------- MODULE Reorder_proofs ----------------------------
(***************************************************************************)
(* Proofs about the reorder buffer, for every size of its circular buffers *)
(* and every width of the sequence numbers.  The window first (IInv): an   *)
(* entry of it is for one number.  Then the packets (PlaceInv, OnceInv):   *)
(* until one comes a turn of the numbers after the one that is due, an     *)
(* entry is for one packet, and what has left the window came before it.   *)
(***************************************************************************)
EXTENDS Reorder, SequenceTheorems, FiniteSetTheorems, WellFoundedInduction, TLAPS

-----------------------------------------------------------------------------
(* Remainders.                                                             *)

\* Quotient and remainder.
LEMMA DivisionIs ==
  ASSUME NEW n \in Nat \ {0}, NEW a \in Int
  PROVE  a \div n \in Int /\ a % n \in 0 .. n - 1 /\ a = (n * (a \div n)) + (a % n)
OBVIOUS

\* The remainder is the only number below n that differs by a multiple of n.
LEMMA RemainderIs ==
  ASSUME NEW n \in Nat \ {0}, NEW q \in Int, NEW r \in 0 .. n - 1
  PROVE  ((n * q) + r) % n = r
OBVIOUS

\* A remainder may be taken before an addition.
LEMMA RemainderAdds ==
  ASSUME NEW n \in Nat \ {0}, NEW a \in Int, NEW b \in Int
  PROVE  ((a % n) + b) % n = (a + b) % n
<1> DEFINE q == a \div n
           r == a % n
           c == (r + b) \div n
           d == (r + b) % n
<1>1. q \in Int /\ r \in 0 .. n - 1 /\ a = (n * q) + r
  BY DivisionIs, Zenon
<1>2. c \in Int /\ d \in 0 .. n - 1 /\ r + b = (n * c) + d
  <2> HIDE DEF q, r
  <2>1. r + b \in Int
    BY <1>1
  <2>2. QED
    BY <2>1, DivisionIs, Zenon
<1> HIDE DEF q, r, c, d
<1>3. (n * q) + (n * c) = n * (q + c) /\ q + c \in Int
  BY <1>1, <1>2
<1>4. a + b = (n * (q + c)) + d
  <2>1. n * q \in Int /\ n * c \in Int
    BY <1>1, <1>2
  <2>2. a + b = (n * q) + (r + b)
    BY <1>1, <2>1
  <2>3. a + b = (n * q) + ((n * c) + d)
    BY <1>2, <2>2
  <2>4. QED
    BY <1>2, <1>3, <2>1, <2>3
<1>5. (a + b) % n = d
  BY <1>2, <1>3, <1>4, RemainderIs
<1>6. QED
  BY <1>5 DEF d, r

\* Remainders of what is less than one turn away.
LEMMA RemainderNear ==
  ASSUME NEW n \in Nat \ {0}, NEW a \in 0 .. n - 1
  PROVE  a % n = a /\ (a + n) % n = a /\ (a - n) % n = a
<1>1. (a + n) % n = a
  OBVIOUS
<1>2. (a - n) % n = a
  OBVIOUS
<1>3. QED
  BY <1>1, <1>2

-----------------------------------------------------------------------------
(* Positions of a circular buffer.                                         *)

\* The sizes, as the assumption types them.
LEMMA SizeIs == Size \in Nat /\ Size > 0 /\ Modulus \in Nat /\ Modulus > 0 /\ 2 * Size < Modulus
BY ReorderAssumption

\* The mask wraps an index once, in either direction.
LEMMA MaskedIs ==
  /\ \A i \in 0 .. Size - 1 : Masked(i) = i
  /\ \A i \in Size .. 2 * Size - 1 : Masked(i) = i - Size
  /\ \A i \in -Size .. -1 : Masked(i) = i + Size
<1>1. \A i \in 0 .. Size - 1 : Masked(i) = i
  BY SizeIs, RemainderNear DEF Masked
<1>2. ASSUME NEW i \in Size .. 2 * Size - 1 PROVE Masked(i) = i - Size
  <2>1. i - Size \in 0 .. Size - 1 /\ i = (i - Size) + Size
    BY SizeIs
  <2>2. QED
    BY <2>1, SizeIs, RemainderNear DEF Masked
<1>3. ASSUME NEW i \in -Size .. -1 PROVE Masked(i) = i + Size
  <2>1. i + Size \in 0 .. Size - 1 /\ i = (i + Size) - Size
    BY SizeIs
  <2>2. QED
    BY <2>1, SizeIs, RemainderNear DEF Masked
<1>4. QED
  BY <1>1, <1>2, <1>3

\* An offset behind a head names a position, and can be had back from it.
LEMMA OffsetIs ==
  ASSUME NEW h \in Position, NEW k \in Position
  PROVE  /\ Masked(h + k) \in Position
         /\ Masked(Masked(h + k) - h) = k
BY MaskedIs, SizeIs DEF Position

\* Every position is at one offset behind the head.
LEMMA PositionIs ==
  ASSUME NEW h \in Position, NEW p \in Position
  PROVE  Masked(p - h) \in Position /\ Masked(h + Masked(p - h)) = p
BY MaskedIs, SizeIs DEF Position

\* The offsets behind a head that has moved by j.
LEMMA Moved ==
  ASSUME NEW h \in Position, NEW j \in 0 .. Size, NEW k \in Position
  PROVE  /\ Masked(h + j) \in Position
         /\ j + k < Size => Masked(Masked(h + j) + k) = Masked(h + (j + k))
         /\ j + k >= Size => Masked(Masked(h + j) + k) = Masked(h + ((j + k) - Size))
BY MaskedIs, SizeIs DEF Position

-----------------------------------------------------------------------------
(* What a drain takes.                                                     *)

\* The least of some numbers.
LEMMA LeastIs ==
  ASSUME NEW T, T \subseteq Nat, T # {}
  PROVE  \E x \in T : \A y \in T : x <= y
<1>1. PICK x \in T : \A y \in T : <<y, x>> \notin OpToRel(<, Nat)
  BY NatLessThanWellFounded, WFMin
<1>2. \A y \in T : ~(y < x)
  BY <1>1 DEF OpToRel
<1>3. QED
  BY <1>2

\* The run of packets at the head is as long as it can be, up to n and Size.
LEMMA RunIs ==
  ASSUME NEW n \in Nat
  PROVE  /\ RunLength(n) \in 0 .. Size /\ RunLength(n) <= n
         /\ \A i \in 0 .. RunLength(n) - 1 : OrderAt(i) # None
         /\ RunLength(n) = Lesser(n, Size) \/ OrderAt(RunLength(n)) = None
<1> DEFINE limit == Lesser(n, Size)
           gaps == {k \in 0 .. limit : k = limit \/ OrderAt(k) = None}
<1>1. limit \in 0 .. Size /\ limit <= n
  BY SizeIs DEF Lesser
<1>2. gaps \subseteq Nat /\ limit \in gaps
  BY <1>1
<1>3. PICK k \in gaps : \A j \in gaps : k <= j
  BY <1>2, LeastIs
<1>4. \A i \in 0 .. k - 1 : OrderAt(i) # None
  <2>1. SUFFICES ASSUME NEW i \in 0 .. k - 1, OrderAt(i) = None PROVE FALSE
    OBVIOUS
  <2>2. i \in 0 .. limit /\ i < k
    BY <1>1, <1>2
  <2>3. i \in gaps
    BY <2>1, <2>2
  <2>4. QED
    BY <1>2, <1>3, <2>2, <2>3
<1>5. \E j \in 0 .. limit : /\ \A i \in 0 .. j - 1 : OrderAt(i) # None
                            /\ j = limit \/ OrderAt(j) = None
  BY <1>3, <1>4
<1>6. /\ RunLength(n) \in 0 .. limit
      /\ \A i \in 0 .. RunLength(n) - 1 : OrderAt(i) # None
      /\ RunLength(n) = Lesser(n, Size) \/ OrderAt(RunLength(n)) = None
  <2> DEFINE R(j) == /\ \A i \in 0 .. j - 1 : OrderAt(i) # None
                     /\ j = Lesser(n, Size) \/ OrderAt(j) = None
  <2>1. RunLength(n) = CHOOSE j \in 0 .. Lesser(n, Size) : R(j)
    BY DEF RunLength
  <2>2. \E j \in 0 .. Lesser(n, Size) : R(j)
    BY <1>5
  <2> HIDE DEF R
  <2>3. RunLength(n) \in 0 .. Lesser(n, Size) /\ R(RunLength(n))
    BY <2>1, <2>2, Zenon
  <2>4. QED
    BY <2>3 DEF R
<1>7. limit \in Nat
  BY <1>2
<1> HIDE DEF limit, gaps
<1>8. RunLength(n) \in 0 .. Size /\ RunLength(n) <= n
  BY <1>1, <1>6, <1>7, SizeIs
<1>9. QED
  BY <1>6, <1>8

-----------------------------------------------------------------------------
(* The inductive invariant.                                                *)

\* Between the head and the end of the window that an overflow found, there are only
\* packets of that window; so the head never moves past the packet that caused it.
FillInv ==
  /\ pc \in {"idle", "exec"} => order_head_adv = 0
  /\ pc \in {"outer", "inner"} =>
       /\ mbuf \in Nat
       /\ Size <= Offset(mbuf) /\ Offset(mbuf) < 2 * Size
       /\ needed = (Offset(mbuf) + 1) - Size
       /\ order_head_adv <= Offset(mbuf)
  /\ \A k \in Position : OrderAt(k) # None => order_head_adv + k < Size

\* There are packets in the entries of ready_buf that are in use.
ReadyInv == \A k \in Position : k < ReadyCount => ready[Masked(ready_tail + k)] # None

\* The offset of a packet leads from the head's sequence number to its own.
LEMMA SeqnIs ==
  ASSUME min_seqn \in 0 .. Modulus - 1, NEW m \in Nat
  PROVE  Offset(m) \in 0 .. Modulus - 1 /\ (min_seqn + Offset(m)) % Modulus = Seqn(m)
<1>1. Modulus \in Nat \ {0} /\ SeqStart + m \in Int
  <2>1. SeqStart \in Int
    BY ReorderAssumption
  <2>2. QED
    BY <2>1, SizeIs
<1>2. Seqn(m) \in 0 .. Modulus - 1
  BY <1>1, DivisionIs DEF Seqn
<1>3. Seqn(m) - min_seqn \in Int /\ Offset(m) \in 0 .. Modulus - 1
  <2>1. Seqn(m) - min_seqn \in Int
    BY <1>1, <1>2
  <2>2. (Seqn(m) - min_seqn) % Modulus \in 0 .. Modulus - 1
    BY <1>1, <2>1, DivisionIs
  <2>3. QED
    BY <2>1, <2>2 DEF Offset
<1>4. CASE Seqn(m) >= min_seqn
  <2>1. Seqn(m) - min_seqn \in 0 .. Modulus - 1
    BY <1>1, <1>2, <1>4
  <2>2. Offset(m) = Seqn(m) - min_seqn
    BY <1>1, <2>1, RemainderNear DEF Offset
  <2>3. min_seqn + Offset(m) = Seqn(m)
    BY <1>1, <1>2, <2>2
  <2>4. QED
    BY <1>1, <1>2, <1>3, <2>3, RemainderNear
<1>5. CASE Seqn(m) < min_seqn
  <2> DEFINE a == (Seqn(m) - min_seqn) + Modulus
  <2>1. a \in 0 .. Modulus - 1 /\ Seqn(m) - min_seqn = a - Modulus
    BY <1>1, <1>2, <1>5
  <2>2. Offset(m) = a
    BY <1>1, <2>1, RemainderNear DEF Offset
  <2>3. min_seqn + Offset(m) = Seqn(m) + Modulus
    BY <1>1, <1>2, <2>2
  <2>4. QED
    BY <1>1, <1>2, <1>3, <2>3, RemainderNear
<1>6. QED
  BY <1>1, <1>2, <1>4, <1>5

\* min_seqn is the number of the packet it stands for.
TurnInv == min_seqn = Seqn(first)

\* What is added to the one is added to the other.
LEMMA TurnIs ==
  ASSUME first \in Nat, NEW n \in Nat, min_seqn = Seqn(first)
  PROVE  (min_seqn + n) % Modulus = Seqn(first + n)
<1>1. Modulus \in Nat \ {0} /\ SeqStart + first \in Int /\ SeqStart \in Int /\ n \in Int
  BY SizeIs, ReorderAssumption
<1>2. (((SeqStart + first) % Modulus) + n) % Modulus = ((SeqStart + first) + n) % Modulus
  BY <1>1, RemainderAdds, Zenon
<1>3. (SeqStart + first) + n = SeqStart + (first + n)
  BY <1>1
<1>4. QED
  BY <1>2, <1>3 DEF Seqn

\* The order buffer, and with it what depends on it, stays.
LEMMA OrderStays ==
  ASSUME WindowAligned, FillInv, UNCHANGED <<order, order_head, min_seqn, order_head_adv>>
  PROVE  /\ WindowAligned'
         /\ \A k \in Position : OrderAt(k)' # None => order_head_adv' + k < Size
BY DEF WindowAligned, FillInv, OrderAt

\* The head moves by one position, over an entry that is or becomes empty.
LEMMA AdvanceKeeps ==
  ASSUME TypeOK, WindowAligned, FillInv, Advance, UNCHANGED min_seqn,
         order'[order_head] = None,
         \A p \in Position \ {order_head} : order'[p] = order[p]
  PROVE  /\ WindowAligned'
         /\ \A k \in Position : OrderAt(k)' # None => order_head_adv' + k < Size
<1>1. /\ order_head \in Position /\ order_head' = Masked(order_head + 1)
      /\ order_head_adv \in Nat /\ order_head_adv' = order_head_adv + 1
      /\ min_seqn \in Int
  BY DEF TypeOK, Advance
<1>2. SUFFICES ASSUME NEW k \in Position, OrderAt(k)' # None
               PROVE  /\ Seqn(OrderAt(k)') = (min_seqn + order_head_adv' + k) % Modulus
                      /\ order_head_adv' + k < Size
  BY DEF WindowAligned
<1>3. OrderAt(k)' = order'[Masked(Masked(order_head + 1) + k)]
  BY <1>1 DEF OrderAt
<1>4. CASE 1 + k < Size
  <2>1. Masked(Masked(order_head + 1) + k) = Masked(order_head + (1 + k)) /\ 1 + k \in Position
    BY <1>1, <1>4, Moved, SizeIs DEF Position
  <2>2. Masked(order_head + (1 + k)) \in Position \ {order_head}
    BY <1>1, <1>2, <1>3, <2>1, OffsetIs
  <2>3. OrderAt(k)' = OrderAt(1 + k)
    BY <1>3, <2>1, <2>2 DEF OrderAt
  <2>4. /\ Seqn(OrderAt(1 + k)) = (min_seqn + order_head_adv + (1 + k)) % Modulus
        /\ order_head_adv + (1 + k) < Size
    BY <1>2, <2>1, <2>3 DEF WindowAligned, FillInv
  <2>5. k \in Nat
    BY DEF Position
  <2>6. /\ min_seqn + order_head_adv + (1 + k) = min_seqn + order_head_adv' + k
        /\ order_head_adv + (1 + k) = order_head_adv' + k
    BY <1>1, <2>5
  <2>7. QED
    BY <2>3, <2>4, <2>6
<1>5. CASE 1 + k >= Size
  <2>1. (1 + k) - Size = 0
    BY <1>5, SizeIs DEF Position
  <2>2. Masked(Masked(order_head + 1) + k) = Masked(order_head + 0)
    BY <1>1, <1>5, <2>1, Moved, SizeIs
  <2>3. Masked(order_head + 0) = order_head
    BY <1>1, MaskedIs, SizeIs DEF Position
  <2>4. QED
    BY <1>2, <1>3, <2>2, <2>3
<1>6. QED
  BY <1>4, <1>5, SizeIs DEF Position

\* A packet is written at its offset behind the head.
LEMMA WriteKeeps ==
  ASSUME TypeOK, NEW m \in Nat, NEW at \in Position,
         order' = [order EXCEPT ![Masked(order_head + at)] = m],
         UNCHANGED order_head, NEW k \in Position
  PROVE  OrderAt(k)' = IF k = at THEN m ELSE OrderAt(k)
<1>1. order_head \in Position /\ order \in [Position -> Nat \cup {None}]
  BY DEF TypeOK
<1>2. Masked(order_head + at) \in Position /\ Masked(order_head + k) \in Position
  BY <1>1, OffsetIs
<1>3. Masked(order_head + at) = Masked(order_head + k) <=> at = k
  BY <1>1, OffsetIs
<1>4. QED
  BY <1>1, <1>2, <1>3 DEF OrderAt

\* The sequence number that a window adds up to when the head's number is brought up to
\* date with what the head has moved.
LEMMA BroughtUp ==
  ASSUME min_seqn \in 0 .. Modulus - 1, NEW adv \in Nat, NEW k \in Nat,
         min_seqn' = (min_seqn + adv) % Modulus
  PROVE  /\ min_seqn' \in 0 .. Modulus - 1
         /\ (min_seqn' + 0 + k) % Modulus = (min_seqn + (adv + k)) % Modulus
<1>1. Modulus \in Nat \ {0} /\ min_seqn + adv \in Int /\ k \in Int
  BY SizeIs
<1>2. min_seqn' \in 0 .. Modulus - 1
  BY <1>1, DivisionIs
<1>3. (((min_seqn + adv) % Modulus) + k) % Modulus = ((min_seqn + adv) + k) % Modulus
  BY <1>1, RemainderAdds, Zenon
<1>4. min_seqn' + 0 + k = ((min_seqn + adv) % Modulus) + k
  BY <1>1, <1>2
<1>5. (min_seqn + adv) + k = min_seqn + (adv + k)
  BY <1>1
<1>6. QED
  BY <1>2, <1>3, <1>4, <1>5

\* The entries of ready_buf in use, and what a drain takes of them.
LEMMA DrainLeft ==
  ASSUME TypeOK
  PROVE  /\ ReadyCount \in Position
         /\ Lesser(DrainMax, ReadyCount) \in 0 .. ReadyCount
         /\ DrainMax - Lesser(DrainMax, ReadyCount) \in Nat
<1>1. ReadyCount \in Position
  BY PositionIs DEF TypeOK, ReadyCount
<1>2. ReadyCount \in Nat /\ DrainMax \in Nat
  BY <1>1, SizeIs, ReorderAssumption DEF Position
<1>3. QED
  BY <1>1, <1>2 DEF Lesser

\* No drain moves a packet to another number.
LEMMA DrainKeeps ==
  ASSUME TypeOK, WindowAligned, FillInv, Drain
  PROVE  /\ WindowAligned'
         /\ \A k \in Position : OrderAt(k)' # None => order_head_adv' + k < Size
<1> DEFINE o == RunLength(DrainMax - Lesser(DrainMax, ReadyCount))
<1>1. /\ order_head \in Position /\ order_head_adv = 0 /\ order_head_adv' = 0
      /\ min_seqn \in 0 .. Modulus - 1
  BY DEF TypeOK, FillInv, Drain, fillVars
<1>2. /\ order' = Cleared(order, order_head, o) /\ order_head' = Masked(order_head + o)
      /\ min_seqn' = (min_seqn + o) % Modulus
  BY DEF Drain
<1>3. o \in 0 .. Size
  <2>1. DrainMax - Lesser(DrainMax, ReadyCount) \in Nat
    BY DrainLeft
  <2>2. QED
    BY <2>1, RunIs
<1> HIDE DEF o
<1>4. SUFFICES ASSUME NEW k \in Position, OrderAt(k)' # None
               PROVE  /\ Seqn(OrderAt(k)') = (min_seqn' + order_head_adv' + k) % Modulus
                      /\ order_head_adv' + k < Size
  BY DEF WindowAligned
<1>5. k \in Nat /\ order_head_adv' + k < Size
  BY <1>1, SizeIs DEF Position
<1>6. OrderAt(k)' = order'[Masked(Masked(order_head + o) + k)]
  BY <1>2 DEF OrderAt
<1>7. CASE o + k < Size
  <2>1. o + k \in Position /\ Masked(Masked(order_head + o) + k) = Masked(order_head + (o + k))
    BY <1>1, <1>3, <1>5, <1>7, Moved, SizeIs DEF Position
  <2>2. Masked(order_head + (o + k)) \in Position
    BY <1>1, <2>1, OffsetIs
  <2>3. OrderAt(k)' \in {None, order[Masked(order_head + (o + k))]}
    BY <1>2, <1>6, <2>1, <2>2 DEF Cleared
  <2>4. OrderAt(k)' = OrderAt(o + k)
    BY <1>4, <2>3 DEF OrderAt
  <2>5. Seqn(OrderAt(o + k)) = (min_seqn + order_head_adv + (o + k)) % Modulus
    BY <1>4, <2>1, <2>4 DEF WindowAligned
  <2>6. min_seqn + order_head_adv + (o + k) = min_seqn + (o + k)
    BY <1>1, <1>3, <1>5, SizeIs
  <2>7. (min_seqn' + 0 + k) % Modulus = (min_seqn + (o + k)) % Modulus
    BY <1>1, <1>2, <1>3, <1>5, BroughtUp, SizeIs
  <2>8. QED
    BY <1>1, <1>5, <2>4, <2>5, <2>6, <2>7
<1>8. CASE o + k >= Size
  <2> DEFINE j == (o + k) - Size
  <2>1. j \in Position /\ j < o
    BY <1>3, <1>8, SizeIs DEF Position
  <2>2. Masked(Masked(order_head + o) + k) = Masked(order_head + j)
    BY <1>1, <1>3, <1>8, Moved
  <2> HIDE DEF j
  <2>3. Masked(order_head + j) \in Position /\ Masked(Masked(order_head + j) - order_head) = j
    BY <1>1, <2>1, OffsetIs
  <2>4. OrderAt(k)' = None
    BY <1>2, <1>6, <2>1, <2>2, <2>3 DEF Cleared
  <2>5. QED
    BY <1>4, <2>4
<1>9. QED
  BY <1>3, <1>5, <1>7, <1>8, SizeIs

\* What an overflow leaves is in the window it has moved, and so is its packet.
LEMMA ReturnKeeps ==
  ASSUME TypeOK, WindowAligned, FillInv, FillReturns
  PROVE  /\ WindowAligned'
         /\ \A k \in Position : OrderAt(k)' # None => order_head_adv' + k < Size
<1> DEFINE at == Offset(mbuf) - order_head_adv
<1>1. /\ order_head_adv \in Nat /\ order_head_adv' = 0 /\ order_head' = order_head
      /\ min_seqn \in 0 .. Modulus - 1 /\ min_seqn' = (min_seqn + order_head_adv) % Modulus
      /\ mbuf \in Nat /\ order_head_adv <= Offset(mbuf)
      /\ needed = (Offset(mbuf) + 1) - Size
  BY DEF TypeOK, FillInv, FillReturns
<1>2. Offset(mbuf) \in Nat /\ (min_seqn + Offset(mbuf)) % Modulus = Seqn(mbuf)
  BY <1>1, SeqnIs, SizeIs
<1>3. at \in Nat /\ order_head_adv + at = Offset(mbuf)
  BY <1>1, <1>2
<1>4. \A k \in Position : k \in Nat /\ order_head_adv' + k < Size
  BY <1>1, SizeIs DEF Position
<1>5. \A k \in Position : OrderAt(k) # None =>
        Seqn(OrderAt(k)) = (min_seqn' + order_head_adv' + k) % Modulus
  <2> SUFFICES ASSUME NEW k \in Position, OrderAt(k) # None
               PROVE  Seqn(OrderAt(k)) = (min_seqn' + 0 + k) % Modulus
    BY <1>1
  <2>1. Seqn(OrderAt(k)) = (min_seqn + order_head_adv + k) % Modulus
    BY DEF WindowAligned
  <2>2. min_seqn + order_head_adv + k = min_seqn + (order_head_adv + k)
    BY <1>1, <1>4, SizeIs
  <2>3. QED
    BY <1>1, <1>4, <2>1, <2>2, BroughtUp
<1>6. CASE order_head_adv < needed
  <2>1. order' = order
    BY <1>6 DEF FillReturns
  <2>2. \A k \in Position : OrderAt(k)' = OrderAt(k)
    BY <1>1, <2>1 DEF OrderAt
  <2>3. QED
    BY <1>4, <1>5, <2>2 DEF WindowAligned
<1>7. CASE order_head_adv >= needed
  <2>1. order' = [order EXCEPT ![Masked(order_head + Offset(mbuf) - order_head_adv)] = mbuf]
    BY <1>1, <1>2, <1>7, SizeIs DEF FillReturns
  <2>2. at \in Position
    BY <1>1, <1>2, <1>3, <1>7, SizeIs DEF Position
  <2>3. order_head + Offset(mbuf) - order_head_adv = order_head + at
    <3>1. order_head \in Int
      BY SizeIs DEF TypeOK, Position
    <3>2. QED
      BY <1>1, <1>2, <3>1
  <2> HIDE DEF at
  <2>4. order' = [order EXCEPT ![Masked(order_head + at)] = mbuf]
    BY <2>1, <2>3
  <2>5. ASSUME NEW k \in Position PROVE OrderAt(k)' = IF k = at THEN mbuf ELSE OrderAt(k)
    BY <1>1, <2>2, <2>4, WriteKeeps
  <2>6. Seqn(mbuf) = (min_seqn' + order_head_adv' + at) % Modulus
    <3>1. (min_seqn' + 0 + at) % Modulus = (min_seqn + (order_head_adv + at)) % Modulus
      BY <1>1, <1>3, BroughtUp
    <3>2. QED
      BY <1>1, <1>2, <1>3, <3>1
  <2>7. QED
    BY <1>4, <1>5, <2>5, <2>6 DEF WindowAligned
<1>8. QED
  BY <1>1, <1>2, <1>6, <1>7, SizeIs

\* No insert and no drain takes the window out of step.
LEMMA WindowStep ==
  ASSUME TypeOK, WindowAligned, FillInv, [Next]_vars
  PROVE  WindowAligned' /\ FillInv'
<1> DEFINE Window == /\ WindowAligned
                     /\ \A k \in Position : OrderAt(k) # None => order_head_adv + k < Size
<1>1. /\ \A m \in pipeline : m \in Nat
      /\ order_head_adv \in Nat /\ order_head \in Position
      /\ order \in [Position -> Nat \cup {None}]
      /\ min_seqn \in 0 .. Modulus - 1
  BY DEF TypeOK
<1>2. ASSUME UNCHANGED <<order, order_head, min_seqn, order_head_adv>> PROVE Window'
  BY <1>2, OrderStays
<1>3. CASE SeqExec
  <2>1. UNCHANGED <<pc, order, order_head, min_seqn, order_head_adv, mbuf, needed>>
    BY <1>3 DEF SeqExec, orderVars, fillVars
  <2>2. QED
    BY <1>2, <2>1 DEF FillInv, Offset
<1>4. ASSUME NEW n, Call(n) PROVE WindowAligned' /\ FillInv'
  <2>1. /\ UNCHANGED <<order, order_head, min_seqn, order_head_adv>>
        /\ pc = "idle" /\ pc' = "exec"
    BY <1>4 DEF Call, orderVars, fillVars
  <2>2. QED
    BY <1>2, <2>1 DEF FillInv
<1>5. ASSUME NEW m \in pipeline, InsertInWindow(m) PROVE WindowAligned' /\ FillInv'
  <2>1. /\ UNCHANGED <<order_head, min_seqn, order_head_adv>> /\ pc = "exec" /\ pc' = "exec"
        /\ Offset(m) < Size
        /\ order' = [order EXCEPT ![Masked(order_head + Offset(m))] = m]
    BY <1>5 DEF InsertInWindow, NextMbuf, fillVars
  <2>2. /\ Offset(m) \in 0 .. Modulus - 1
        /\ (min_seqn + Offset(m)) % Modulus = Seqn(m)
    BY <1>1, SeqnIs
  <2>3. Offset(m) \in Position /\ order_head_adv = 0
    BY <2>1, <2>2, SizeIs DEF Position, FillInv
  <2>4. ASSUME NEW k \in Position
        PROVE  OrderAt(k)' = IF k = Offset(m) THEN m ELSE OrderAt(k)
    BY <1>1, <2>1, <2>3, WriteKeeps
  <2>5. Seqn(m) = (min_seqn + order_head_adv + Offset(m)) % Modulus
    <3>1. min_seqn + order_head_adv + Offset(m) = min_seqn + Offset(m)
      BY <1>1, <2>2, <2>3, SizeIs
    <3>2. QED
      BY <2>2, <3>1
  <2>6. WindowAligned'
    BY <2>1, <2>4, <2>5 DEF WindowAligned
  <2>7. \A k \in Position : order_head_adv' + k < Size
    BY <2>1, <2>3, SizeIs DEF Position
  <2>8. QED
    BY <2>1, <2>3, <2>6, <2>7 DEF FillInv
<1>6. ASSUME NEW m \in pipeline, InsertOverflow(m) PROVE WindowAligned' /\ FillInv'
  <2>1. /\ UNCHANGED <<order, order_head, min_seqn>> /\ order_head_adv' = 0
        /\ pc = "exec" /\ pc' = "outer" /\ mbuf' = m
        /\ Offset(m) >= Size /\ Offset(m) < 2 * Size /\ needed' = Offset(m) + 1 - Size
    BY <1>6 DEF InsertOverflow, NextMbuf, orderVars
  <2>2. order_head_adv = 0
    BY <2>1 DEF FillInv
  <2>3. Offset(m) \in Nat /\ Offset(mbuf)' = Offset(m)
    <3>1. Offset(m) \in Nat
      BY <1>1, SeqnIs, SizeIs
    <3>2. QED
      BY <2>1, <3>1 DEF Offset
  <2>4. Window'
    BY <1>2, <2>1, <2>2
  <2>5. /\ m \in Nat /\ Size <= Offset(m) /\ 0 <= Offset(m)
        /\ Offset(m) + 1 - Size = (Offset(m) + 1) - Size
    BY <1>1, <2>1, <2>3, SizeIs
  <2>6. QED
    BY <2>1, <2>3, <2>4, <2>5 DEF FillInv
<1>7. ASSUME NEW m \in pipeline, InsertOutOfRange(m) PROVE WindowAligned' /\ FillInv'
  <2>1. UNCHANGED <<pc, order, order_head, min_seqn, order_head_adv>> /\ pc = "exec"
    BY <1>7 DEF InsertOutOfRange, NextMbuf, orderVars, fillVars
  <2>2. QED
    BY <1>2, <2>1 DEF FillInv
<1>8. CASE FillOuter
  <2>1. /\ UNCHANGED <<mbuf, needed, order, min_seqn>> /\ pc = "outer" /\ pc' = "inner"
        /\ order_head_adv < needed
    BY <1>8 DEF FillOuter
  <2>2. /\ mbuf \in Nat /\ Size <= Offset(mbuf) /\ Offset(mbuf) < 2 * Size
        /\ needed = (Offset(mbuf) + 1) - Size /\ order_head_adv <= Offset(mbuf)
        /\ Offset(mbuf)' = Offset(mbuf)
    BY <2>1 DEF FillInv, Offset
  <2>3. Offset(mbuf) \in Nat
    BY <1>1, <2>2, SeqnIs, SizeIs
  <2>4. CASE order[order_head] = None /\ Advance
    <3>1. Window'
      BY <2>1, <2>4, AdvanceKeeps
    <3>2. order_head_adv' = order_head_adv + 1
      BY <2>4 DEF Advance
    <3>3. order_head_adv' <= Offset(mbuf)
      BY <1>1, <2>1, <2>2, <2>3, <3>2, SizeIs
    <3>4. QED
      BY <2>1, <2>2, <3>1, <3>3 DEF FillInv
  <2>5. CASE UNCHANGED <<order_head, order_head_adv>>
    BY <1>2, <2>1, <2>2, <2>5 DEF FillInv
  <2>6. QED
    BY <1>8, <2>4, <2>5 DEF FillOuter
<1>9. CASE FillMove
  <2>1. /\ UNCHANGED <<mbuf, needed, min_seqn>> /\ pc = "inner" /\ pc' \in {"inner", "outer"}
        /\ order[order_head] # None
        /\ order' = [order EXCEPT ![order_head] = None] /\ Advance
    BY <1>9 DEF FillMove
  <2>2. /\ mbuf \in Nat /\ Size <= Offset(mbuf) /\ Offset(mbuf) < 2 * Size
        /\ needed = (Offset(mbuf) + 1) - Size
        /\ Offset(mbuf)' = Offset(mbuf)
    BY <2>1 DEF FillInv, Offset
  <2>3. Offset(mbuf) \in Nat
    BY <1>1, <2>2, SeqnIs, SizeIs
  <2>4. Window'
    BY <1>1, <2>1, AdvanceKeeps
  <2>5. order_head_adv < Size
    <3>1. 0 \in Position /\ Masked(order_head + 0) = order_head
      BY <1>1, MaskedIs, SizeIs DEF Position
    <3>2. order_head_adv + 0 < Size
      BY <2>1, <3>1 DEF FillInv, OrderAt
    <3>3. QED
      BY <1>1, <3>2
  <2>6. order_head_adv' <= Offset(mbuf)
    BY <1>1, <2>1, <2>2, <2>3, <2>5, SizeIs DEF Advance
  <2>7. QED
    BY <2>1, <2>2, <2>4, <2>6 DEF FillInv
<1>10. CASE FillRunEnds
  <2>1. /\ UNCHANGED <<order, order_head, min_seqn, order_head_adv, mbuf, needed>>
        /\ pc = "inner" /\ pc' = "outer"
    BY <1>10 DEF FillRunEnds, orderVars, fillVars
  <2>2. QED
    BY <1>2, <2>1 DEF FillInv, Offset
<1>11. CASE FillReturns
  <2>1. Window' /\ pc' = "exec" /\ order_head_adv' = 0
    BY <1>11, ReturnKeeps DEF FillReturns
  <2>2. QED
    BY <2>1 DEF FillInv
<1>12. CASE Drain
  <2>1. Window' /\ pc = "exec" /\ pc' = "idle" /\ order_head_adv' = order_head_adv
    BY <1>12, DrainKeeps DEF Drain, fillVars
  <2>2. QED
    BY <2>1 DEF FillInv
<1>13. CASE UNCHANGED vars
  <2>1. UNCHANGED <<pc, order, order_head, min_seqn, order_head_adv, mbuf, needed>>
    BY <1>13 DEF vars, orderVars, fillVars
  <2>2. QED
    BY <1>2, <2>1 DEF FillInv, Offset
<1>14. QED
  BY <1>3, <1>4, <1>5, <1>6, <1>7, <1>8, <1>9, <1>10, <1>11, <1>12, <1>13
     DEF Next, ReorderExec, Insert, Fill

-----------------------------------------------------------------------------
(* Type correctness.                                                       *)

\* An overflow appends to ready_buf, or finds it full.
LEMMA ReadyAppended ==
  ASSUME TypeOK, ReadyInv, FillMove
  PROVE  /\ ReadyInv' /\ ready' \in [Position -> Nat \cup {None}] /\ ready_head' \in Position
         /\ ReadyCount' = IF ReadyFull THEN ReadyCount ELSE ReadyCount + 1
<1> DEFINE e == order[order_head]
<1>1. /\ ready_head \in Position /\ ready_tail \in Position /\ ready_tail' = ready_tail
      /\ ready \in [Position -> Nat \cup {None}]
      /\ e # None /\ e \in Nat \cup {None}
      /\ ready' = [ready EXCEPT ![ready_head] = e]
  BY DEF TypeOK, FillMove
<1> HIDE DEF e
<1>2. \A p \in Position : ready'[p] = IF p = ready_head THEN e ELSE ready[p]
  BY <1>1
<1>3. ready' \in [Position -> Nat \cup {None}]
  BY <1>1
<1>4. ReadyCount \in Position /\ Masked(ready_tail + ReadyCount) = ready_head
  BY <1>1, PositionIs DEF ReadyCount
<1>5. \A k \in Position : k < ReadyCount => ready'[Masked(ready_tail + k)] # None
  BY <1>1, <1>2, OffsetIs DEF ReadyInv
<1>6. CASE ReadyFull
  <2>1. ready_head' = ready_head
    BY <1>6 DEF FillMove
  <2>2. ReadyCount' = ReadyCount
    BY <1>1, <2>1 DEF ReadyCount
  <2>3. QED
    BY <1>1, <1>3, <1>5, <1>6, <2>1, <2>2 DEF ReadyInv
<1>7. CASE ~ReadyFull
  <2>1. ready_head' = Masked(ready_head + 1)
    BY <1>7 DEF FillMove
  <2>2. ready_head' \in Position
    BY <1>1, <2>1, Moved, SizeIs
  <2>3. ReadyCount' = ReadyCount + 1
    <3>1. Masked(ready_head + 1) # ready_tail
      BY <1>7 DEF ReadyFull
    <3>2. ReadyCount' = Masked(Masked(ready_head + 1) - ready_tail)
      BY <1>1, <2>1 DEF ReadyCount
    <3>3. Masked(Masked(ready_head + 1) - ready_tail) = Masked(ready_head - ready_tail) + 1
      BY <1>1, <3>1, MaskedIs, SizeIs DEF Position
    <3>4. QED
      BY <3>2, <3>3 DEF ReadyCount
  <2>4. ASSUME NEW k \in Position, k < ReadyCount + 1
        PROVE  ready'[Masked(ready_tail + k)] # None
    <3>1. CASE k = ReadyCount
      BY <1>1, <1>2, <1>4, <3>1
    <3>2. CASE k < ReadyCount
      BY <1>5, <3>2
    <3>3. QED
      BY <1>4, <2>4, <3>1, <3>2, SizeIs DEF Position
  <2>5. QED
    BY <1>1, <1>3, <1>7, <2>2, <2>3, <2>4 DEF ReadyInv
<1>8. QED
  BY <1>6, <1>7

\* A drain takes packets, none of them missing.
LEMMA DrainTyped ==
  ASSUME TypeOK, ReadyInv, Drain
  PROVE  /\ ReadyInv' /\ ReadyCount' = ReadyCount - Lesser(DrainMax, ReadyCount)
         /\ drained' \in Seq(Nat)
         /\ order' \in [Position -> Nat \cup {None}] /\ order_head' \in Position
         /\ ready' \in [Position -> Nat \cup {None}] /\ ready_tail' \in Position
         /\ min_seqn' \in 0 .. Modulus - 1
<1> DEFINE r == Lesser(DrainMax, ReadyCount)
           o == RunLength(DrainMax - r)
           run == Run(DrainMax - r)
<1>1. /\ order \in [Position -> Nat \cup {None}] /\ order_head \in Position
      /\ ready \in [Position -> Nat \cup {None}] /\ ready_tail \in Position
      /\ min_seqn \in 0 .. Modulus - 1 /\ drained \in Seq(Nat)
      /\ ready_head \in Position /\ ready_head' = ready_head
  BY DEF TypeOK, Drain
<1>2. /\ drained' = drained \o SubSeq(ReadyList, 1, r) \o run
      /\ ready' = Cleared(ready, ready_tail, r) /\ ready_tail' = Masked(ready_tail + r)
      /\ order' = Cleared(order, order_head, o) /\ order_head' = Masked(order_head + o)
      /\ min_seqn' = (min_seqn + o) % Modulus
  BY DEF Drain
<1>3. ReadyCount \in Position /\ r \in 0 .. ReadyCount /\ DrainMax - r \in Nat
  BY DrainLeft
<1>4. o \in 0 .. Size /\ \A j \in 0 .. o - 1 : OrderAt(j) # None
  BY <1>3, RunIs
<1>5. run = [k \in 1 .. o |-> OrderAt(k - 1)]
  BY DEF Run
<1> HIDE DEF r, o, run
<1>6. run \in Seq(Nat)
  <2>1. ASSUME NEW k \in 1 .. o PROVE OrderAt(k - 1) \in Nat
    <3>1. k - 1 \in 0 .. o - 1 /\ k - 1 \in Position
      BY <1>4, SizeIs DEF Position
    <3>2. Masked(order_head + (k - 1)) \in Position
      BY <1>1, <3>1, OffsetIs
    <3>3. QED
      BY <1>1, <1>4, <3>1, <3>2 DEF OrderAt
  <2>2. o \in Nat
    BY <1>4, SizeIs
  <2>3. QED
    BY <1>5, <2>1, <2>2
<1>7. SubSeq(ReadyList, 1, r) \in Seq(Nat)
  <2>1. ReadyCount \in Nat /\ r \in Nat
    BY <1>3, SizeIs DEF Position
  <2>2. ASSUME NEW k \in 1 .. ReadyCount PROVE ready[Masked(ready_tail + k - 1)] \in Nat
    <3>1. k - 1 \in Position /\ k - 1 < ReadyCount
      BY <1>3, SizeIs DEF Position
    <3>2. Masked(ready_tail + (k - 1)) \in Position /\ ready[Masked(ready_tail + (k - 1))] # None
      BY <1>1, <3>1, OffsetIs DEF ReadyInv
    <3>3. ready_tail + k - 1 = ready_tail + (k - 1)
      BY <1>1, <2>1, SizeIs DEF Position
    <3>4. QED
      BY <1>1, <3>2, <3>3
  <2>3. \A k \in 1 .. r : ReadyList[k] \in Nat
    BY <1>3, <2>1, <2>2 DEF ReadyList
  <2>4. QED
    BY <2>1, <2>3, SubSeqProperties
<1>8. drained' \in Seq(Nat)
  BY <1>1, <1>2, <1>6, <1>7, ConcatProperties
<1>9. order' \in [Position -> Nat \cup {None}] /\ ready' \in [Position -> Nat \cup {None}]
  BY <1>1, <1>2 DEF Cleared
<1>10. order_head' \in Position /\ ready_tail' \in Position
  <2>1. r \in 0 .. Size
    BY <1>3, SizeIs DEF Position
  <2>2. QED
    BY <1>1, <1>2, <1>4, <2>1, Moved
<1>11. min_seqn' \in 0 .. Modulus - 1
  <2>1. Modulus \in Nat \ {0} /\ min_seqn + o \in Int
    BY <1>1, <1>4, SizeIs
  <2>2. QED
    BY <1>2, <2>1, DivisionIs
<1>12. ReadyInv' /\ ReadyCount' = ReadyCount - r
  <2>1. r \in 0 .. Size /\ r \in Nat /\ ReadyCount < Size
    BY <1>3, SizeIs DEF Position
  <2>2. ReadyCount' = ReadyCount - r
    <3>1. ReadyCount' = Masked(ready_head - Masked(ready_tail + r))
      BY <1>1, <1>2 DEF ReadyCount
    <3>2. ReadyCount = Masked(ready_head - ready_tail)
      BY DEF ReadyCount
    <3>3. Masked(ready_head - Masked(ready_tail + r)) = Masked(ready_head - ready_tail) - r
      <4>1. /\ ready_head \in 0 .. Size - 1 /\ ready_tail \in 0 .. Size - 1
            /\ r \in 0 .. Size /\ r <= ReadyCount
        BY <1>1, <1>3, <2>1, SizeIs DEF Position
      <4>2. ReadyCount = IF ready_head >= ready_tail THEN ready_head - ready_tail
                         ELSE (ready_head - ready_tail) + Size
        BY <3>2, <4>1, MaskedIs, SizeIs
      <4>3. Masked(ready_tail + r) = IF ready_tail + r < Size THEN ready_tail + r
                                     ELSE (ready_tail + r) - Size
        BY <4>1, MaskedIs, SizeIs
      <4>4. CASE ready_tail + r < Size
        <5>1. ready_head - (ready_tail + r) \in -Size .. Size - 1
          BY <4>1, <4>4, SizeIs
        <5>2. ready_head - (ready_tail + r) >= 0 <=> ready_head >= ready_tail
          BY <4>1, <4>2, <4>4, SizeIs
        <5>3. QED
          BY <3>2, <4>1, <4>2, <4>3, <4>4, <5>1, <5>2, MaskedIs, SizeIs
      <4>5. CASE ready_tail + r >= Size
        <5>1. ready_head - ((ready_tail + r) - Size) \in 0 .. Size - 1 /\ ready_head < ready_tail
          BY <4>1, <4>2, <4>5, SizeIs
        <5>2. QED
          BY <3>2, <4>1, <4>2, <4>3, <4>5, <5>1, MaskedIs, SizeIs
      <4>6. QED
        BY <4>1, <4>4, <4>5, SizeIs
    <3>4. QED
      BY <3>1, <3>2, <3>3
  <2>3. ASSUME NEW k \in Position, k < ReadyCount - r
        PROVE  ready'[Masked(ready_tail' + k)] # None
    <3>1. r + k \in Position /\ r + k < ReadyCount /\ r + k >= r
      BY <1>3, <2>1, <2>3, SizeIs DEF Position
    <3>2. Masked(ready_tail' + k) = Masked(ready_tail + (r + k))
      <4>1. r + k < Size
        BY <2>1, <3>1, SizeIs DEF Position
      <4>2. Masked(Masked(ready_tail + r) + k) = Masked(ready_tail + (r + k))
        BY <1>1, <2>1, <4>1, Moved
      <4>3. QED
        BY <1>2, <4>2
    <3>3. /\ Masked(ready_tail + (r + k)) \in Position
          /\ Masked(Masked(ready_tail + (r + k)) - ready_tail) = r + k
      BY <1>1, <3>1, OffsetIs
    <3>4. ready[Masked(ready_tail + (r + k))] # None
      BY <3>1 DEF ReadyInv
    <3>5. ready'[Masked(ready_tail + (r + k))] = ready[Masked(ready_tail + (r + k))]
      <4>1. ~(r + k < r)
        BY <2>1, <3>1, SizeIs DEF Position
      <4>2. QED
        BY <1>2, <3>3, <4>1 DEF Cleared
    <3>6. QED
      BY <3>2, <3>4, <3>5
  <2>4. QED
    BY <2>2, <2>3 DEF ReadyInv
<1>13. QED
  BY <1>8, <1>9, <1>10, <1>11, <1>12 DEF r

\* min_seqn and the packet it stands for are moved together.
LEMMA TurnStep ==
  ASSUME TypeOK, TurnInv, [Next]_vars
  PROVE  TurnInv' /\ first' \in Nat /\ outrun' \in BOOLEAN
<1>1. first \in Nat /\ outrun \in BOOLEAN /\ order_head_adv \in Nat
  BY DEF TypeOK
<1>2. ASSUME NEW n \in Nat, min_seqn' = (min_seqn + n) % Modulus, first' = first + n
      PROVE  TurnInv' /\ first' \in Nat
  BY <1>1, <1>2, TurnIs DEF TurnInv
<1>3. ASSUME UNCHANGED <<min_seqn, first>> PROVE TurnInv' /\ first' \in Nat
  BY <1>1, <1>3 DEF TurnInv, Seqn
<1>4. CASE SeqExec \/ (\E n \in 0 .. Lesser(ExecMax, Cardinality(pipeline)) : Call(n))
  BY <1>1, <1>3, <1>4 DEF SeqExec, Call, orderVars, turnVars
<1>5. CASE \E m \in pipeline : Insert(m)
  <2>1. UNCHANGED <<min_seqn, first>>
    BY <1>5 DEF Insert, InsertInWindow, InsertOverflow, InsertOutOfRange, orderVars
  <2>2. PICK m \in pipeline : NextMbuf(m)
    BY <1>5 DEF Insert, InsertInWindow, InsertOverflow, InsertOutOfRange
  <2>3. outrun' \in BOOLEAN
    BY <1>1, <2>2 DEF NextMbuf
  <2>4. QED
    BY <1>3, <2>1, <2>3, <1>1
<1>6. CASE FillOuter \/ FillMove \/ FillRunEnds \/ UNCHANGED vars
  <2>1. UNCHANGED <<min_seqn, first, outrun>>
    BY <1>6 DEF FillOuter, FillMove, FillRunEnds, vars, orderVars, turnVars
  <2>2. QED
    BY <1>1, <1>3, <2>1
<1>7. CASE FillReturns
  BY <1>1, <1>2, <1>7 DEF FillReturns
<1>8. CASE Drain
  <2> DEFINE o == RunLength(DrainMax - Lesser(DrainMax, ReadyCount))
  <2>1. min_seqn' = (min_seqn + o) % Modulus /\ first' = first + o /\ outrun' = outrun
    BY <1>8 DEF Drain
  <2>2. o \in Nat
    <3>1. DrainMax - Lesser(DrainMax, ReadyCount) \in Nat
      BY DrainLeft
    <3>2. o \in 0 .. Size
      BY <3>1, RunIs
    <3> HIDE DEF o
    <3>3. QED
      BY <3>2, SizeIs
  <2> HIDE DEF o
  <2>3. QED
    BY <1>1, <1>2, <2>1, <2>2
<1>9. QED
  BY <1>4, <1>5, <1>6, <1>7, <1>8 DEF Next, ReorderExec, Fill

\* Every step keeps the types, and the entries of ready_buf in use.
LEMMA TypeStep ==
  ASSUME TypeOK, FillInv, ReadyInv, [Next]_vars, first' \in Nat, outrun' \in BOOLEAN
  PROVE  TypeOK' /\ ReadyInv'
<1>1. /\ numbered \in 0 .. MaxPkts /\ pipeline \subseteq Nat /\ IsFiniteSet(pipeline)
      /\ left \in 0 .. ExecMax /\ order_head_adv \in Nat /\ order_head \in Position
      /\ min_seqn \in 0 .. Modulus - 1 /\ MaxPkts \in Nat /\ ExecMax \in Nat
      /\ order \in [Position -> Nat \cup {None}]
  BY ReorderAssumption DEF TypeOK
<1>2. ASSUME UNCHANGED readyVars PROVE ReadyInv'
  BY <1>2 DEF readyVars, ReadyInv, ReadyCount
<1>3. Masked(order_head + 1) \in Position
  BY <1>1, Moved, SizeIs
<1>4. CASE SeqExec
  <2>1. numbered + 1 \in 0 .. MaxPkts /\ numbered \in Nat
    BY <1>1, <1>4 DEF SeqExec
  <2>2. IsFiniteSet(pipeline \cup {numbered})
    BY <1>1, FS_AddElement
  <2>3. QED
    BY <1>2, <1>4, <2>1, <2>2 DEF SeqExec, TypeOK, fillVars, orderVars, readyVars, histVars
<1>5. ASSUME NEW n \in 0 .. Lesser(ExecMax, Cardinality(pipeline)), Call(n)
      PROVE  TypeOK' /\ ReadyInv'
  <2>1. n \in 0 .. ExecMax
    <3>1. Cardinality(pipeline) \in Nat
      BY <1>1, FS_CardinalityType
    <3>2. QED
      BY <1>1, <3>1 DEF Lesser
  <2>2. QED
    BY <1>2, <1>5, <2>1
       DEF Call, TypeOK, srcVars, fillVars, orderVars, readyVars, histVars
<1>6. ASSUME NEW m \in pipeline, NextMbuf(m)
      PROVE  /\ pipeline' \subseteq Nat /\ IsFiniteSet(pipeline') /\ left' \in 0 .. ExecMax
             /\ m \in Nat
  <2>1. IsFiniteSet(pipeline \ {m})
    BY <1>1, FS_Subset
  <2>2. left - 1 \in 0 .. ExecMax
    BY <1>1, <1>6 DEF NextMbuf
  <2>3. QED
    BY <1>1, <1>6, <2>1, <2>2 DEF NextMbuf
<1>7. ASSUME NEW m \in pipeline, InsertInWindow(m) PROVE TypeOK' /\ ReadyInv'
  <2>1. NextMbuf(m) /\ UNCHANGED readyVars
    BY <1>7 DEF InsertInWindow
  <2>2. order' \in [Position -> Nat \cup {None}]
    BY <1>1, <1>6, <1>7, <2>1 DEF InsertInWindow
  <2>3. QED
    BY <1>2, <1>6, <1>7, <2>1, <2>2 DEF InsertInWindow, TypeOK, fillVars, readyVars, histVars
<1>8. ASSUME NEW m \in pipeline, InsertOverflow(m) PROVE TypeOK' /\ ReadyInv'
  <2>1. NextMbuf(m) /\ UNCHANGED readyVars
    BY <1>8 DEF InsertOverflow
  <2>2. needed' \in 0 .. Size
    <3>1. Offset(m) \in Nat
      BY <1>1, SeqnIs, SizeIs
    <3>2. QED
      BY <1>8, <3>1, SizeIs DEF InsertOverflow
  <2>3. QED
    BY <1>2, <1>6, <1>8, <2>1, <2>2 DEF InsertOverflow, TypeOK, orderVars, readyVars, histVars
<1>9. ASSUME NEW m \in pipeline, InsertOutOfRange(m) PROVE TypeOK' /\ ReadyInv'
  <2>1. NextMbuf(m) /\ UNCHANGED readyVars
    BY <1>9 DEF InsertOutOfRange
  <2>2. QED
    BY <1>2, <1>6, <1>9, <2>1
       DEF InsertOutOfRange, TypeOK, fillVars, orderVars, readyVars
<1>10. CASE FillOuter
  <2>1. order_head' \in Position /\ order_head_adv' \in Nat
    BY <1>1, <1>3, <1>10 DEF FillOuter, Advance
  <2>2. QED
    BY <1>2, <1>10, <2>1 DEF FillOuter, TypeOK, srcVars, readyVars, histVars
<1>11. CASE FillMove
  <2>1. ReadyInv' /\ ready' \in [Position -> Nat \cup {None}] /\ ready_head' \in Position
    BY <1>11, ReadyAppended
  <2>2. order_head' \in Position /\ order_head_adv' \in Nat
    BY <1>1, <1>3, <1>11 DEF FillMove, Advance
  <2>3. order[order_head] \in Nat /\ order' \in [Position -> Nat \cup {None}]
    BY <1>1, <1>11 DEF FillMove
  <2>4. lost' \subseteq Nat /\ pc' \in {"outer", "inner"}
    BY <1>11, <2>3 DEF FillMove, TypeOK
  <2>5. UNCHANGED <<numbered, pipeline, left, mbuf, needed, min_seqn, ready_tail, drained, rejected>>
    BY <1>11 DEF FillMove, srcVars
  <2>6. QED
    BY <2>1, <2>2, <2>3, <2>4, <2>5 DEF TypeOK
<1>12. CASE FillRunEnds
  BY <1>2, <1>12 DEF FillRunEnds, TypeOK, srcVars, fillVars, orderVars, readyVars, histVars
<1>13. CASE FillReturns
  <2>1. mbuf \in Nat
    BY <1>13 DEF FillReturns, FillInv
  <2>2. order' \in [Position -> Nat \cup {None}] /\ rejected' \subseteq Nat
    BY <1>1, <1>13, <2>1 DEF FillReturns, TypeOK
  <2>3. min_seqn' \in 0 .. Modulus - 1
    <3>1. Modulus \in Nat \ {0} /\ min_seqn + order_head_adv \in Int
      BY <1>1, SizeIs
    <3>2. QED
      BY <1>13, <3>1, DivisionIs DEF FillReturns
  <2>4. 0 \in 0 .. Size /\ 0 \in Nat
    BY SizeIs
  <2>5. /\ mbuf' = None /\ order_head_adv' = 0 /\ needed' = 0 /\ pc' = "exec"
        /\ UNCHANGED <<numbered, pipeline, left, order_head, readyVars, drained, lost>>
    BY <1>13 DEF FillReturns, srcVars
  <2>6. QED
    BY <1>2, <2>2, <2>3, <2>4, <2>5 DEF TypeOK, readyVars
<1>14. CASE Drain
  <2>1. /\ pc' = "idle"
        /\ UNCHANGED <<numbered, pipeline, left, mbuf, order_head_adv, needed, ready_head,
                       rejected, lost>>
    BY <1>14 DEF Drain, srcVars, fillVars
  <2>2. QED
    BY <1>14, <2>1, DrainTyped DEF TypeOK
<1>15. CASE UNCHANGED vars
  BY <1>2, <1>15 DEF vars, TypeOK, srcVars, fillVars, orderVars, readyVars, histVars
<1>16. QED
  BY <1>4, <1>5, <1>7, <1>8, <1>9, <1>10, <1>11, <1>12, <1>13, <1>14, <1>15
     DEF Next, ReorderExec, Insert, Fill

-----------------------------------------------------------------------------
(* The theorems.                                                           *)

IInv == TypeOK /\ WindowAligned /\ FillInv /\ ReadyInv /\ TurnInv

\* The buffers start empty, with the head at no offset.
LEMMA InitInv == Init => IInv
<1> SUFFICES ASSUME Init PROVE IInv
  OBVIOUS
<1>1. 0 \in Position /\ Masked(0 - 0) = 0
  BY MaskedIs, SizeIs DEF Position
<1>2. SeqStart \in 0 .. Modulus - 1 /\ MaxPkts \in Nat /\ ExecMax \in Nat
  BY ReorderAssumption
<1>3. TypeOK
  <2>1. IsFiniteSet(pipeline)
    BY FS_EmptySet DEF Init
  <2>2. numbered \in 0 .. MaxPkts /\ left \in 0 .. ExecMax /\ needed \in 0 .. Size
    BY <1>2, SizeIs DEF Init
  <2>3. drained \in Seq(Nat)
    BY DEF Init
  <2>4. QED
    BY <1>1, <1>2, <2>1, <2>2, <2>3 DEF Init, TypeOK
<1>4. \A k \in Position : OrderAt(k) = None
  <2> SUFFICES ASSUME NEW k \in Position PROVE OrderAt(k) = None
    OBVIOUS
  <2>1. Masked(order_head + k) \in Position
    BY <1>1, OffsetIs DEF Init
  <2>2. QED
    BY <2>1 DEF Init, OrderAt
<1>5. ReadyCount = 0
  BY <1>1 DEF Init, ReadyCount
<1>6. ReadyInv
  BY <1>5, SizeIs DEF ReadyInv, Position
<1>7. TurnInv
  <2>1. SeqStart + 0 = SeqStart /\ Modulus \in Nat \ {0}
    BY <1>2, SizeIs
  <2>2. SeqStart % Modulus = SeqStart
    BY <1>2, <2>1, RemainderNear
  <2>3. QED
    BY <2>1, <2>2 DEF Init, TurnInv, Seqn
<1>8. QED
  BY <1>3, <1>4, <1>6, <1>7 DEF IInv, WindowAligned, FillInv, Init

\* The four parts are preserved together.
LEMMA StepInv == IInv /\ [Next]_vars => IInv'
BY WindowStep, TurnStep, TypeStep DEF IInv

\* For every size of the buffers and width of the numbers, indices stay in the buffers
\* and what is given back are packets.
THEOREM TypeCorrect == Spec => []TypeOK
<1>1. IInv => TypeOK
  BY DEF IInv
<1>2. QED
  BY <1>1, InitInv, StepInv, PTL DEF Spec

\* However inserts, overflows and drains alternate, and wherever the sequence numbers
\* wrap: an entry of the window holds the packet with its number.
THEOREM WindowStaysAligned == Spec => []WindowAligned
<1>1. IInv => WindowAligned
  BY DEF IInv
<1>2. QED
  BY <1>1, InitInv, StepInv, PTL DEF Spec

-----------------------------------------------------------------------------
(* Where packets are.                                                      *)

\* What has been given back, and what waits to be.
Out == drained \o ReadyList

\* The packet that the head of order_buf is for.
Due == first + order_head_adv

OrderSet == {OrderAt(k) : k \in Position} \ {None}
OutSet == {Out[i] : i \in 1 .. Len(Out)}
InHand == {mbuf} \ {None}

Kept == OrderSet \cup OutSet

\* An entry of the window is for one packet, and not only for its number.
Exact ==
  \A k \in Position : OrderAt(k) # None => OrderAt(k) = Due + k /\ OrderAt(k) < numbered

\* What has left the window ascends, and was numbered before what is due.
Ascending ==
  /\ \A i, j \in 1 .. Len(Out) : i < j => Out[i] < Out[j]
  /\ \A i \in 1 .. Len(Out) : Out[i] < Due

\* Where packets are, as long as none has come a turn of the numbers too early: no packet
\* of the pipeline is too late, and main is not ahead of the packets.
PlaceInv ==
  /\ Exact /\ Ascending
  /\ \A m \in pipeline : m < numbered /\ numbered <= m + MaxDelay
  /\ pc \in {"idle", "exec"} => first <= numbered /\ mbuf = None
  /\ pc \in {"outer", "inner"} => mbuf = first + Offset(mbuf) /\ mbuf < numbered

\* Packet m has been numbered: it is in one of these places.
OnceInv ==
  /\ 0 .. numbered - 1 = pipeline \cup InHand \cup Kept \cup rejected \cup lost
  /\ pipeline \cap (InHand \cup Kept \cup rejected \cup lost) = {}
  /\ InHand \cap (Kept \cup rejected \cup lost) = {}
  /\ Kept \cap (rejected \cup lost) = {} /\ rejected \cap lost = {}

\* Remainders of a difference.
LEMMA RemainderSubtracts ==
  ASSUME NEW n \in Nat \ {0}, NEW a \in Int, NEW b \in Int
  PROVE  ((a % n) - (b % n)) % n = (a - b) % n
<1> DEFINE q == b \div n
           r == b % n
           c == (a - b) \div n
           d == (a - b) % n
<1>1. q \in Int /\ r \in 0 .. n - 1 /\ b = (n * q) + r
  BY DivisionIs, Zenon
<1>2. c \in Int /\ d \in 0 .. n - 1 /\ a - b = (n * c) + d
  <2>1. a - b \in Int
    OBVIOUS
  <2>2. QED
    BY <2>1, DivisionIs, Zenon
<1>3. ((a % n) + (-r)) % n = (a + (-r)) % n
  <2> HIDE DEF r
  <2>1. -r \in Int
    BY <1>1
  <2>2. QED
    BY <2>1, RemainderAdds, Zenon
<1> HIDE DEF q, r, c, d
<1>4. (n * q) + (n * c) = n * (q + c) /\ q + c \in Int /\ n * q \in Int /\ n * c \in Int
  BY <1>1, <1>2
<1>5. a + (-r) = (n * (q + c)) + d
  BY <1>1, <1>2, <1>4
<1>6. (a + (-r)) % n = d
  BY <1>2, <1>4, <1>5, RemainderIs
<1>7. (a % n) + (-r) = (a % n) - r
  <2>1. a % n \in Int
    OBVIOUS
  <2> DEFINE x == a % n
  <2> HIDE DEF x
  <2>2. x \in Int
    BY <2>1 DEF x
  <2>3. x + (-r) = x - r
    BY <2>2, <1>1
  <2>4. QED
    BY <2>3 DEF x
<1>8. ((a % n) - r) % n = d
  BY <1>3, <1>6, <1>7
<1>9. QED
  BY <1>8 DEF r, d

\* A packet that is not too late and has not come a turn too early is as far behind the
\* first one as its offset says.
LEMMA OffsetExact ==
  ASSUME TypeOK, TurnInv, NEW m \in Nat, m - first < Modulus,
         (2 * Size) - Modulus <= m - first, Offset(m) < 2 * Size
  PROVE  m = first + Offset(m) /\ Offset(m) \in Nat
<1>1. Modulus \in Nat \ {0} /\ SeqStart \in Int /\ first \in Nat /\ Size \in Nat
  BY SizeIs, ReorderAssumption DEF TypeOK
<1>2. Offset(m) = (m - first) % Modulus
  <2>1. SeqStart + m \in Int /\ SeqStart + first \in Int
    BY <1>1
  <2>2. (((SeqStart + m) % Modulus) - ((SeqStart + first) % Modulus)) % Modulus
          = ((SeqStart + m) - (SeqStart + first)) % Modulus
    BY <1>1, <2>1, RemainderSubtracts, Zenon
  <2>3. (SeqStart + m) - (SeqStart + first) = m - first
    BY <1>1
  <2>4. QED
    BY <2>2, <2>3 DEF Offset, TurnInv, Seqn
<1>3. CASE m >= first
  <2>1. m - first \in 0 .. Modulus - 1
    BY <1>1, <1>3
  <2>2. Offset(m) = m - first
    BY <1>1, <1>2, <2>1, RemainderNear
  <2>3. QED
    BY <1>1, <1>3, <2>2
<1>4. CASE m < first
  <2> DEFINE a == (m - first) + Modulus
  <2>1. a \in 0 .. Modulus - 1 /\ m - first = a - Modulus /\ a >= 2 * Size
    BY <1>1, <1>4
  <2>2. Offset(m) = a
    BY <1>1, <1>2, <2>1, RemainderNear
  <2> HIDE DEF a
  <2>3. QED
    BY <1>1, <2>1, <2>2
<1>5. QED
  BY <1>1, <1>3, <1>4

\* The entries behind a head that has moved by one, over an entry that is or becomes empty.
LEMMA AdvancedAt ==
  ASSUME TypeOK, order_head' = Masked(order_head + 1), order'[order_head] = None,
         \A p \in Position \ {order_head} : order'[p] = order[p], NEW k \in Position
  PROVE  OrderAt(k)' = IF k + 1 < Size THEN OrderAt(k + 1) ELSE None
<1>1. order_head \in Position /\ k \in Nat /\ 1 \in 0 .. Size
  BY SizeIs DEF TypeOK, Position
<1>2. OrderAt(k)' = order'[Masked(Masked(order_head + 1) + k)]
  BY DEF OrderAt
<1>3. CASE 1 + k < Size
  <2>1. Masked(Masked(order_head + 1) + k) = Masked(order_head + (1 + k)) /\ 1 + k \in Position
        /\ k + 1 = 1 + k
    BY <1>1, <1>3, Moved, SizeIs DEF Position
  <2>2. Masked(order_head + (1 + k)) \in Position /\ Masked(order_head + (1 + k)) # order_head
    <3>1. Masked(order_head + (1 + k)) \in Position
          /\ Masked(Masked(order_head + (1 + k)) - order_head) = 1 + k
      BY <1>1, <2>1, OffsetIs
    <3>2. Masked(order_head - order_head) = 0
      BY <1>1, MaskedIs, SizeIs DEF Position
    <3>3. QED
      BY <1>1, <3>1, <3>2
  <2>3. QED
    BY <1>2, <1>3, <2>1, <2>2 DEF OrderAt
<1>4. CASE ~(1 + k < Size)
  <2>1. (1 + k) - Size = 0 /\ 1 + k >= Size
    BY <1>1, <1>4, SizeIs DEF Position
  <2>2. Masked(Masked(order_head + 1) + k) = Masked(order_head + 0)
    BY <1>1, <2>1, Moved
  <2>3. Masked(order_head + 0) = order_head
    BY <1>1, MaskedIs, SizeIs DEF Position
  <2>4. ~(k + 1 < Size)
    BY <1>1, <1>4, SizeIs
  <2>5. QED
    BY <1>2, <2>2, <2>3, <2>4
<1>5. QED
  BY <1>3, <1>4

\* The entries behind a head that a drain has moved.
LEMMA DrainedAt ==
  ASSUME TypeOK, NEW o \in 0 .. Size, order' = Cleared(order, order_head, o),
         order_head' = Masked(order_head + o), NEW k \in Position
  PROVE  OrderAt(k)' = IF o + k < Size THEN OrderAt(o + k) ELSE None
<1>1. order_head \in Position /\ k \in Nat /\ o \in Nat /\ Size \in Nat
  BY SizeIs DEF TypeOK, Position
<1>2. OrderAt(k)' = order'[Masked(Masked(order_head + o) + k)]
  BY DEF OrderAt
<1>3. CASE o + k < Size
  <2>1. o + k \in Position /\ Masked(Masked(order_head + o) + k) = Masked(order_head + (o + k))
    BY <1>1, <1>3, Moved DEF Position
  <2>2. /\ Masked(order_head + (o + k)) \in Position
        /\ Masked(Masked(order_head + (o + k)) - order_head) = o + k
    BY <1>1, <2>1, OffsetIs
  <2>3. ~(o + k < o)
    BY <1>1
  <2>4. order'[Masked(order_head + (o + k))] = order[Masked(order_head + (o + k))]
    BY <2>2, <2>3 DEF Cleared
  <2>5. QED
    BY <1>2, <1>3, <2>1, <2>4 DEF OrderAt
<1>4. CASE ~(o + k < Size)
  <2> DEFINE j == (o + k) - Size
  <2>1. j \in Position /\ j < o /\ o + k >= Size
    BY <1>1, <1>4, SizeIs DEF Position
  <2>2. Masked(Masked(order_head + o) + k) = Masked(order_head + j)
    BY <1>1, <2>1, Moved
  <2> HIDE DEF j
  <2>3. Masked(order_head + j) \in Position /\ Masked(Masked(order_head + j) - order_head) = j
    BY <1>1, <2>1, OffsetIs
  <2>4. QED
    BY <1>2, <1>4, <2>1, <2>2, <2>3 DEF Cleared
<1>5. QED
  BY <1>3, <1>4

\* The entries of ready_buf in use, as a sequence of packets.
LEMMA ReadyListIs ==
  ASSUME TypeOK, ReadyInv
  PROVE  /\ ReadyCount \in Nat /\ ReadyCount < Size
         /\ ReadyList \in Seq(Nat) /\ Len(ReadyList) = ReadyCount
         /\ \A k \in 1 .. ReadyCount :
              ReadyList[k] = ready[Masked(ready_tail + (k - 1))] /\ k - 1 \in Position
<1>1. /\ ready \in [Position -> Nat \cup {None}]
      /\ ready_head \in Position /\ ready_tail \in Position
  BY DEF TypeOK
<1>2. ReadyCount \in Position /\ ReadyCount \in Nat /\ ReadyCount < Size
  <2>1. ReadyCount \in Position
    BY DrainLeft
  <2>2. QED
    BY <2>1, SizeIs DEF Position
<1>3. ASSUME NEW k \in 1 .. ReadyCount
      PROVE  /\ ready[Masked(ready_tail + k - 1)] = ready[Masked(ready_tail + (k - 1))]
             /\ k - 1 \in Position /\ ready[Masked(ready_tail + (k - 1))] \in Nat
  <2>1. k - 1 \in Position /\ k - 1 < ReadyCount
    BY <1>2, SizeIs DEF Position
  <2>2. Masked(ready_tail + (k - 1)) \in Position /\ ready[Masked(ready_tail + (k - 1))] # None
    BY <1>1, <2>1, OffsetIs DEF ReadyInv
  <2>3. ready_tail + k - 1 = ready_tail + (k - 1)
    BY <1>1, <1>2, SizeIs DEF Position
  <2>4. QED
    BY <1>1, <2>1, <2>2, <2>3
<1>4. QED
  BY <1>2, <1>3 DEF ReadyList

\* An overflow appends to them, or finds ready_buf full.
LEMMA ReadyListGrows ==
  ASSUME TypeOK, ReadyInv, FillMove
  PROVE  ReadyList' = IF ReadyFull THEN ReadyList ELSE Append(ReadyList, order[order_head])
<1> DEFINE e == order[order_head]
           c == ReadyCount
<1>1. /\ ready_head \in Position /\ ready_tail \in Position /\ ready_tail' = ready_tail
      /\ ready \in [Position -> Nat \cup {None}] /\ ready' = [ready EXCEPT ![ready_head] = e]
      /\ e \in Nat /\ order_head \in Position
  BY DEF TypeOK, FillMove
<1>2. ReadyCount' = IF ReadyFull THEN c ELSE c + 1
  BY ReadyAppended
<1>3. /\ c \in Nat /\ c < Size /\ ReadyList \in Seq(Nat) /\ Len(ReadyList) = c
      /\ \A k \in 1 .. c : ReadyList[k] = ready[Masked(ready_tail + (k - 1))] /\ k - 1 \in Position
  BY ReadyListIs
<1>4. c \in Position /\ Masked(ready_tail + c) = ready_head
  BY <1>1, PositionIs DEF ReadyCount
<1>5. /\ ReadyList' = [k \in 1 .. ReadyCount' |-> ready'[Masked(ready_tail + k - 1)]]
  BY <1>1 DEF ReadyList
<1> HIDE DEF e, c
<1>6. \A k \in 1 .. c + 1 : ready_tail + k - 1 = ready_tail + (k - 1)
  BY <1>1, <1>3, SizeIs DEF Position
<1>7. ASSUME NEW k \in 1 .. c PROVE ready'[Masked(ready_tail + (k - 1))] = ReadyList[k]
  <2>1. k - 1 \in Position /\ k - 1 # c
    BY <1>3
  <2>2. Masked(ready_tail + (k - 1)) \in Position /\ Masked(ready_tail + (k - 1)) # ready_head
    BY <1>1, <1>4, <2>1, OffsetIs
  <2>3. QED
    BY <1>1, <1>3, <2>2
<1>8. CASE ReadyFull
  <2>1. ReadyList' = [k \in 1 .. c |-> ready'[Masked(ready_tail + k - 1)]]
    BY <1>2, <1>5, <1>8
  <2>2. \A k \in 1 .. c : ready'[Masked(ready_tail + k - 1)] = ReadyList[k]
    BY <1>3, <1>6, <1>7
  <2>3. ReadyList = [k \in 1 .. c |-> ReadyList[k]]
    BY <1>3
  <2>4. QED
    BY <1>8, <2>1, <2>2, <2>3
<1>9. CASE ~ReadyFull
  <2> DEFINE new == Append(ReadyList, e)
             now == ReadyList'
  <2>1. now = [k \in 1 .. c + 1 |-> ready'[Masked(ready_tail + k - 1)]]
    BY <1>2, <1>5, <1>9
  <2>2. /\ new \in Seq(Nat) /\ Len(new) = c + 1 /\ new[c + 1] = e
        /\ \A k \in 1 .. c : new[k] = ReadyList[k]
    BY <1>1, <1>3
  <2>3. ready'[Masked(ready_tail + c)] = e
    BY <1>1, <1>4
  <2> HIDE DEF new, now
  <2>4. ASSUME NEW k \in 1 .. c + 1 PROVE now[k] = new[k]
    <3>1. now[k] = ready'[Masked(ready_tail + (k - 1))]
      BY <1>6, <2>1
    <3>2. CASE k = c + 1
      <4>1. k - 1 = c
        BY <1>3, <3>2
      <4>2. QED
        BY <2>2, <2>3, <3>1, <3>2, <4>1
    <3>3. CASE k # c + 1
      <4>1. k \in 1 .. c
        BY <1>3, <3>3
      <4>2. QED
        BY <1>7, <2>2, <3>1, <4>1
    <3>4. QED
      BY <3>2, <3>3
  <2>5. now \in Seq(Nat) /\ Len(now) = c + 1
    <3>1. \A k \in 1 .. c + 1 : now[k] \in Nat
      <4>1. \A k \in 1 .. c + 1 : new[k] \in Nat
        BY <2>2
      <4>2. QED
        BY <2>4, <4>1
    <3>2. now = [k \in 1 .. c + 1 |-> now[k]]
      BY <2>1
    <3>3. QED
      BY <1>3, <3>1, <3>2
  <2>6. now = new
    BY <2>2, <2>4, <2>5, SeqEqual
  <2>7. QED
    BY <1>9, <2>6 DEF new, now, e
<1>10. QED
  BY <1>8, <1>9 DEF e

\* The rest of a sequence.
LEMMA RestIs ==
  ASSUME NEW q \in Seq(Nat), NEW r \in 0 .. Len(q)
  PROVE  /\ SubSeq(q, 1, r) \in Seq(Nat) /\ Len(SubSeq(q, 1, r)) = r
         /\ \A k \in 1 .. r : SubSeq(q, 1, r)[k] = q[k]
         /\ SubSeq(q, r + 1, Len(q)) \in Seq(Nat)
         /\ Len(SubSeq(q, r + 1, Len(q))) = Len(q) - r
         /\ \A k \in 1 .. Len(q) - r : SubSeq(q, r + 1, Len(q))[k] = q[r + k]
OBVIOUS

\* A drain takes the first of them.
LEMMA ReadyListShrinks ==
  ASSUME TypeOK, ReadyInv, Drain, NEW r, r = Lesser(DrainMax, ReadyCount)
  PROVE  /\ r \in 0 .. ReadyCount
         /\ ReadyList' = SubSeq(ReadyList, r + 1, ReadyCount)
<1> DEFINE c == ReadyCount
<1>1. /\ ready_head \in Position /\ ready_tail \in Position
      /\ ready \in [Position -> Nat \cup {None}]
  BY DEF TypeOK
<1>2. ready' = Cleared(ready, ready_tail, r) /\ ready_tail' = Masked(ready_tail + r)
  BY DEF Drain
<1>3. ReadyCount' = c - r /\ r \in 0 .. c
  BY DrainTyped, DrainLeft
<1>4. /\ c \in Nat /\ c < Size /\ ReadyList \in Seq(Nat) /\ Len(ReadyList) = c
      /\ \A k \in 1 .. c : ReadyList[k] = ready[Masked(ready_tail + (k - 1))] /\ k - 1 \in Position
  BY ReadyListIs
<1> DEFINE new == SubSeq(ReadyList, r + 1, c)
           now == ReadyList'
<1> HIDE DEF c
<1>5. now = [k \in 1 .. c - r |-> ready'[Masked(ready_tail' + k - 1)]]
  BY <1>3 DEF ReadyList
<1>6. /\ new \in Seq(Nat) /\ Len(new) = c - r
      /\ \A k \in 1 .. c - r : new[k] = ReadyList[r + k] /\ r + k \in 1 .. c
  <2>1. r \in 0 .. Len(ReadyList) /\ c = Len(ReadyList)
    BY <1>3, <1>4
  <2>2. /\ new \in Seq(Nat) /\ Len(new) = c - r
        /\ \A k \in 1 .. c - r : new[k] = ReadyList[r + k]
    <3> DEFINE q == ReadyList
    <3>1. q \in Seq(Nat) /\ r \in 0 .. Len(q) /\ c = Len(q)
      BY <1>4, <2>1
    <3> HIDE DEF q
    <3>2. /\ SubSeq(q, r + 1, Len(q)) \in Seq(Nat) /\ Len(SubSeq(q, r + 1, Len(q))) = Len(q) - r
          /\ \A k \in 1 .. Len(q) - r : SubSeq(q, r + 1, Len(q))[k] = q[r + k]
      BY <3>1, RestIs
    <3>3. /\ SubSeq(q, r + 1, c) \in Seq(Nat) /\ Len(SubSeq(q, r + 1, c)) = c - r
          /\ \A k \in 1 .. c - r : SubSeq(q, r + 1, c)[k] = q[r + k]
      BY ONLY <3>1, <3>2
    <3>4. QED
      BY <3>3 DEF q
  <2>3. \A k \in 1 .. c - r : r + k \in 1 .. c
    <3>1. r \in 0 .. c /\ c \in Nat
      BY <1>3, <1>4, Zenon
    <3>2. QED
      BY ONLY <3>1
  <2>4. QED
    BY <2>2, <2>3
<1> HIDE DEF new, now
<1>7. ASSUME NEW k \in 1 .. c - r PROVE now[k] = new[k]
  <2>1. k \in Nat /\ r \in Nat /\ k - 1 \in Position /\ r + (k - 1) \in Position
        /\ r \in 0 .. Size /\ r + (k - 1) < Size /\ r + (k - 1) = (r + k) - 1
    <3>1. r \in 0 .. c /\ c \in Nat /\ c < Size /\ Size \in Nat /\ k \in 1 .. c - r
      BY <1>3, <1>4, SizeIs
    <3>2. k \in Nat /\ r \in Nat /\ k - 1 \in 0 .. Size - 1 /\ r + (k - 1) \in 0 .. Size - 1
          /\ r \in 0 .. Size /\ r + (k - 1) < Size /\ r + (k - 1) = (r + k) - 1
      BY ONLY <3>1
    <3>3. QED
      BY <3>2, Zenon DEF Position
  <2>2. ready_tail' \in Position
    BY <1>1, <1>2, <2>1, Moved
  <2>3. ready_tail' + k - 1 = ready_tail' + (k - 1)
    BY <2>1, <2>2, SizeIs DEF Position
  <2>4. Masked(ready_tail' + (k - 1)) = Masked(ready_tail + (r + (k - 1)))
    BY <1>1, <1>2, <2>1, Moved
  <2>5. /\ Masked(ready_tail + (r + (k - 1))) \in Position
        /\ Masked(Masked(ready_tail + (r + (k - 1))) - ready_tail) = r + (k - 1)
    BY <1>1, <2>1, OffsetIs
  <2>6. ~(r + (k - 1) < r)
    BY <2>1
  <2>7. ready'[Masked(ready_tail + (r + (k - 1)))] = ready[Masked(ready_tail + (r + (k - 1)))]
    BY <1>2, <2>5, <2>6 DEF Cleared
  <2>8. ReadyList[r + k] = ready[Masked(ready_tail + (r + (k - 1)))]
    BY <1>4, <1>6, <2>1
  <2>9. QED
    BY <1>5, <1>6, <2>3, <2>4, <2>7, <2>8
<1>8. now \in Seq(Nat) /\ Len(now) = c - r
  <2>1. \A k \in 1 .. c - r : new[k] \in Nat
    BY <1>6
  <2>2. \A k \in 1 .. c - r : now[k] \in Nat
    BY <1>7, <2>1
  <2>3. now = [k \in 1 .. c - r |-> now[k]] /\ c - r \in Nat
    BY <1>3, <1>4, <1>5
  <2>4. QED
    BY <2>2, <2>3
<1>9. now = new
  BY <1>6, <1>7, <1>8, SeqEqual
<1>10. QED
  BY <1>3, <1>9 DEF new, now, c

\* Lists of mbufs can be put together in any order.
LEMMA ListsAssociate ==
  ASSUME NEW a \in Seq(Nat), NEW b \in Seq(Nat), NEW c \in Seq(Nat)
  PROVE  (a \o b) \o c = a \o (b \o c)
BY ConcatAssociative

\* Concatenation under a name of its own: the provers then need not look at the
\* mbufs one by one.
Cat(a, b) == a \o b
Queues == Seq(Nat)

\* It can be done in any order.
LEMMA CatAssociates ==
  \A a, b, c \in Queues : Cat(Cat(a, b), c) = Cat(a, Cat(b, c))
BY ListsAssociate, Zenon DEF Cat, Queues

\* What has been given back and what waits are packets.
LEMMA OutIs ==
  ASSUME TypeOK, ReadyInv
  PROVE  Out \in Seq(Nat) /\ Len(Out) \in Nat
<1>1. drained \in Seq(Nat) /\ ReadyList \in Seq(Nat)
  BY ReadyListIs DEF TypeOK
<1>2. Out \in Seq(Nat)
  BY <1>1, ConcatProperties DEF Out
<1>3. QED
  BY <1>2, LenProperties

\* An overflow appends the packet at the head, or loses it.
LEMMA OutGrows ==
  ASSUME TypeOK, ReadyInv, FillMove
  PROVE  Out' = IF ReadyFull THEN Out ELSE Out \o <<order[order_head]>>
<1>1. drained \in Seq(Nat) /\ ReadyList \in Seq(Nat) /\ drained' = drained
  BY ReadyListIs DEF TypeOK, FillMove
<1>2. ReadyList' = IF ReadyFull THEN ReadyList ELSE Append(ReadyList, order[order_head])
  BY ReadyListGrows
<1>3. CASE ReadyFull
  BY <1>1, <1>2, <1>3 DEF Out
<1>4. CASE ~ReadyFull
  <2> DEFINE e == order[order_head]
  <2>1. e \in Nat
    BY DEF TypeOK, FillMove
  <2>2. Out' = drained \o Append(ReadyList, e)
    BY <1>1, <1>2, <1>4 DEF Out
  <2> HIDE DEF e
  <2>3. Append(ReadyList, e) = ReadyList \o <<e>> /\ <<e>> \in Seq(Nat)
    BY <1>1, <2>1, AppendIsConcat
  <2>4. drained \o (ReadyList \o <<e>>) = (drained \o ReadyList) \o <<e>>
    BY <1>1, <2>3, ConcatAssociative
  <2>5. QED
    BY <1>4, <2>2, <2>3, <2>4 DEF Out, e
<1>5. QED
  BY <1>3, <1>4

\* The run of packets at the head of order_buf is what stands there.
LEMMA RunTyped ==
  ASSUME TypeOK, NEW n \in Nat
  PROVE  /\ Run(n) \in Seq(Nat) /\ Len(Run(n)) = RunLength(n)
         /\ \A k \in 1 .. RunLength(n) : Run(n)[k] = OrderAt(k - 1)
         /\ n = 0 => Run(n) = <<>>
<1>1. order \in [Position -> Nat \cup {None}] /\ order_head \in Position
  BY DEF TypeOK
<1> DEFINE o == RunLength(n)
<1>2. o \in 0 .. Size /\ o <= n /\ \A i \in 0 .. o - 1 : OrderAt(i) # None
  BY RunIs
<1>3. Run(n) = [k \in 1 .. o |-> OrderAt(k - 1)]
  BY DEF Run
<1> HIDE DEF o
<1>4. o \in Nat
  BY <1>2, SizeIs
<1>5. ASSUME NEW k \in 1 .. o PROVE OrderAt(k - 1) \in Nat
  <2>1. k - 1 \in 0 .. o - 1 /\ k - 1 \in Position
    BY <1>2, SizeIs DEF Position
  <2>2. Masked(order_head + (k - 1)) \in Position
    BY <1>1, <2>1, OffsetIs
  <2>3. QED
    BY <1>1, <1>2, <2>1, <2>2 DEF OrderAt
<1>6. Run(n) \in Seq(Nat) /\ Len(Run(n)) = o
  BY <1>3, <1>4, <1>5
<1>7. n = 0 => Run(n) = <<>>
  <2>1. n = 0 => o = 0
    BY <1>2, <1>4
  <2> DEFINE q == Run(n)
  <2>2. q \in Seq(Nat) /\ Len(q) = o
    BY <1>6
  <2> HIDE DEF q
  <2>3. Len(q) = 0 => q = <<>>
    BY <2>2, EmptySeq
  <2>4. QED
    BY <2>1, <2>2, <2>3 DEF q
<1>8. QED
  BY <1>3, <1>6, <1>7 DEF o

\* A drain gives back first what waits; only when all of it is given back does it take
\* packets from order_buf.
LEMMA OutDrains ==
  ASSUME TypeOK, ReadyInv, Drain
  PROVE  Out' = Out \o Run(DrainMax - Lesser(DrainMax, ReadyCount))
<1> DEFINE r == Lesser(DrainMax, ReadyCount)
           run == Run(DrainMax - r)
           s == SubSeq(ReadyList, 1, r)
           t == SubSeq(ReadyList, r + 1, ReadyCount)
<1>1. /\ drained \in Seq(Nat) /\ ReadyList \in Seq(Nat) /\ Len(ReadyList) = ReadyCount
      /\ ReadyCount \in Nat
  BY ReadyListIs DEF TypeOK
<1>2. r \in 0 .. ReadyCount /\ ReadyList' = t
  BY ReadyListShrinks, Zenon
<1>3. DrainMax - r \in Nat
  BY DrainLeft
<1>4. run \in Seq(Nat) /\ (DrainMax - r = 0 => run = <<>>)
  BY <1>3, RunTyped
<1>5. drained' = (drained \o s) \o run
  BY DEF Drain
<1>6. s \in Seq(Nat) /\ t \in Seq(Nat)
  <2>1. r \in 0 .. Len(ReadyList) /\ ReadyCount = Len(ReadyList)
    BY <1>1, <1>2
  <2> HIDE DEF r
  <2>2. QED
    BY <1>1, <2>1, RestIs
<1>7. r = ReadyCount \/ DrainMax - r = 0
  BY <1>1, ReorderAssumption DEF Lesser
<1>8. CASE r = ReadyCount
  <2>1. s = ReadyList
    BY <1>1, <1>8, SubSeqFull
  <2>2. t = <<>>
    <3>1. ReadyCount + 1 \in Int /\ ReadyCount \in Int /\ ReadyCount < ReadyCount + 1
      BY <1>1
    <3>2. SubSeq(ReadyList, ReadyCount + 1, ReadyCount) = <<>>
      BY <3>1, SubSeqEmpty
    <3>3. QED
      BY <1>8, <3>2
  <2> HIDE DEF r, s, t, run
  <2>3. Out' = ((drained \o ReadyList) \o run) \o <<>>
    BY <1>2, <1>5, <2>1, <2>2 DEF Out
  <2>4. (drained \o ReadyList) \o run \in Seq(Nat)
    BY <1>1, <1>4, ConcatProperties
  <2>5. Out' = Out \o run
    BY <2>3, <2>4, ConcatEmptySeq DEF Out
  <2>6. QED
    BY <2>5 DEF run, r
<1>9. CASE DrainMax - r = 0
  <2>1. s \o t = ReadyList
    <3>1. /\ 1 \in 1 .. Len(ReadyList) + 1 /\ r \in 1 - 1 .. Len(ReadyList)
          /\ Len(ReadyList) \in r .. Len(ReadyList)
      BY <1>1, <1>2
    <3>2. SubSeq(ReadyList, 1, r) \o SubSeq(ReadyList, r + 1, Len(ReadyList))
            = SubSeq(ReadyList, 1, Len(ReadyList))
      <4> HIDE DEF r
      <4>1. QED
        BY <1>1, <3>1, ConcatAdjacentSubSeq
    <3>3. QED
      BY <1>1, <3>2, SubSeqFull
  <2>2. run = <<>>
    BY <1>4, <1>9
  <2> HIDE DEF r, s, t, run
  <2>3. drained \o s \in Seq(Nat)
    BY <1>1, <1>6, ConcatProperties
  <2>4. drained' = drained \o s
    BY <1>5, <2>2, <2>3, ConcatEmptySeq
  <2>5. Out' = (drained \o s) \o t
    BY <1>2, <2>4 DEF Out
  <2>6. (drained \o s) \o t = drained \o (s \o t)
    <3>1. drained \in Queues /\ s \in Queues /\ t \in Queues
      BY <1>1, <1>6, Zenon DEF Queues
    <3>2. Cat(Cat(drained, s), t) = Cat(drained, Cat(s, t))
      BY ONLY <3>1, CatAssociates
    <3>3. QED
      BY <3>2, Zenon DEF Cat
  <2>7. Out' = Out
    BY <2>1, <2>5, <2>6 DEF Out
  <2>8. Out \in Seq(Nat)
    BY OutIs
  <2>9. Out \o run = Out
    BY <2>2, <2>8, ConcatEmptySeq
  <2>10. QED
    BY <2>7, <2>9 DEF run, r
<1>10. QED
  BY <1>7, <1>8, <1>9

\* Ascending packets below a bound, and behind them the next ones.
LEMMA AscendingGrows ==
  ASSUME NEW q \in Seq(Nat), NEW b \in Nat,
         \A i, j \in 1 .. Len(q) : i < j => q[i] < q[j],
         \A i \in 1 .. Len(q) : q[i] < b,
         NEW t \in Seq(Nat), \A j \in 1 .. Len(t) : t[j] = b + (j - 1)
  PROVE  /\ \A i, j \in 1 .. Len(q \o t) : i < j => (q \o t)[i] < (q \o t)[j]
         /\ \A i \in 1 .. Len(q \o t) : (q \o t)[i] < b + Len(t)
         /\ {(q \o t)[i] : i \in 1 .. Len(q \o t)}
              = {q[i] : i \in 1 .. Len(q)} \cup {t[j] : j \in 1 .. Len(t)}
<1> DEFINE n == Len(q)
           k == Len(t)
           u == q \o t
<1>1. n \in Nat /\ k \in Nat
  BY LenProperties
<1>2. /\ u \in Seq(Nat) /\ Len(u) = n + k
      /\ \A i \in 1 .. n + k : u[i] = IF i <= n THEN q[i] ELSE t[i - n]
  BY ConcatProperties
<1>3. \A i \in 1 .. n : q[i] \in Nat
  BY ElementOfSeq
<1>4. /\ \A i, j \in 1 .. n : i < j => q[i] < q[j]
      /\ \A i \in 1 .. n : q[i] < b
      /\ \A j \in 1 .. k : t[j] = b + (j - 1)
  OBVIOUS
<1> HIDE DEF n, k, u
<1>5. ASSUME NEW i \in 1 .. n + k
      PROVE  \/ i \in 1 .. n /\ u[i] = q[i]
             \/ i - n \in 1 .. k /\ ~(i <= n) /\ u[i] = t[i - n] /\ u[i] = b + ((i - n) - 1)
  <2>1. CASE i <= n
    BY <1>1, <1>2, <2>1
  <2>2. CASE ~(i <= n)
    <3>1. i - n \in 1 .. k
      BY <1>1, <2>2
    <3>2. u[i] = t[i - n]
      BY <1>2, <2>2
    <3>3. QED
      BY <1>4, <2>2, <3>1, <3>2
  <2>3. QED
    BY <2>1, <2>2
<1>6. ASSUME NEW i \in 1 .. n + k PROVE u[i] < b + k
  <2>1. CASE i \in 1 .. n /\ u[i] = q[i]
    <3>1. q[i] < b /\ q[i] \in Nat
      BY <1>3, <1>4, <2>1
    <3>2. QED
      BY <1>1, <2>1, <3>1
  <2>2. CASE i - n \in 1 .. k /\ u[i] = b + ((i - n) - 1)
    BY ONLY <1>1, <2>2, b \in Nat, i \in 1 .. n + k
  <2>3. QED
    BY <1>5, <2>1, <2>2
<1>7. ASSUME NEW i \in 1 .. n + k, NEW j \in 1 .. n + k, i < j PROVE u[i] < u[j]
  <2>1. CASE j \in 1 .. n /\ u[j] = q[j]
    <3>1. i \in 1 .. n
      BY <1>1, <1>7, <2>1
    <3>2. u[i] = q[i]
      BY <1>1, <1>5, <3>1
    <3>3. QED
      BY <1>4, <1>7, <2>1, <3>1, <3>2
  <2>2. CASE j - n \in 1 .. k /\ u[j] = b + ((j - n) - 1)
    <3>1. CASE i \in 1 .. n /\ u[i] = q[i]
      <4>1. q[i] < b /\ q[i] \in Nat
        BY <1>3, <1>4, <3>1
      <4>2. u[j] \in Nat /\ b <= u[j]
        BY <1>1, <2>2
      <4>3. QED
        BY <3>1, <4>1, <4>2
    <3>2. CASE i - n \in 1 .. k /\ u[i] = b + ((i - n) - 1)
      BY ONLY <1>1, <1>7, <2>2, <3>2, b \in Nat, i \in 1 .. n + k, j \in 1 .. n + k
    <3>3. QED
      BY <1>5, <3>1, <3>2
  <2>3. QED
    BY <1>5, <2>1, <2>2
<1>8. {u[i] : i \in 1 .. n + k} = {q[i] : i \in 1 .. n} \cup {t[j] : j \in 1 .. k}
  <2>1. ASSUME NEW i \in 1 .. n + k
        PROVE  (\E a \in 1 .. n : u[i] = q[a]) \/ (\E c \in 1 .. k : u[i] = t[c])
    BY <1>5
  <2>2. ASSUME NEW i \in 1 .. n PROVE \E a \in 1 .. n + k : q[i] = u[a]
    <3>1. i \in 1 .. n + k /\ i <= n
      BY <1>1
    <3>2. QED
      BY <1>2, <3>1
  <2>3. ASSUME NEW j \in 1 .. k PROVE \E a \in 1 .. n + k : t[j] = u[a]
    <3>1. n + j \in 1 .. n + k /\ ~(n + j <= n) /\ (n + j) - n = j
      BY <1>1
    <3>2. u[n + j] = t[j]
      BY <1>2, <3>1
    <3>3. QED
      BY <3>1, <3>2
  <2> DEFINE I == 1 .. n + k
             A == 1 .. n
             C == 1 .. k
  <2>4. /\ \A i \in I : (\E a \in A : u[i] = q[a]) \/ (\E c \in C : u[i] = t[c])
        /\ \A i \in A : \E a \in I : q[i] = u[a]
        /\ \A j \in C : \E a \in I : t[j] = u[a]
    BY <2>1, <2>2, <2>3
  <2> HIDE DEF I, A, C
  <2>5. {u[i] : i \in I} = {q[i] : i \in A} \cup {t[j] : j \in C}
    <3>1. ASSUME NEW x \in {u[i] : i \in I} PROVE x \in {q[i] : i \in A} \cup {t[j] : j \in C}
      <4>1. PICK i \in I : x = u[i]
        OBVIOUS
      <4>2. QED
        BY <2>4, <4>1
    <3>2. ASSUME NEW x \in {q[i] : i \in A} PROVE x \in {u[i] : i \in I}
      <4>1. PICK i \in A : x = q[i]
        OBVIOUS
      <4>2. QED
        BY <2>4, <4>1
    <3>3. ASSUME NEW x \in {t[j] : j \in C} PROVE x \in {u[i] : i \in I}
      <4>1. PICK j \in C : x = t[j]
        OBVIOUS
      <4>2. QED
        BY <2>4, <4>1
    <3>4. QED
      BY <3>1, <3>2, <3>3
  <2>6. QED
    BY <2>5 DEF I, A, C
<1>9. QED
  BY <1>2, <1>6, <1>7, <1>8 DEF n, k, u

\* What is not moved stays where it is.
LEMMA PlacesStay ==
  /\ UNCHANGED <<order, order_head>> =>
       /\ \A k \in Position : OrderAt(k)' = OrderAt(k)
       /\ OrderSet' = OrderSet
  /\ UNCHANGED <<drained, readyVars>> => Out' = Out /\ OutSet' = OutSet
<1>1. ASSUME UNCHANGED <<order, order_head>>
      PROVE  /\ \A k \in Position : OrderAt(k)' = OrderAt(k)
             /\ OrderSet' = OrderSet
  BY <1>1 DEF OrderAt, OrderSet
<1>2. ASSUME UNCHANGED <<drained, readyVars>> PROVE Out' = Out /\ OutSet' = OutSet
  BY <1>2 DEF readyVars, Out, OutSet, ReadyList, ReadyCount
<1>3. QED
  BY <1>1, <1>2

\* The types of what the places depend on.
LEMMA PlacesTyped ==
  ASSUME TypeOK
  PROVE  /\ first \in Nat /\ order_head_adv \in Nat /\ Due \in Nat /\ numbered \in Nat
         /\ pipeline \subseteq Nat /\ Size \in Nat \ {0} /\ Modulus \in Nat
         /\ MaxDelay \in Nat \ {0} /\ MaxDelay <= Modulus - (2 * Size)
         /\ \A k \in Position : OrderAt(k) \in Nat \cup {None} /\ k \in Nat /\ k < Size
         /\ None \notin Nat
<1>1. first \in Nat /\ order_head_adv \in Nat /\ numbered \in 0 .. MaxPkts /\ pipeline \subseteq Nat
      /\ order \in [Position -> Nat \cup {None}] /\ order_head \in Position
  BY DEF TypeOK
<1>2. MaxPkts \in Nat /\ MaxDelay \in 1 .. Modulus - (2 * Size) /\ None \notin Nat
  BY ReorderAssumption
<1>3. \A k \in Position : OrderAt(k) \in Nat \cup {None}
  BY <1>1, OffsetIs DEF OrderAt
<1>4. \A k \in Position : k \in Nat /\ k < Size
  BY SizeIs DEF Position
<1>5. QED
  BY <1>1, <1>2, <1>3, <1>4, SizeIs DEF Due

\* A packet is written where its place is.
LEMMA Written ==
  ASSUME TypeOK, Exact, NEW at \in Position, NEW m \in Nat, m = Due + at, m < numbered,
         m \notin OrderSet, UNCHANGED numbered, Due' = Due,
         \A k \in Position : OrderAt(k)' = IF k = at THEN m ELSE OrderAt(k)
  PROVE  Exact' /\ OrderSet' = OrderSet \cup {m}
<1>1. m # None
  BY PlacesTyped
<1>2. OrderAt(at) = None
  <2>1. OrderAt(at) # None => OrderAt(at) \in OrderSet
    BY DEF OrderSet
  <2>2. QED
    BY <2>1 DEF Exact
<1>3. Exact'
  BY DEF Exact
<1>4. ASSUME NEW x \in OrderSet' PROVE x \in OrderSet \cup {m}
  BY <1>4 DEF OrderSet
<1>5. ASSUME NEW x \in OrderSet PROVE x \in OrderSet'
  <2>1. PICK k \in Position : x = OrderAt(k) /\ x # None
    BY DEF OrderSet
  <2>2. OrderAt(k)' = x
    BY <1>2, <2>1
  <2>3. QED
    BY <2>1, <2>2 DEF OrderSet
<1>6. m \in OrderSet'
  BY <1>1 DEF OrderSet
<1>7. QED
  BY <1>3, <1>4, <1>5, <1>6

\* The head moves over the first entries.
LEMMA HeadMoved ==
  ASSUME TypeOK, Exact, NEW o \in 0 .. Size, UNCHANGED numbered, Due' = Due + o,
         \A k \in Position : OrderAt(k)' = IF o + k < Size THEN OrderAt(o + k) ELSE None
  PROVE  /\ Exact'
         /\ OrderSet = OrderSet' \cup ({OrderAt(k) : k \in 0 .. o - 1} \ {None})
         /\ OrderSet' \cap {OrderAt(k) : k \in 0 .. o - 1} = {}
<1>1. /\ Due \in Nat /\ Size \in Nat \ {0} /\ o \in Nat /\ o <= Size
      /\ \A k \in Position : k \in Nat /\ k < Size
      /\ \A k \in 0 .. o - 1 : k \in Position
  BY PlacesTyped, SizeIs DEF Position
<1>2. \A k \in Position : o + k < Size => o + k \in Position
  BY <1>1 DEF Position
<1>3. ASSUME NEW k \in Position, OrderAt(k)' # None
      PROVE  /\ OrderAt(k)' = Due' + k /\ OrderAt(k)' < numbered'
             /\ o + k \in Position /\ OrderAt(k)' = OrderAt(o + k)
             /\ OrderAt(k)' = Due + (o + k)
  <2>1. o + k < Size /\ OrderAt(k)' = OrderAt(o + k) /\ o + k \in Position
    BY <1>2, <1>3
  <2>2. OrderAt(k)' = Due + (o + k) /\ OrderAt(k)' < numbered
    BY <1>3, <2>1 DEF Exact
  <2>3. Due + (o + k) = (Due + o) + k
    BY <1>1
  <2>4. QED
    BY <2>1, <2>2, <2>3
<1>4. Exact'
  BY <1>3 DEF Exact
<1>5. ASSUME NEW x \in OrderSet' PROVE x \in OrderSet /\ x \notin {OrderAt(k) : k \in 0 .. o - 1}
  <2>1. PICK k \in Position : x = OrderAt(k)' /\ x # None
    BY DEF OrderSet
  <2>2. o + k \in Position /\ x = OrderAt(o + k) /\ x = Due + (o + k)
    BY <1>3, <2>1
  <2>3. x \in OrderSet
    BY <2>1, <2>2 DEF OrderSet
  <2>4. ASSUME NEW j \in 0 .. o - 1, x = OrderAt(j) PROVE FALSE
    <3>1. j \in Position /\ x = Due + j
      BY <1>1, <2>1, <2>4 DEF Exact
    <3>2. j < o /\ j \in Nat /\ k \in Nat
      BY <1>1, <3>1
    <3>3. QED
      BY ONLY <1>1, <2>2, <3>1, <3>2
  <2>5. QED
    BY <2>3, <2>4
<1>6. ASSUME NEW x \in OrderSet, x \notin {OrderAt(k) : k \in 0 .. o - 1} PROVE x \in OrderSet'
  <2>1. PICK k \in Position : x = OrderAt(k) /\ x # None
    BY DEF OrderSet
  <2>2. k \notin 0 .. o - 1
    BY <1>6, <2>1
  <2>3. k - o \in Position /\ o + (k - o) = k /\ o + (k - o) < Size
    BY <1>1, <2>2, SizeIs DEF Position
  <2>4. OrderAt(k - o)' = x
    BY <2>1, <2>3
  <2>5. QED
    BY <2>1, <2>3, <2>4 DEF OrderSet
<1>7. ASSUME NEW x \in {OrderAt(k) : k \in 0 .. o - 1} \ {None} PROVE x \in OrderSet
  BY <1>1 DEF OrderSet
<1>8. None \notin OrderSet
  BY DEF OrderSet
<1>9. QED
  BY <1>4, <1>5, <1>6, <1>7, <1>8

-----------------------------------------------------------------------------
(* How each action moves them.                                             *)

\* What the next lemmas have in common.
Before == TypeOK /\ FillInv /\ ReadyInv /\ TurnInv /\ PlaceInv /\ OnceInv

\* What is kept changes with neither the buffers nor what has been given back.
LEMMA KeptStays ==
  ASSUME PlaceInv, UNCHANGED <<order, order_head, drained, readyVars>>, Due' = Due,
         numbered \in Nat, numbered' \in Nat, numbered <= numbered',
         \A k \in Position : OrderAt(k) \in Nat \cup {None}
  PROVE  Exact' /\ Ascending' /\ Kept' = Kept
<1>1. /\ \A k \in Position : OrderAt(k)' = OrderAt(k)
      /\ OrderSet' = OrderSet /\ Out' = Out /\ OutSet' = OutSet /\ Due' = Due
  <2>1. OrderSet' = OrderSet /\ \A k \in Position : OrderAt(k)' = OrderAt(k)
    BY PlacesStay
  <2>2. Out' = Out /\ OutSet' = OutSet
    BY PlacesStay
  <2>3. QED
    BY <2>1, <2>2
<1>2. Exact'
  <2>1. ASSUME NEW k \in Position, OrderAt(k)' # None
        PROVE  OrderAt(k)' = Due' + k /\ OrderAt(k)' < numbered'
    <3>1. OrderAt(k) = Due + k /\ OrderAt(k) < numbered /\ OrderAt(k) \in Nat
      BY <1>1, <2>1 DEF PlaceInv, Exact
    <3>2. QED
      BY <1>1, <3>1
  <2>2. QED
    BY <2>1 DEF Exact
<1>3. Ascending'
  BY <1>1 DEF PlaceInv, Ascending
<1>4. QED
  BY <1>1, <1>2, <1>3 DEF Kept

\* seq_exec puts a new packet in the pipeline.
LEMMA SeqExecPlaces ==
  ASSUME Before, SeqExec
  PROVE  PlaceInv' /\ OnceInv'
<1>1. /\ UNCHANGED <<pc, mbuf, min_seqn, first, order_head_adv, order, order_head, drained,
                     readyVars, rejected, lost>>
      /\ numbered' = numbered + 1 /\ pipeline' = pipeline \cup {numbered}
      /\ \A m \in pipeline : numbered - m < MaxDelay
  BY DEF SeqExec, fillVars, orderVars, readyVars, histVars, turnVars
<1>2. /\ numbered \in Nat /\ pipeline \subseteq Nat /\ first \in Nat /\ MaxDelay \in Nat \ {0}
      /\ \A k \in Position : OrderAt(k) \in Nat \cup {None}
  BY PlacesTyped DEF Before
<1>3. Exact' /\ Ascending' /\ Kept' = Kept
  BY <1>1, <1>2, KeptStays DEF Before, Due
<1>4. InHand' = InHand
  BY <1>1 DEF InHand
<1>5. \A m \in pipeline' : m < numbered' /\ numbered' <= m + MaxDelay
  BY <1>1, <1>2 DEF Before, PlaceInv
<1>6. pc' \in {"idle", "exec"} => first' <= numbered' /\ mbuf' = None
  BY <1>1, <1>2 DEF Before, PlaceInv
<1>7. pc' \in {"outer", "inner"} => mbuf' = first' + Offset(mbuf)' /\ mbuf' < numbered'
  <2>1. Offset(mbuf)' = Offset(mbuf)
    BY <1>1 DEF Offset
  <2>2. pc \in {"outer", "inner"} => mbuf \in Nat
    BY DEF Before, FillInv
  <2>3. QED
    BY <1>1, <1>2, <2>1, <2>2 DEF Before, PlaceInv
<1>8. PlaceInv'
  BY <1>3, <1>5, <1>6, <1>7 DEF PlaceInv
<1>9. OnceInv'
  <2> DEFINE A == 0 .. numbered - 1
  <2>1. A' = A \cup {numbered} /\ numbered \notin A
    BY <1>1, <1>2
  <2>2. OnceInv'  <=>
          /\ A' = pipeline' \cup InHand' \cup Kept' \cup rejected' \cup lost'
          /\ pipeline' \cap (InHand' \cup Kept' \cup rejected' \cup lost') = {}
          /\ InHand' \cap (Kept' \cup rejected' \cup lost') = {}
          /\ Kept' \cap (rejected' \cup lost') = {} /\ rejected' \cap lost' = {}
    BY DEF OnceInv
  <2>3. /\ A = pipeline \cup InHand \cup Kept \cup rejected \cup lost
        /\ pipeline \cap (InHand \cup Kept \cup rejected \cup lost) = {}
        /\ InHand \cap (Kept \cup rejected \cup lost) = {}
        /\ Kept \cap (rejected \cup lost) = {} /\ rejected \cap lost = {}
    BY DEF Before, OnceInv
  <2> HIDE DEF A
  <2>4. QED
    BY <1>1, <1>3, <1>4, <2>1, <2>2, <2>3
<1>10. QED
  BY <1>8, <1>9

\* No packet moves.
LEMMA NothingPlaced ==
  ASSUME Before, UNCHANGED <<numbered, pipeline, mbuf, min_seqn, first, order_head_adv, order,
                             order_head, drained, readyVars, rejected, lost>>,
         \/ UNCHANGED pc
         \/ pc = "idle" /\ pc' = "exec"
         \/ pc = "inner" /\ pc' = "outer"
         \/ pc = "outer" /\ pc' = "inner"
  PROVE  PlaceInv' /\ OnceInv'
<1>1. numbered \in Nat /\ \A k \in Position : OrderAt(k) \in Nat \cup {None}
  BY PlacesTyped DEF Before
<1>2. Exact' /\ Ascending' /\ Kept' = Kept
  BY <1>1, KeptStays DEF Before, Due
<1>3. InHand' = InHand /\ Offset(mbuf)' = Offset(mbuf)
  BY DEF InHand, Offset
<1>4. PlaceInv'
  BY <1>2, <1>3 DEF Before, PlaceInv
<1>5. OnceInv'
  BY <1>2, <1>3 DEF Before, OnceInv
<1>6. QED
  BY <1>4, <1>5

\* The packet that insert is given next, while it has not come a turn too early, is as far
\* from the head of the window as its offset says.
LEMMA NextMbufPlaces ==
  ASSUME Before, NEW m \in pipeline, NextMbuf(m), ~outrun'
  PROVE  /\ m \in Nat /\ m < numbered /\ Offset(m) \in Nat
         /\ Offset(m) < 2 * Size => m = first + Offset(m)
         /\ mbuf = None /\ InHand = {} /\ order_head_adv = 0 /\ Due = first /\ first <= numbered
         /\ pc = "exec" /\ pipeline' = pipeline \ {m}
         /\ m \notin Kept \cup rejected \cup lost
<1>1. /\ first \in Nat /\ numbered \in Nat /\ pipeline \subseteq Nat /\ Size \in Nat
      /\ Modulus \in Nat /\ MaxDelay \in Nat /\ MaxDelay <= Modulus - (2 * Size)
  BY PlacesTyped DEF Before
<1>2. /\ pc = "exec" /\ pipeline' = pipeline \ {m} /\ ~(m - first >= Modulus)
  BY DEF NextMbuf
<1>3. m \in Nat /\ m < numbered /\ numbered <= m + MaxDelay /\ first <= numbered /\ mbuf = None
  BY <1>1, <1>2 DEF Before, PlaceInv
<1>4. m - first < Modulus /\ (2 * Size) - Modulus <= m - first
  BY ONLY <1>1, <1>2, <1>3
<1>5. Offset(m) < 2 * Size => m = first + Offset(m)
  BY <1>3, <1>4, OffsetExact DEF Before
<1>6. Offset(m) \in Nat
  <2>1. Offset(m) \in 0 .. Modulus - 1
    BY <1>3, SeqnIs DEF Before, TypeOK
  <2>2. QED
    BY <1>1, <2>1
<1>7. order_head_adv = 0
  BY <1>2 DEF Before, FillInv
<1>8. Due = first
  BY <1>1, <1>7 DEF Due
<1>9. m \notin Kept \cup rejected \cup lost
  BY DEF Before, OnceInv
<1>10. QED
  BY <1>2, <1>3, <1>5, <1>6, <1>7, <1>8, <1>9 DEF InHand

\* A packet moves out of the pipeline: to the window, to insert's hand, or to the refused.
LEMMA FromPipeline ==
  ASSUME OnceInv, NEW m \in pipeline, pipeline' = pipeline \ {m}, UNCHANGED numbered,
         \/ Kept' = Kept \cup {m} /\ InHand' = InHand /\ rejected' = rejected
         \/ Kept' = Kept /\ InHand' = InHand \cup {m} /\ rejected' = rejected
         \/ Kept' = Kept /\ InHand' = InHand /\ rejected' = rejected \cup {m},
         UNCHANGED lost
  PROVE  OnceInv'
<1> DEFINE A == 0 .. numbered - 1
<1>1. /\ A = pipeline \cup InHand \cup Kept \cup rejected \cup lost
      /\ pipeline \cap (InHand \cup Kept \cup rejected \cup lost) = {}
      /\ InHand \cap (Kept \cup rejected \cup lost) = {}
      /\ Kept \cap (rejected \cup lost) = {} /\ rejected \cap lost = {}
  BY DEF OnceInv
<1>2. A' = A
  OBVIOUS
<1>3. OnceInv'  <=>
        /\ A' = pipeline' \cup InHand' \cup Kept' \cup rejected' \cup lost'
        /\ pipeline' \cap (InHand' \cup Kept' \cup rejected' \cup lost') = {}
        /\ InHand' \cap (Kept' \cup rejected' \cup lost') = {}
        /\ Kept' \cap (rejected' \cup lost') = {} /\ rejected' \cap lost' = {}
  BY DEF OnceInv
<1> HIDE DEF A
<1>4. CASE Kept' = Kept \cup {m} /\ InHand' = InHand /\ rejected' = rejected
  BY <1>1, <1>2, <1>3, <1>4
<1>5. CASE Kept' = Kept /\ InHand' = InHand \cup {m} /\ rejected' = rejected
  BY <1>1, <1>2, <1>3, <1>5
<1>6. CASE Kept' = Kept /\ InHand' = InHand /\ rejected' = rejected \cup {m}
  BY <1>1, <1>2, <1>3, <1>6
<1>7. QED
  BY <1>4, <1>5, <1>6

\* A packet that fits goes to its entry.
LEMMA InWindowPlaces ==
  ASSUME Before, NEW m \in pipeline, InsertInWindow(m), ~outrun'
  PROVE  PlaceInv' /\ OnceInv'
<1>1. /\ NextMbuf(m) /\ Offset(m) < Size
      /\ order' = [order EXCEPT ![Masked(order_head + Offset(m))] = m]
      /\ UNCHANGED <<numbered, pc, mbuf, order_head_adv, needed, order_head, min_seqn,
                     readyVars, drained, rejected, lost, first>>
  BY DEF InsertInWindow, fillVars, histVars
<1>2. /\ m \in Nat /\ m < numbered /\ Offset(m) \in Nat
      /\ Offset(m) < 2 * Size => m = first + Offset(m)
      /\ mbuf = None /\ InHand = {} /\ order_head_adv = 0 /\ Due = first /\ first <= numbered
      /\ pc = "exec" /\ pipeline' = pipeline \ {m}
      /\ m \notin Kept \cup rejected \cup lost
  BY <1>1, NextMbufPlaces
<1>3. /\ Size \in Nat \ {0} /\ numbered \in Nat /\ pipeline \subseteq Nat
      /\ \A k \in Position : OrderAt(k) \in Nat \cup {None}
  BY PlacesTyped DEF Before
<1>4. Offset(m) \in Position /\ m = Due + Offset(m)
  BY <1>1, <1>2, <1>3 DEF Position
<1>5. \A k \in Position : OrderAt(k)' = IF k = Offset(m) THEN m ELSE OrderAt(k)
  <2> DEFINE at == Offset(m)
  <2>1. at \in Position /\ order' = [order EXCEPT ![Masked(order_head + at)] = m]
        /\ UNCHANGED order_head
    BY <1>1, <1>4
  <2> HIDE DEF at
  <2>2. \A k \in Position : OrderAt(k)' = IF k = at THEN m ELSE OrderAt(k)
    BY <1>2, <2>1, WriteKeeps DEF Before
  <2>3. QED
    BY <2>2 DEF at
<1>6. m \notin OrderSet /\ Due' = Due
  BY <1>1, <1>2 DEF Kept, Due
<1>7. Exact' /\ OrderSet' = OrderSet \cup {m}
  <2> DEFINE at == Offset(m)
  <2>1. at \in Position /\ m = Due + at
        /\ \A k \in Position : OrderAt(k)' = IF k = at THEN m ELSE OrderAt(k)
    BY <1>4, <1>5
  <2> HIDE DEF at
  <2>2. TypeOK /\ Exact /\ UNCHANGED numbered
    BY <1>1 DEF Before, PlaceInv
  <2>3. QED
    BY <1>2, <1>6, <2>1, <2>2, Written
<1>8. Out' = Out /\ OutSet' = OutSet
  BY <1>1, PlacesStay
<1>9. Ascending'
  BY <1>6, <1>8 DEF Before, PlaceInv, Ascending
<1>10. PlaceInv'
  BY <1>1, <1>2, <1>7, <1>9 DEF Before, PlaceInv
<1>11. Kept' = Kept \cup {m} /\ InHand' = InHand
  BY <1>1, <1>7, <1>8 DEF Kept, InHand
<1>12. OnceInv'
  BY <1>1, <1>2, <1>11, FromPipeline DEF Before
<1>13. QED
  BY <1>10, <1>12

\* For a packet just outside the window, insert sets out to move it.
LEMMA OverflowPlaces ==
  ASSUME Before, NEW m \in pipeline, InsertOverflow(m), ~outrun'
  PROVE  PlaceInv' /\ OnceInv'
<1>1. /\ NextMbuf(m) /\ Offset(m) < 2 * Size /\ mbuf' = m /\ order_head_adv' = 0
      /\ pc' = "outer"
      /\ UNCHANGED <<numbered, order, order_head, min_seqn, readyVars, drained, rejected, lost,
                     first>>
  BY DEF InsertOverflow, orderVars, histVars
<1>2. /\ m \in Nat /\ m < numbered
      /\ Offset(m) < 2 * Size => m = first + Offset(m)
      /\ mbuf = None /\ InHand = {} /\ order_head_adv = 0
      /\ pc = "exec" /\ pipeline' = pipeline \ {m}
  BY <1>1, NextMbufPlaces
<1>3. /\ numbered \in Nat /\ None \notin Nat
      /\ \A k \in Position : OrderAt(k) \in Nat \cup {None}
  BY PlacesTyped DEF Before
<1>4. Exact' /\ Ascending' /\ Kept' = Kept
  BY <1>1, <1>2, <1>3, KeptStays DEF Before, Due
<1>5. Offset(mbuf)' = Offset(m)
  BY <1>1 DEF Offset
<1>6. PlaceInv'
  BY <1>1, <1>2, <1>4, <1>5 DEF Before, PlaceInv
<1>7. InHand' = InHand \cup {m}
  BY <1>1, <1>2, <1>3 DEF InHand
<1>8. OnceInv'
  BY <1>1, <1>2, <1>4, <1>7, FromPipeline DEF Before
<1>9. QED
  BY <1>6, <1>8

\* A packet further out is refused.
LEMMA OutOfRangePlaces ==
  ASSUME Before, NEW m \in pipeline, InsertOutOfRange(m), ~outrun'
  PROVE  PlaceInv' /\ OnceInv'
<1>1. /\ NextMbuf(m) /\ rejected' = rejected \cup {m}
      /\ UNCHANGED <<numbered, pc, mbuf, order_head_adv, order, order_head, min_seqn, readyVars,
                     drained, lost, first>>
  BY DEF InsertOutOfRange, orderVars, fillVars
<1>2. pc = "exec" /\ pipeline' = pipeline \ {m}
  BY <1>1, NextMbufPlaces
<1>3. numbered \in Nat /\ \A k \in Position : OrderAt(k) \in Nat \cup {None}
  BY PlacesTyped DEF Before
<1>4. Exact' /\ Ascending' /\ Kept' = Kept
  BY <1>1, <1>3, KeptStays DEF Before, Due
<1>5. PlaceInv'
  BY <1>1, <1>2, <1>4 DEF Before, PlaceInv
<1>6. InHand' = InHand
  BY <1>1 DEF InHand
<1>7. OnceInv'
  BY <1>1, <1>2, <1>4, <1>6, FromPipeline DEF Before
<1>8. QED
  BY <1>5, <1>7

\* The packet in insert's hand goes to the window or to the refused.
LEMMA FromHand ==
  ASSUME OnceInv, InHand' = {}, UNCHANGED <<numbered, pipeline, lost>>,
         \/ Kept' = Kept \cup InHand /\ rejected' = rejected
         \/ Kept' = Kept /\ rejected' = rejected \cup InHand
  PROVE  OnceInv'
<1> DEFINE A == 0 .. numbered - 1
<1>1. /\ A = pipeline \cup InHand \cup Kept \cup rejected \cup lost
      /\ pipeline \cap (InHand \cup Kept \cup rejected \cup lost) = {}
      /\ InHand \cap (Kept \cup rejected \cup lost) = {}
      /\ Kept \cap (rejected \cup lost) = {} /\ rejected \cap lost = {}
  BY DEF OnceInv
<1>2. A' = A
  OBVIOUS
<1>3. OnceInv'  <=>
        /\ A' = pipeline' \cup InHand' \cup Kept' \cup rejected' \cup lost'
        /\ pipeline' \cap (InHand' \cup Kept' \cup rejected' \cup lost') = {}
        /\ InHand' \cap (Kept' \cup rejected' \cup lost') = {}
        /\ Kept' \cap (rejected' \cup lost') = {} /\ rejected' \cap lost' = {}
  BY DEF OnceInv
<1> HIDE DEF A
<1>4. CASE Kept' = Kept \cup InHand /\ rejected' = rejected
  BY <1>1, <1>2, <1>3, <1>4
<1>5. CASE Kept' = Kept /\ rejected' = rejected \cup InHand
  BY <1>1, <1>2, <1>3, <1>5
<1>6. QED
  BY <1>4, <1>5

\* The head steps over the first entry.
LEMMA SteppedOver ==
  ASSUME Before, Advance, UNCHANGED <<numbered, first>>, order'[order_head] = None,
         \A p \in Position \ {order_head} : order'[p] = order[p]
  PROVE  /\ Exact' /\ Due' = Due + 1
         /\ OrderSet = OrderSet' \cup ({order[order_head]} \ {None})
         /\ order[order_head] \notin OrderSet'
         /\ order[order_head] # None => order[order_head] = Due
<1>1. /\ order_head \in Position /\ order_head_adv \in Nat /\ first \in Nat
      /\ order_head' = Masked(order_head + 1) /\ order_head_adv' = order_head_adv + 1
  BY DEF Before, TypeOK, Advance
<1>2. Due' = Due + 1 /\ Due \in Nat
  BY <1>1 DEF Due
<1>3. 1 \in 0 .. Size /\ 0 \in Position /\ OrderAt(0) = order[order_head]
  <2>1. 0 \in Position /\ Masked(order_head + 0) = order_head
    BY <1>1, MaskedIs, SizeIs DEF Position
  <2>2. QED
    BY <2>1, SizeIs DEF OrderAt
<1>4. \A k \in Position : OrderAt(k)' = IF 1 + k < Size THEN OrderAt(1 + k) ELSE None
  <2>1. \A k \in Position : OrderAt(k)' = IF k + 1 < Size THEN OrderAt(k + 1) ELSE None
    BY <1>1, AdvancedAt DEF Before
  <2>2. \A k \in Position : k + 1 = 1 + k
    BY SizeIs DEF Position
  <2>3. QED
    BY <2>1, <2>2
<1> DEFINE o == 1
           Over == {OrderAt(k) : k \in 0 .. o - 1}
<1>5. /\ o \in 0 .. Size /\ Due' = Due + o
      /\ \A k \in Position : OrderAt(k)' = IF o + k < Size THEN OrderAt(o + k) ELSE None
  BY <1>2, <1>3, <1>4
<1> HIDE DEF o
<1>6. Exact' /\ OrderSet = OrderSet' \cup (Over \ {None}) /\ OrderSet' \cap Over = {}
  BY <1>5, HeadMoved DEF Before, PlaceInv
<1>7. Over = {order[order_head]}
  <2>1. 0 .. o - 1 = {0}
    BY DEF o
  <2>2. Over = {OrderAt(0)}
    BY <2>1
  <2>3. QED
    BY <1>3, <2>2
<1>8. order[order_head] # None => order[order_head] = Due
  BY <1>2, <1>3 DEF Before, PlaceInv, Exact
<1> HIDE DEF Over
<1>9. QED
  BY <1>2, <1>6, <1>7, <1>8

\* A turn of the outer loop may skip a missing packet.
LEMMA FillOuterPlaces ==
  ASSUME Before, FillOuter
  PROVE  PlaceInv' /\ OnceInv'
<1>1. /\ pc = "outer" /\ pc' = "inner"
      /\ UNCHANGED <<numbered, pipeline, mbuf, order, min_seqn, drained, readyVars, rejected,
                     lost, first>>
  BY DEF FillOuter, srcVars, histVars, turnVars
<1>2. CASE order[order_head] # None
  <2>1. UNCHANGED <<order_head, order_head_adv>>
    BY <1>2 DEF FillOuter
  <2>2. QED
    BY <1>1, <2>1, NothingPlaced
<1>3. CASE order[order_head] = None
  <2>1. Advance
    BY <1>3 DEF FillOuter
  <2>2. /\ Exact' /\ Due' = Due + 1 /\ OrderSet' = OrderSet
    <3>1. /\ Exact' /\ Due' = Due + 1
          /\ OrderSet = OrderSet' \cup ({order[order_head]} \ {None})
      BY <1>1, <1>3, <2>1, SteppedOver
    <3>2. QED
      BY <1>3, <3>1
  <2>3. Out' = Out /\ OutSet' = OutSet
    BY <1>1, PlacesStay
  <2>4. Ascending'
    <3>1. \A i \in 1 .. Len(Out) : Out[i] \in Nat /\ Out[i] < Due
      BY OutIs, ElementOfSeq DEF Before, PlaceInv, Ascending
    <3>2. Due \in Nat
      BY PlacesTyped DEF Before
    <3>3. \A i \in 1 .. Len(Out) : Out[i] < Due + 1
      BY <3>1, <3>2
    <3>4. QED
      BY <2>2, <2>3, <3>3 DEF Before, PlaceInv, Ascending
  <2>5. Kept' = Kept /\ InHand' = InHand /\ Offset(mbuf)' = Offset(mbuf)
    BY <1>1, <2>2, <2>3 DEF Kept, InHand, Offset
  <2>6. PlaceInv'
    BY <1>1, <2>2, <2>4, <2>5 DEF Before, PlaceInv
  <2>7. OnceInv'
    BY <1>1, <2>5 DEF Before, OnceInv
  <2>8. QED
    BY <2>6, <2>7
<1>4. QED
  BY <1>2, <1>3

\* A turn of the inner loop moves the packet that is due out of the window, or loses it.
LEMMA FillMovePlaces ==
  ASSUME Before, FillMove
  PROVE  PlaceInv' /\ OnceInv'
<1> DEFINE e == order[order_head]
<1>1. /\ pc = "inner" /\ pc' \in {"inner", "outer"} /\ e # None /\ e \in Nat
      /\ order' = [order EXCEPT ![order_head] = None] /\ Advance
      /\ order_head \in Position /\ order \in [Position -> Nat \cup {None}]
      /\ UNCHANGED <<numbered, pipeline, mbuf, min_seqn, drained, rejected, first>>
      /\ lost' = IF ReadyFull THEN lost \cup {e} ELSE lost
  BY DEF Before, TypeOK, FillMove, srcVars, turnVars
<1>2. /\ Exact' /\ Due' = Due + 1 /\ e = Due /\ Due \in Nat
      /\ OrderSet = OrderSet' \cup {e} /\ e \notin OrderSet'
  <2>1. order'[order_head] = None /\ \A p \in Position \ {order_head} : order'[p] = order[p]
    BY <1>1
  <2>2. /\ Exact' /\ Due' = Due + 1 /\ (e # None => e = Due)
        /\ OrderSet = OrderSet' \cup ({e} \ {None}) /\ e \notin OrderSet'
    BY <1>1, <2>1, SteppedOver
  <2> HIDE DEF e
  <2>3. {e} \ {None} = {e}
    BY <1>1
  <2>4. Due \in Nat
    BY PlacesTyped DEF Before
  <2>5. QED
    BY <1>1, <2>2, <2>3, <2>4
<1>3. Out' = IF ReadyFull THEN Out ELSE Out \o <<e>>
  BY OutGrows DEF Before
<1>4. Out \in Seq(Nat) /\ Ascending /\ \A i \in 1 .. Len(Out) : Out[i] \in Nat
  BY OutIs, ElementOfSeq DEF Before, PlaceInv
<1>5. InHand' = InHand /\ Offset(mbuf)' = Offset(mbuf)
  BY <1>1 DEF InHand, Offset
<1> HIDE DEF e
<1>6. e \notin OutSet
  BY <1>2, <1>4 DEF Ascending, OutSet
<1>7. Ascending' /\ OutSet' = IF ReadyFull THEN OutSet ELSE OutSet \cup {e}
  <2>1. CASE ReadyFull
    <3>1. \A i \in 1 .. Len(Out) : Out[i] < Due + 1
      BY <1>2, <1>4 DEF Ascending
    <3>2. Out' = Out
      BY <1>3, <2>1
    <3>3. QED
      BY <1>2, <1>4, <2>1, <3>1, <3>2 DEF Ascending, OutSet
  <2>2. CASE ~ReadyFull
    <3> DEFINE t == <<e>>
               u == Out \o t
    <3>1. t \in Seq(Nat) /\ Len(t) = 1 /\ \A j \in 1 .. Len(t) : t[j] = Due + (j - 1)
      BY <1>1, <1>2
    <3>2. {t[j] : j \in 1 .. Len(t)} = {e}
      <4>1. 1 .. Len(t) = {1} /\ t[1] = e
        BY <3>1
      <4> HIDE DEF t
      <4>2. QED
        BY <4>1
    <3> HIDE DEF t
    <3>3. /\ \A i, j \in 1 .. Len(u) : i < j => u[i] < u[j]
          /\ \A i \in 1 .. Len(u) : u[i] < Due + Len(t)
          /\ {u[i] : i \in 1 .. Len(u)}
               = {Out[i] : i \in 1 .. Len(Out)} \cup {t[j] : j \in 1 .. Len(t)}
      BY <1>2, <1>4, <3>1, AscendingGrows DEF Ascending
    <3>4. Out' = u
      BY <1>3, <2>2 DEF t
    <3> HIDE DEF u
    <3>5. Ascending'
      BY <1>2, <3>1, <3>3, <3>4 DEF Ascending
    <3>6. OutSet' = OutSet \cup {e}
      BY <3>2, <3>3, <3>4 DEF OutSet
    <3>7. QED
      BY <2>2, <3>5, <3>6
  <2>3. QED
    BY <2>1, <2>2
<1>8. PlaceInv'
  BY <1>1, <1>2, <1>5, <1>7 DEF Before, PlaceInv
<1>9. CASE ReadyFull
  <2>1. Kept = Kept' \cup {e} /\ e \notin Kept' /\ lost' = lost \cup {e}
    BY <1>1, <1>2, <1>6, <1>7, <1>9 DEF Kept
  <2>2. OnceInv'
    BY <1>1, <1>5, <2>1 DEF Before, OnceInv
  <2>3. QED
    BY <1>8, <2>2
<1>10. CASE ~ReadyFull
  <2>1. Kept' = Kept /\ lost' = lost
    BY <1>1, <1>2, <1>7, <1>10 DEF Kept
  <2>2. OnceInv'
    BY <1>1, <1>5, <2>1 DEF Before, OnceInv
  <2>3. QED
    BY <1>8, <2>2
<1>11. QED
  BY <1>9, <1>10

\* The overflow done, the packet in insert's hand fits, or ready_buf is full and it is
\* refused.
LEMMA FillReturnsPlaces ==
  ASSUME Before, FillReturns
  PROVE  PlaceInv' /\ OnceInv'
<1>1. /\ pc = "outer" /\ pc' = "exec" /\ first' = first + order_head_adv
      /\ mbuf' = None /\ order_head_adv' = 0
      /\ UNCHANGED <<numbered, pipeline, order_head, readyVars, drained, lost>>
  BY DEF FillReturns, srcVars
<1>2. /\ first \in Nat /\ order_head_adv \in Nat /\ numbered \in Nat /\ Due \in Nat
      /\ Size \in Nat \ {0} /\ None \notin Nat
      /\ \A k \in Position : OrderAt(k) \in Nat \cup {None}
  BY PlacesTyped DEF Before
<1>3. /\ mbuf \in Nat /\ order_head_adv <= Offset(mbuf) /\ Offset(mbuf) < 2 * Size
      /\ needed = (Offset(mbuf) + 1) - Size /\ Size <= Offset(mbuf)
      /\ mbuf = first + Offset(mbuf) /\ mbuf < numbered
  BY <1>1 DEF Before, FillInv, PlaceInv
<1>4. Offset(mbuf) \in Nat
  <2>1. Offset(mbuf) \in 0 .. Modulus - 1
    BY <1>3, SeqnIs DEF Before, TypeOK
  <2>2. QED
    BY <2>1, SizeIs
<1>5. Due' = Due
  BY <1>1, <1>2 DEF Due
<1>6. first' <= numbered'
  <2> DEFINE d == Offset(mbuf)
  <2>1. d \in Nat /\ order_head_adv <= d /\ mbuf = first + d
    BY <1>3, <1>4
  <2> HIDE DEF d
  <2>2. QED
    BY <1>1, <1>2, <1>3, <2>1
<1>7. InHand = {mbuf} /\ InHand' = {}
  BY <1>1, <1>2, <1>3 DEF InHand
<1>8. Out' = Out /\ OutSet' = OutSet
  BY <1>1, PlacesStay
<1>9. CASE order_head_adv < needed
  <2>1. rejected' = rejected \cup {mbuf} /\ order' = order
    BY <1>9 DEF FillReturns
  <2>2. Exact' /\ Ascending' /\ Kept' = Kept
    BY <1>1, <1>2, <1>5, <2>1, KeptStays DEF Before
  <2>3. PlaceInv'
    BY <1>1, <1>6, <2>2 DEF Before, PlaceInv
  <2>4. OnceInv'
    BY <1>1, <1>7, <2>1, <2>2, FromHand DEF Before
  <2>5. QED
    BY <2>3, <2>4
<1>10. CASE ~(order_head_adv < needed)
  <2> DEFINE at == Offset(mbuf) - order_head_adv
  <2>1. /\ order' = [order EXCEPT ![Masked(order_head + Offset(mbuf) - order_head_adv)] = mbuf]
        /\ rejected' = rejected
    BY <1>10 DEF FillReturns
  <2>2. order_head + Offset(mbuf) - order_head_adv = order_head + at /\ order_head \in Position
    <3>1. order_head \in Position /\ order_head \in Nat
      BY SizeIs DEF Before, TypeOK, Position
    <3>2. QED
      BY <1>2, <1>4, <3>1
  <2>3. at \in Position /\ mbuf = Due + at
    <3>1. at \in 0 .. Size - 1
      BY <1>2, <1>3, <1>4, <1>10
    <3>2. mbuf = (first + order_head_adv) + at
      BY <1>2, <1>3, <1>4
    <3>3. QED
      BY <3>1, <3>2 DEF Position, Due
  <2>4. mbuf \notin OrderSet
    <3>1. mbuf \in InHand /\ InHand \cap Kept = {}
      BY <1>7 DEF Before, OnceInv
    <3>2. QED
      BY <3>1 DEF Kept
  <2>5. order' = [order EXCEPT ![Masked(order_head + at)] = mbuf]
    BY <2>1, <2>2
  <2> HIDE DEF at
  <2>6. \A k \in Position : OrderAt(k)' = IF k = at THEN mbuf ELSE OrderAt(k)
    BY <1>1, <1>3, <2>3, <2>5, WriteKeeps DEF Before
  <2>7. Exact' /\ OrderSet' = OrderSet \cup {mbuf}
    <3>1. TypeOK /\ Exact /\ UNCHANGED numbered
      BY <1>1 DEF Before, PlaceInv
    <3>2. QED
      BY <1>3, <1>5, <2>3, <2>4, <2>6, <3>1, Written
  <2>8. Ascending'
    BY <1>5, <1>8 DEF Before, PlaceInv, Ascending
  <2>9. PlaceInv'
    BY <1>1, <1>6, <2>7, <2>8 DEF Before, PlaceInv
  <2>10. Kept' = Kept \cup InHand
    BY <1>7, <1>8, <2>7 DEF Kept
  <2>11. OnceInv'
    BY <1>1, <1>7, <2>1, <2>10, FromHand DEF Before
  <2>12. QED
    BY <2>9, <2>11
<1>11. QED
  BY <1>9, <1>10

\* A drain gives back what was to be given back next.
LEMMA DrainPlaces ==
  ASSUME Before, Drain
  PROVE  PlaceInv' /\ OnceInv'
<1> DEFINE n == DrainMax - Lesser(DrainMax, ReadyCount)
           o == RunLength(n)
           t == Run(n)
           u == Out \o t
           Over == {OrderAt(k) : k \in 0 .. o - 1}
<1>1. /\ pc = "exec" /\ pc' = "idle" /\ first' = first + o
      /\ order' = Cleared(order, order_head, o) /\ order_head' = Masked(order_head + o)
      /\ UNCHANGED <<numbered, pipeline, mbuf, order_head_adv, rejected, lost>>
  BY DEF Drain, srcVars, fillVars
<1>2. /\ first \in Nat /\ order_head_adv \in Nat /\ numbered \in Nat /\ Due \in Nat
      /\ Size \in Nat \ {0}
  BY PlacesTyped DEF Before
<1>3. n \in Nat
  BY DrainLeft DEF Before
<1>4. /\ o \in 0 .. Size /\ \A i \in 0 .. o - 1 : OrderAt(i) # None
  BY <1>3, RunIs
<1>5. /\ t \in Seq(Nat) /\ Len(t) = o /\ \A k \in 1 .. o : t[k] = OrderAt(k - 1)
  <2> HIDE DEF n
  <2>1. QED
    BY <1>3, RunTyped DEF Before
<1>6. Out' = u
  BY OutDrains DEF Before
<1> HIDE DEF n, o, t, u
<1>7. Due' = Due + o
  BY <1>1, <1>2, <1>4 DEF Due
<1>8. \A k \in Position : OrderAt(k)' = IF o + k < Size THEN OrderAt(o + k) ELSE None
  BY <1>1, <1>4, DrainedAt DEF Before
<1>9. Exact' /\ OrderSet = OrderSet' \cup (Over \ {None}) /\ OrderSet' \cap Over = {}
  BY <1>1, <1>4, <1>7, <1>8, HeadMoved DEF Before, PlaceInv
<1>10. ASSUME NEW k \in 0 .. o - 1 PROVE OrderAt(k) = Due + k /\ OrderAt(k) < numbered
  <2>1. k \in Position
    BY <1>2, <1>4 DEF Position
  <2>2. QED
    BY <1>4, <2>1 DEF Before, PlaceInv, Exact
<1>11. \A j \in 1 .. Len(t) : t[j] = Due + (j - 1)
  <2>1. ASSUME NEW j \in 1 .. o PROVE t[j] = Due + (j - 1)
    <3>1. j - 1 \in 0 .. o - 1
      BY <1>4
    <3>2. QED
      BY <1>5, <1>10, <3>1
  <2>2. QED
    BY <1>5, <2>1
<1>12. /\ \A i, j \in 1 .. Len(u) : i < j => u[i] < u[j]
       /\ \A i \in 1 .. Len(u) : u[i] < Due + Len(t)
       /\ {u[i] : i \in 1 .. Len(u)}
            = {Out[i] : i \in 1 .. Len(Out)} \cup {t[j] : j \in 1 .. Len(t)}
  <2>1. /\ Out \in Seq(Nat)
        /\ \A i, j \in 1 .. Len(Out) : i < j => Out[i] < Out[j]
        /\ \A i \in 1 .. Len(Out) : Out[i] < Due
    BY OutIs DEF Before, PlaceInv, Ascending
  <2> DEFINE q == Out
             b == Due
  <2>2. /\ q \in Seq(Nat) /\ b \in Nat /\ t \in Seq(Nat)
        /\ \A i, j \in 1 .. Len(q) : i < j => q[i] < q[j]
        /\ \A i \in 1 .. Len(q) : q[i] < b
        /\ \A j \in 1 .. Len(t) : t[j] = b + (j - 1)
    BY <1>2, <1>5, <1>11, <2>1, Zenon
  <2> HIDE DEF q, b
  <2>3. /\ \A i, j \in 1 .. Len(q \o t) : i < j => (q \o t)[i] < (q \o t)[j]
        /\ \A i \in 1 .. Len(q \o t) : (q \o t)[i] < b + Len(t)
        /\ {(q \o t)[i] : i \in 1 .. Len(q \o t)}
             = {q[i] : i \in 1 .. Len(q)} \cup {t[j] : j \in 1 .. Len(t)}
    BY ONLY <2>2, AscendingGrows
  <2>4. u = q \o t
    BY Zenon DEF u, q
  <2> HIDE DEF u
  <2>5. QED
    BY <2>3, <2>4, Zenon DEF q, b
<1>13. Ascending'
  BY <1>5, <1>6, <1>7, <1>12 DEF Ascending
<1>14. {t[j] : j \in 1 .. Len(t)} = Over /\ None \notin Over
  <2>1. ASSUME NEW j \in 1 .. o PROVE t[j] \in Over
    <3>1. j - 1 \in 0 .. o - 1
      BY <1>4
    <3>2. QED
      BY <1>5, <3>1
  <2>2. ASSUME NEW k \in 0 .. o - 1 PROVE OrderAt(k) \in {t[j] : j \in 1 .. o}
    <3>1. k + 1 \in 1 .. o /\ (k + 1) - 1 = k
      BY <1>4
    <3>2. t[k + 1] = OrderAt(k)
      BY <1>5, <3>1
    <3>3. QED
      BY <3>1, <3>2
  <2>3. QED
    BY <1>4, <1>5, <2>1, <2>2
<1> HIDE DEF Over
<1>15. Kept' = Kept
  <2>1. OutSet' = OutSet \cup Over
    BY <1>6, <1>12, <1>14 DEF OutSet
  <2>2. OrderSet = OrderSet' \cup Over
    BY <1>9, <1>14
  <2>3. QED
    BY <2>1, <2>2 DEF Kept
<1>16. first' <= numbered' /\ mbuf' = None
  <2>1. first <= numbered /\ mbuf = None
    BY <1>1 DEF Before, PlaceInv
  <2>2. Due = first
    BY <1>1, <1>2 DEF Before, FillInv, Due
  <2>3. CASE o = 0
    BY <1>1, <1>2, <2>1, <2>3
  <2>4. CASE o # 0
    <3>1. o - 1 \in 0 .. o - 1 /\ o \in Nat
      BY <1>2, <1>4, <2>4
    <3>2. Due + (o - 1) < numbered
      BY <1>10, <3>1
    <3>3. QED
      BY <1>1, <1>2, <2>1, <2>2, <3>1, <3>2
  <2>5. QED
    BY <2>3, <2>4
<1>17. PlaceInv'
  BY <1>1, <1>9, <1>13, <1>16 DEF Before, PlaceInv
<1>18. InHand' = InHand
  BY <1>1 DEF InHand
<1>19. OnceInv'
  BY <1>1, <1>15, <1>18 DEF Before, OnceInv
<1>20. QED
  BY <1>17, <1>19

\* Every step keeps the packets in their places, as long as none comes a turn too early.
LEMMA PlacesStep ==
  ASSUME IInv, [Next]_vars, outrun \/ (PlaceInv /\ OnceInv)
  PROVE  outrun' \/ (PlaceInv' /\ OnceInv')
<1> SUFFICES ASSUME ~outrun' PROVE PlaceInv' /\ OnceInv'
  OBVIOUS
<1>1. ~outrun
  <2>1. CASE outrun' = outrun
    BY <2>1
  <2>2. CASE \E m \in pipeline : NextMbuf(m)
    BY <2>2 DEF NextMbuf
  <2>3. outrun' = outrun \/ \E m \in pipeline : NextMbuf(m)
    BY DEF Next, ReorderExec, SeqExec, Call, Insert, InsertInWindow, InsertOverflow,
           InsertOutOfRange, Fill, FillOuter, FillMove, FillRunEnds, FillReturns, Drain, vars,
           turnVars
  <2>4. QED
    BY <2>1, <2>2, <2>3
<1>2. Before
  BY <1>1 DEF Before, IInv
<1>3. CASE SeqExec
  BY <1>2, <1>3, SeqExecPlaces
<1>4. ASSUME NEW n \in 0 .. Lesser(ExecMax, Cardinality(pipeline)), Call(n)
      PROVE  PlaceInv' /\ OnceInv'
  <2>1. /\ pc = "idle" /\ pc' = "exec"
        /\ UNCHANGED <<numbered, pipeline, mbuf, min_seqn, first, order_head_adv, order,
                       order_head, drained, readyVars, rejected, lost>>
    BY <1>4 DEF Call, srcVars, fillVars, orderVars, histVars, turnVars
  <2>2. QED
    BY <1>2, <2>1, NothingPlaced
<1>5. ASSUME NEW m \in pipeline, Insert(m) PROVE PlaceInv' /\ OnceInv'
  BY <1>2, <1>5, InWindowPlaces, OverflowPlaces, OutOfRangePlaces DEF Insert
<1>6. CASE FillOuter
  BY <1>2, <1>6, FillOuterPlaces
<1>7. CASE FillMove
  BY <1>2, <1>7, FillMovePlaces
<1>8. CASE FillRunEnds
  <2>1. /\ pc = "inner" /\ pc' = "outer"
        /\ UNCHANGED <<numbered, pipeline, mbuf, min_seqn, first, order_head_adv, order,
                       order_head, drained, readyVars, rejected, lost>>
    BY <1>8 DEF FillRunEnds, srcVars, fillVars, orderVars, histVars, turnVars
  <2>2. QED
    BY <1>2, <2>1, NothingPlaced
<1>9. CASE FillReturns
  BY <1>2, <1>9, FillReturnsPlaces
<1>10. CASE Drain
  BY <1>2, <1>10, DrainPlaces
<1>11. CASE UNCHANGED vars
  <2>1. UNCHANGED <<pc, numbered, pipeline, mbuf, min_seqn, first, order_head_adv, order,
                    order_head, drained, readyVars, rejected, lost>>
    BY <1>11 DEF vars, srcVars, fillVars, orderVars, histVars, turnVars
  <2>2. QED
    BY <1>2, <2>1, NothingPlaced
<1>12. QED
  BY <1>3, <1>4, <1>5, <1>6, <1>7, <1>8, <1>9, <1>10, <1>11 DEF Next, ReorderExec, Fill

-----------------------------------------------------------------------------
(* What this says of the packets.                                          *)

\* No packet is in a buffer at first.
LEMMA PlacesInit == Init => IInv /\ (outrun \/ (PlaceInv /\ OnceInv))
<1> SUFFICES ASSUME Init PROVE IInv /\ PlaceInv /\ OnceInv
  OBVIOUS
<1>1. IInv
  BY InitInv
<1>2. /\ numbered = 0 /\ pipeline = {} /\ pc = "idle" /\ mbuf = None /\ first = 0
      /\ order = [i \in Position |-> None] /\ order_head = 0 /\ order_head_adv = 0
      /\ ready_head = 0 /\ ready_tail = 0
      /\ drained = <<>> /\ rejected = {} /\ lost = {}
  BY DEF Init
<1>3. \A k \in Position : OrderAt(k) = None
  <2>1. 0 \in Position
    BY SizeIs DEF Position
  <2>2. QED
    BY <1>2, <2>1, OffsetIs DEF OrderAt
<1>4. Len(Out) = 0
  <2>1. ReadyCount = 0
    <3>1. Masked(0 - 0) = 0
      BY MaskedIs, SizeIs
    <3>2. QED
      BY <1>2, <3>1 DEF ReadyCount
  <2>2. ReadyList \in Seq(Nat) /\ Len(ReadyList) = 0
    BY <1>1, <2>1, ReadyListIs DEF IInv
  <2>3. drained \in Seq(Nat) /\ Len(drained) = 0
    BY <1>2
  <2>4. QED
    BY <2>2, <2>3, ConcatProperties DEF Out
<1>5. 1 .. Len(Out) = {}
  BY <1>4
<1>6. OrderSet = {} /\ OutSet = {} /\ InHand = {}
  BY <1>2, <1>3, <1>5 DEF OrderSet, OutSet, InHand
<1>7. PlaceInv
  BY <1>2, <1>3, <1>5 DEF PlaceInv, Exact, Ascending
<1>8. OnceInv
  BY <1>2, <1>6 DEF OnceInv, Kept
<1>9. QED
  BY <1>1, <1>7, <1>8

\* What is given back ascends, and so does what will be.
LEMMA PlacesAscend == IInv /\ (outrun \/ (PlaceInv /\ OnceInv)) => OutputAscends
<1> SUFFICES ASSUME IInv, PlaceInv, ~outrun PROVE OutputAscends
  BY DEF OutputAscends
<1>1. Due \in Nat /\ \A k \in Position : k \in Nat /\ k < Size
  BY PlacesTyped DEF IInv
<1>2. \A i \in 1 .. Len(Out) : Out[i] < Due /\ Out[i] \in Nat
  BY OutIs, ElementOfSeq DEF IInv, PlaceInv, Ascending
<1>3. \A i, j \in 1 .. Len(Out) : i < j => Out[i] < Out[j]
  BY DEF PlaceInv, Ascending
<1>4. ASSUME NEW k \in Position, OrderAt(k) # None
      PROVE  /\ \A i \in 1 .. Len(Out) : Out[i] < OrderAt(k)
             /\ \A j \in 0 .. k - 1 : OrderAt(j) # None => OrderAt(j) < OrderAt(k)
  <2>1. OrderAt(k) = Due + k
    BY <1>4 DEF PlaceInv, Exact
  <2>2. \A i \in 1 .. Len(Out) : Out[i] < OrderAt(k)
    BY <1>1, <1>2, <2>1
  <2>3. ASSUME NEW j \in 0 .. k - 1, OrderAt(j) # None PROVE OrderAt(j) < OrderAt(k)
    <3>1. j \in Position /\ j < k /\ j \in Nat
      BY SizeIs DEF Position
    <3>2. OrderAt(j) = Due + j
      BY <2>3, <3>1 DEF PlaceInv, Exact
    <3>3. QED
      BY <1>1, <2>1, <3>1, <3>2
  <2>4. QED
    BY <2>2, <2>3
<1>5. QED
  BY <1>3, <1>4 DEF OutputAscends, Out

\* How many are in a set with one element, or none.
LEMMA AtMostOne ==
  /\ Cardinality({}) = 0
  /\ \A S : \A x : S = {x} => Cardinality(S) = 1
BY FS_EmptySet, FS_Singleton

\* A packet has at most one entry in the window.
LEMMA OrderedOnce ==
  ASSUME TypeOK, Exact, NEW m \in Nat
  PROVE  Cardinality({p \in Position : order[p] = m}) = IF m \in OrderSet THEN 1 ELSE 0
<1> DEFINE S == {p \in Position : order[p] = m}
<1>1. order_head \in Position /\ Due \in Nat /\ m # None
      /\ \A k \in Position : k \in Nat
  BY PlacesTyped DEF TypeOK
<1>2. ASSUME NEW p \in S
      PROVE  /\ p = Masked(order_head + (m - Due)) /\ m \in OrderSet
  <2> DEFINE k == Masked(p - order_head)
  <2>1. k \in Position /\ Masked(order_head + k) = p
    BY <1>1, PositionIs
  <2> HIDE DEF k
  <2>2. OrderAt(k) = m
    BY <2>1 DEF OrderAt
  <2>3. m = Due + k
    BY <1>1, <2>1, <2>2 DEF Exact
  <2>4. k = m - Due
    BY <1>1, <2>1, <2>3
  <2>5. QED
    BY <1>1, <2>1, <2>2, <2>4 DEF OrderSet
<1>3. m \in OrderSet => S # {}
  <2> SUFFICES ASSUME m \in OrderSet PROVE S # {}
    OBVIOUS
  <2>1. PICK k \in Position : m = OrderAt(k)
    BY DEF OrderSet
  <2>2. Masked(order_head + k) \in S
    BY <1>1, <2>1, OffsetIs DEF OrderAt
  <2>3. QED
    BY <2>2
<1> HIDE DEF S
<1>4. CASE m \in OrderSet
  <2>1. S = {Masked(order_head + (m - Due))}
    BY <1>2, <1>3, <1>4
  <2>2. QED
    BY <1>4, <2>1, AtMostOne DEF S
<1>5. CASE m \notin OrderSet
  <2>1. S = {}
    BY <1>2, <1>5
  <2>2. QED
    BY <1>5, <2>1, AtMostOne DEF S
<1>6. QED
  BY <1>4, <1>5

\* It has been given back at most once; if so it does not wait to be given back.
LEMMA OutOnce ==
  ASSUME TypeOK, ReadyInv, Ascending, NEW m \in Nat
  PROVE  Cardinality({k \in 1 .. ReadyCount : ReadyList[k] = m})
           + Cardinality({i \in DOMAIN drained : drained[i] = m})
           = IF m \in OutSet THEN 1 ELSE 0
<1> DEFINE n == Len(drained)
           c == ReadyCount
           R == {k \in 1 .. ReadyCount : ReadyList[k] = m}
           D == {i \in DOMAIN drained : drained[i] = m}
<1>1. /\ drained \in Seq(Nat) /\ ReadyList \in Seq(Nat) /\ Len(ReadyList) = c
      /\ c \in Nat /\ n \in Nat /\ DOMAIN drained = 1 .. n
  BY ReadyListIs, LenProperties DEF TypeOK
<1>2. /\ Len(Out) = n + c
      /\ \A i \in 1 .. n + c : Out[i] = IF i <= n THEN drained[i] ELSE ReadyList[i - n]
  BY <1>1, ConcatProperties DEF Out
<1>3. ASSUME NEW i \in 1 .. n + c, NEW j \in 1 .. n + c, Out[i] = Out[j] PROVE i = j
  <2>1. \A a \in 1 .. n + c : Out[a] \in Nat
    BY <1>2, OutIs, ElementOfSeq
  <2>2. ~(i < j) /\ ~(j < i)
    <3>1. Out[i] \in Nat /\ Out[j] \in Nat
      BY <2>1
    <3>2. /\ i < j => Out[i] < Out[j]
          /\ j < i => Out[j] < Out[i]
      BY <1>2 DEF Ascending
    <3>3. QED
      BY <1>3, <3>1, <3>2
  <2>3. i \in Int /\ j \in Int
    BY <1>1
  <2>4. QED
    BY <2>2, <2>3
<1> HIDE DEF n, c
<1>4. ASSUME NEW i \in D PROVE i \in 1 .. n + c /\ i <= n /\ Out[i] = m
  BY <1>1, <1>2
<1>5. ASSUME NEW k \in R PROVE n + k \in 1 .. n + c /\ ~(n + k <= n) /\ Out[n + k] = m
  <2>1. k \in 1 .. c /\ ReadyList[k] = m
    BY DEF c
  <2>2. n + k \in 1 .. n + c /\ ~(n + k <= n) /\ (n + k) - n = k
    BY <1>1, <2>1
  <2>3. QED
    BY <1>2, <2>1, <2>2
<1>6. R \subseteq Int
  BY <1>1 DEF c
<1>7. CASE m \notin OutSet
  <2>1. \A i \in 1 .. n + c : Out[i] # m
    BY <1>2, <1>7 DEF OutSet
  <2>2. R = {} /\ D = {}
    BY <1>4, <1>5, <2>1
  <2> HIDE DEF R, D
  <2>3. Cardinality(R) = 0 /\ Cardinality(D) = 0
    BY <2>2, AtMostOne
  <2>4. QED
    BY <1>7, <2>3 DEF R, D
<1>8. CASE m \in OutSet
  <2>1. PICK a \in 1 .. n + c : Out[a] = m
    BY <1>2, <1>8 DEF OutSet
  <2>2. CASE a <= n
    <3>1. a \in D
      BY <1>1, <1>2, <2>1, <2>2
    <3>2. \A i \in D : i = a
      BY <1>3, <1>4, <2>1
    <3>3. R = {}
      <4>1. ASSUME NEW k \in R PROVE FALSE
        <5>1. n + k = a /\ ~(n + k <= n)
          BY <1>3, <1>5, <2>1
        <5>2. QED
          BY <2>2, <5>1
      <4>2. QED
        BY <4>1
    <3> HIDE DEF R, D
    <3>4. D = {a}
      BY <3>1, <3>2
    <3>5. Cardinality(R) = 0 /\ Cardinality(D) = 1
      BY <3>3, <3>4, AtMostOne
    <3>6. QED
      BY <1>8, <3>5 DEF R, D
  <2>3. CASE ~(a <= n)
    <3>1. a - n \in R
      <4>1. a - n \in 1 .. c /\ ReadyList[a - n] = m
        BY <1>1, <1>2, <2>1, <2>3
      <4>2. QED
        BY <4>1 DEF c
    <3>2. ASSUME NEW k \in R PROVE k = a - n
      <4>1. n + k = a /\ k \in Int
        BY <1>3, <1>5, <1>6, <2>1
      <4>2. QED
        BY <1>1, <4>1
    <3>3. D = {}
      <4>1. ASSUME NEW i \in D PROVE FALSE
        <5>1. i = a /\ i <= n
          BY <1>3, <1>4, <2>1
        <5>2. QED
          BY <2>3, <5>1
      <4>2. QED
        BY <4>1
    <3> HIDE DEF R, D
    <3>4. R = {a - n}
      BY <3>1, <3>2
    <3>5. Cardinality(R) = 1 /\ Cardinality(D) = 0
      BY <3>3, <3>4, AtMostOne
    <3>6. QED
      BY <1>8, <3>5 DEF R, D
  <2>4. QED
    BY <2>2, <2>3
<1>9. QED
  BY <1>7, <1>8

\* Where a packet is that is in no buffer and has not been given back.
LEMMA ElsewhereOnce ==
  ASSUME OnceInv, NEW m \in 0 .. numbered - 1, m # None
  PROVE  Cardinality({c \in {"pipeline", "mbuf", "rejected", "lost"} :
                        \/ c = "pipeline" /\ m \in pipeline
                        \/ c = "mbuf" /\ m = mbuf
                        \/ c = "rejected" /\ m \in rejected
                        \/ c = "lost" /\ m \in lost})
           = IF m \in Kept THEN 0 ELSE 1
<1> DEFINE S == {c \in {"pipeline", "mbuf", "rejected", "lost"} :
                   \/ c = "pipeline" /\ m \in pipeline
                   \/ c = "mbuf" /\ m = mbuf
                   \/ c = "rejected" /\ m \in rejected
                   \/ c = "lost" /\ m \in lost}
<1>1. /\ m \in pipeline \cup InHand \cup Kept \cup rejected \cup lost
      /\ pipeline \cap (InHand \cup Kept \cup rejected \cup lost) = {}
      /\ InHand \cap (Kept \cup rejected \cup lost) = {}
      /\ Kept \cap (rejected \cup lost) = {} /\ rejected \cap lost = {}
  BY DEF OnceInv
<1>2. m = mbuf <=> m \in InHand
  BY DEF InHand
<1>3. CASE m \in Kept
  <2>1. S = {}
    BY <1>1, <1>2, <1>3
  <2> HIDE DEF S
  <2>2. QED
    BY <1>3, <2>1, AtMostOne DEF S
<1>4. CASE m \notin Kept
  <2>1. \/ S = {"pipeline"} \/ S = {"mbuf"} \/ S = {"rejected"} \/ S = {"lost"}
    <3>1. CASE m \in pipeline
      BY <1>1, <1>2, <3>1
    <3>2. CASE m \in InHand
      BY <1>1, <1>2, <3>2
    <3>3. CASE m \in rejected
      BY <1>1, <1>2, <3>3
    <3>4. CASE m \in lost
      BY <1>1, <1>2, <3>4
    <3>5. QED
      BY <1>1, <1>4, <3>1, <3>2, <3>3, <3>4
  <2> HIDE DEF S
  <2>2. Cardinality(S) = 1
    BY <2>1, AtMostOne
  <2>3. QED
    BY <1>4, <2>2 DEF S
<1>5. QED
  BY <1>3, <1>4

\* Each packet has one place.
LEMMA PlacesOnce == IInv /\ (outrun \/ (PlaceInv /\ OnceInv)) => EachPacketOnce
<1> SUFFICES ASSUME IInv, PlaceInv, OnceInv, NEW m \in 0 .. numbered - 1 PROVE Copies(m) = 1
  BY DEF EachPacketOnce
<1>1. /\ TypeOK /\ ReadyInv /\ Exact /\ Ascending /\ numbered \in Nat /\ None \notin Nat
      /\ Due \in Nat
  BY PlacesTyped DEF IInv, PlaceInv
<1>2. m \in Nat /\ m # None
  BY <1>1
<1> DEFINE a == Cardinality({p \in Position : order[p] = m})
           b == Cardinality({k \in 1 .. ReadyCount : ReadyList[k] = m})
           c == Cardinality({i \in DOMAIN drained : drained[i] = m})
           d == Cardinality({x \in {"pipeline", "mbuf", "rejected", "lost"} :
                               \/ x = "pipeline" /\ m \in pipeline
                               \/ x = "mbuf" /\ m = mbuf
                               \/ x = "rejected" /\ m \in rejected
                               \/ x = "lost" /\ m \in lost})
<1>3. Copies(m) = ((a + b) + c) + d
  BY DEF Copies
<1>4. a = IF m \in OrderSet THEN 1 ELSE 0
  BY <1>1, <1>2, OrderedOnce
<1>5. b + c = IF m \in OutSet THEN 1 ELSE 0
  BY <1>1, <1>2, OutOnce
<1>6. d = IF m \in Kept THEN 0 ELSE 1
  BY <1>2, ElsewhereOnce
<1>7. b \in Nat /\ c \in Nat
  <2>1. IsFiniteSet({k \in 1 .. ReadyCount : ReadyList[k] = m})
    <3>1. ReadyCount \in Nat
      BY <1>1, ReadyListIs
    <3>2. IsFiniteSet(1 .. ReadyCount)
      BY <3>1, FS_Interval
    <3>3. QED
      BY <3>2, FS_Subset
  <2>2. IsFiniteSet({i \in DOMAIN drained : drained[i] = m})
    <3>1. DOMAIN drained = 1 .. Len(drained) /\ Len(drained) \in Nat
      BY <1>1, LenProperties DEF TypeOK
    <3>2. IsFiniteSet(DOMAIN drained)
      BY <3>1, FS_Interval
    <3>3. QED
      BY <3>2, FS_Subset
  <2>3. QED
    BY <2>1, <2>2, FS_CardinalityType
<1> HIDE DEF a, b, c, d
<1>8. ~(m \in OrderSet /\ m \in OutSet)
  <2> SUFFICES ASSUME m \in OrderSet, m \in OutSet PROVE FALSE
    OBVIOUS
  <2>1. PICK k \in Position : m = OrderAt(k) /\ m # None
    BY DEF OrderSet
  <2>2. m = Due + k /\ k \in Nat
    BY <2>1, SizeIs DEF PlaceInv, Exact, Position
  <2>3. m < Due
    BY DEF PlaceInv, Ascending, OutSet
  <2>4. QED
    BY <1>1, <2>2, <2>3
<1>9. m \in Kept <=> m \in OrderSet \/ m \in OutSet
  BY DEF Kept
<1>10. QED
  <2>1. CASE m \in OrderSet
    BY <1>3, <1>4, <1>5, <1>6, <1>7, <1>8, <1>9, <2>1
  <2>2. CASE m \in OutSet
    BY <1>3, <1>4, <1>5, <1>6, <1>7, <1>8, <1>9, <2>2
  <2>3. CASE m \notin OrderSet /\ m \notin OutSet
    BY <1>3, <1>4, <1>5, <1>6, <1>7, <1>9, <2>3
  <2>4. QED
    BY <2>1, <2>2, <2>3

\* For every size of the buffers, width of the numbers and delay in the pipeline: packets
\* leave in the order in which they were numbered.
THEOREM OutputStaysAscending == Spec => []OutputAscends
<1> DEFINE Inv == IInv /\ (outrun \/ (PlaceInv /\ OnceInv))
<1>1. Inv /\ [Next]_vars => Inv'
  BY StepInv, PlacesStep
<1>2. Init => Inv
  BY PlacesInit
<1>3. Inv => OutputAscends
  BY PlacesAscend
<1> HIDE DEF Inv
<1>4. QED
  BY <1>1, <1>2, <1>3, PTL DEF Spec

\* And a packet that has been numbered is in one place: none is overwritten, given back
\* twice, or forgotten without being counted as refused or lost.
THEOREM PacketsStayOnce == Spec => []EachPacketOnce
<1> DEFINE Inv == IInv /\ (outrun \/ (PlaceInv /\ OnceInv))
<1>1. Inv /\ [Next]_vars => Inv'
  BY StepInv, PlacesStep
<1>2. Init => Inv
  BY PlacesInit
<1>3. Inv => EachPacketOnce
  BY PlacesOnce
<1> HIDE DEF Inv
<1>4. QED
  BY <1>1, <1>2, <1>3, PTL DEF Spec

-----------------------------------------------------------------------------
(* What DrainsDry rests on.                                                *)

\* A call that gives nothing back finds nothing that waits, and the packet that is due
\* has not come yet, was refused or lost, or is not numbered yet.
StandsStillAtGap ==
  Drain /\ ~outrun /\ Len(drained') = Len(drained) =>
    ReadyCount = 0 /\ (first = numbered \/ first \in pipeline \cup rejected \cup lost)

\* A drain takes what is due.
LEMMA GapStep ==
  ASSUME IInv, outrun \/ (PlaceInv /\ OnceInv)
  PROVE  StandsStillAtGap
<1> SUFFICES ASSUME Drain, ~outrun, Len(drained') = Len(drained)
             PROVE  ReadyCount = 0
                      /\ (first = numbered \/ first \in pipeline \cup rejected \cup lost)
  BY DEF StandsStillAtGap
<1>0. TypeOK /\ FillInv /\ ReadyInv /\ PlaceInv /\ OnceInv
  BY DEF IInv
<1> DEFINE r == Lesser(DrainMax, ReadyCount)
           n == DrainMax - r
           run == Run(n)
           s == SubSeq(ReadyList, 1, r)
<1>1. /\ drained \in Seq(Nat) /\ ReadyList \in Seq(Nat) /\ Len(ReadyList) = ReadyCount
      /\ ReadyCount \in Nat
  BY <1>0, ReadyListIs DEF TypeOK
<1>2. r \in 0 .. ReadyCount /\ (r = 0 => ReadyCount = 0)
  BY <1>1, ReorderAssumption DEF Lesser
<1>3. n \in Nat /\ (r = 0 => n > 0)
  BY <1>0, <1>1, DrainLeft, ReorderAssumption
<1>4. s \in Seq(Nat) /\ Len(s) = r
  <2>1. r \in 0 .. Len(ReadyList)
    BY <1>1, <1>2
  <2> DEFINE q == ReadyList
  <2>2. q \in Seq(Nat) /\ r \in 0 .. Len(q)
    BY <1>1, <2>1
  <2> HIDE DEF r, q
  <2>3. SubSeq(q, 1, r) \in Seq(Nat) /\ Len(SubSeq(q, 1, r)) = r
    BY ONLY <2>2
  <2>4. QED
    BY <2>3 DEF q
<1>5. run \in Seq(Nat) /\ Len(run) = RunLength(n)
  <2> HIDE DEF n
  <2>1. QED
    BY <1>0, <1>3, RunTyped
<1>6. RunLength(n) \in Nat /\ (RunLength(n) = 0 => n = 0 \/ OrderAt(0) = None)
  <2> HIDE DEF n
  <2>1. /\ RunLength(n) \in 0 .. Size
        /\ RunLength(n) = Lesser(n, Size) \/ OrderAt(RunLength(n)) = None
    BY <1>3, RunIs
  <2>2. Lesser(n, Size) = 0 => n = 0
    BY <1>3, SizeIs DEF Lesser
  <2>3. QED
    BY <2>1, <2>2, SizeIs
<1>7. drained' = (drained \o s) \o run
  BY DEF Drain
<1> HIDE DEF r, n, run, s
<1>8. Len(drained') = (Len(drained) + r) + RunLength(n)
  BY <1>1, <1>4, <1>5, <1>7, ConcatProperties
<1>9. r = 0 /\ RunLength(n) = 0
  <2>1. Len(drained) \in Nat /\ r \in Nat
    BY <1>1, <1>2
  <2>2. QED
    BY <1>6, <1>8, <2>1
<1>10. ReadyCount = 0 /\ OrderAt(0) = None
  BY <1>2, <1>3, <1>6, <1>9
<1>11. /\ first \in Nat /\ numbered \in Nat /\ first <= numbered /\ mbuf = None
       /\ Due = first
  <2>1. pc = "exec"
    BY DEF Drain
  <2>2. first \in Nat /\ numbered \in Nat
    BY <1>0, PlacesTyped
  <2>3. order_head_adv = 0
    BY <1>0, <2>1 DEF FillInv
  <2>4. QED
    BY <1>0, <2>1, <2>2, <2>3 DEF PlaceInv, Due
<1>12. first \notin OutSet
  <2>1. \A i \in 1 .. Len(Out) : Out[i] < first /\ Out[i] \in Nat
    BY <1>0, <1>11, OutIs, ElementOfSeq DEF PlaceInv, Ascending
  <2>2. QED
    BY <1>11, <2>1 DEF OutSet
<1>13. first \notin OrderSet
  <2> SUFFICES ASSUME NEW k \in Position, OrderAt(k) = first, first # None PROVE FALSE
    BY DEF OrderSet
  <2>1. first = first + k
    BY <1>0, <1>11 DEF PlaceInv, Exact
  <2>2. k = 0
    BY <1>11, <2>1, SizeIs DEF Position
  <2>3. QED
    BY <1>10, <2>2
<1>14. first \notin InHand
  BY <1>11 DEF InHand
<1>15. CASE first < numbered
  <2>1. first \in 0 .. numbered - 1
    BY <1>11, <1>15
  <2>2. first \in pipeline \cup InHand \cup Kept \cup rejected \cup lost
    BY <1>0, <2>1 DEF OnceInv
  <2>3. QED
    BY <1>10, <1>12, <1>13, <1>14, <2>2, Zenon DEF Kept
<1>16. QED
  BY <1>10, <1>11, <1>15

(* The step of DrainsDry, for all sizes: a call of reorder_exec gives packets back as long
   as there are any in ready_buf or the one that is due is in order_buf; it comes to a
   standstill only in front of a packet that is still in the pipeline, was refused or
   lost. *)
THEOREM DrainStopsOnlyAtGap == Spec => [][StandsStillAtGap]_vars
<1> DEFINE Inv == IInv /\ (outrun \/ (PlaceInv /\ OnceInv))
<1>1. Inv /\ [Next]_vars => Inv'
  BY StepInv, PlacesStep
<1>2. Init => Inv
  BY PlacesInit
<1>3. Inv => StandsStillAtGap
  BY GapStep
<1> HIDE DEF Inv
<1>4. QED
  BY <1>1, <1>2, <1>3, PTL DEF Spec

=============================================================================
