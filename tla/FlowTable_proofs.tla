--------------------------- MODULE FlowTable_proofs ---------------------------
(***************************************************************************)
(* Proofs about the flow table, for tables of every size, all flows, keys  *)
(* and packets.                                                            *)
(***************************************************************************)
EXTENDS FlowTable, SequenceTheorems, FiniteSetTheorems, TLAPS

-----------------------------------------------------------------------------
(* Keys and hashes.                                                        *)

\* The ports found in a packet are ports.
LEMMA PortsType ==
  ASSUME NEW p \in Traffic
  PROVE  PortsFound(p)[1] \in Ports /\ PortsFound(p)[2] \in Ports
BY FlowAssumption DEF PortsFound, Packets

\* The key of a packet is a key, with the packet's addresses, and has a hash.
LEMMA FillKeyIs ==
  ASSUME NEW p \in Traffic
  PROVE  /\ FillKey(p) \in Keys /\ NicHash(p) \in Nat
         /\ NicHash(p) = 2 * FillKey(p).src + FillKey(p).dst
<1>1. p.proto \in Protos /\ p.src \in Addrs /\ p.dst \in Addrs /\ Addrs \subseteq Nat
  BY FlowAssumption DEF Packets
<1>2. FillKey(p) \in Keys
  BY <1>1, PortsType DEF FillKey, Keys
<1>3. FillKey(p).src = p.src /\ FillKey(p).dst = p.dst
  BY DEF FillKey
<1>4. \A a, b \in Nat : 2 * a + b \in Nat
  OBVIOUS
<1>5. NicHash(p) = 2 * p.src + p.dst /\ p.src \in Nat /\ p.dst \in Nat
  BY <1>1, Zenon DEF NicHash
<1>6. QED
  BY <1>2, <1>3, <1>4, <1>5, Zenon

\* The hash in software is a number.
LEMMA SoftrssType ==
  ASSUME NEW k \in UserKeys
  PROVE  k \in Keys /\ Softrss(k) \in Nat
<1>1. k \in Keys /\ Addrs \subseteq Nat /\ Ports \subseteq Nat
  BY FlowAssumption, Zenon
<1>2. k.src \in Nat /\ k.dst \in Nat /\ k.sport \in Nat /\ k.dport \in Nat
  BY <1>1 DEF Keys
<1>3. \A a, b, c, d \in Nat : (a + b) + 7 * (c + d) \in Nat
  OBVIOUS
<1>4. QED
  BY <1>1, <1>2, <1>3, Zenon DEF Softrss

-----------------------------------------------------------------------------
(* Types.                                                                  *)

\* The empty sequence is the function without arguments, to whatever set.
LEMMA NoFunction ==
  ASSUME NEW R
  PROVE  << >> \in [{} -> R] /\ DOMAIN << >> = {} /\ << >> = [i \in {} |-> << >>[i]]
<1>1. << >> \in Seq(R) /\ Len(<< >>) = 0
  BY EmptySeq
<1>2. << >> \in [1 .. Len(<< >>) -> R]
  BY <1>1, LenProperties
<1>3. 1 .. 0 = {}
  OBVIOUS
<1>4. << >> \in [{} -> R]
  BY <1>1, <1>2, <1>3, Zenon
<1>5. QED
  BY <1>4, Zenon

\* The table does not exist at first.
LEMMA TypeInit == Init => TypeOK
BY NoFunction DEF Init, TypeOK

\* What an operation on key k with hash h does to the variables of the table.
Operation(k, h) == Add(k, h) \/ Lookup(k, h) \/ Remove(k, h)

\* Every step is one of these: the operations reached through packets and keys.
LEMMA Steps ==
  ASSUME [Next]_vars
  PROVE  \/ Create \/ Free \/ Iterate \/ UNCHANGED vars
         \/ \E p \in Traffic : /\ Pkt(p) /\ Operation(FillKey(p), NicHash(p))
         \/ \E k \in UserKeys : /\ Key(k) /\ Operation(k, Softrss(k))
BY Zenon DEF Next, Pkt, Key, Operation

\* The user's writes stay in the array.
LEMMA UseType ==
  ASSUME TypeOK, NEW i, Use(i)
  PROVE  DOMAIN data' = DOMAIN data /\ data' \in [(IF created THEN 0 .. Cnt - 1 ELSE {}) -> States]
BY DEF TypeOK, Use

\* An operation keeps the types of the table, of its free positions and of the states.
LEMMA OperationType ==
  ASSUME TypeOK, NEW k \in Keys, NEW h \in Nat, Operation(k, h)
  PROVE  /\ entries' \subseteq [key : Keys, hash : Nat, pos : 0 .. Cnt + Spare - 1]
         /\ free' \subseteq 0 .. Cnt + Spare - 1
         /\ data' \in [(IF created THEN 0 .. Cnt - 1 ELSE {}) -> States]
<1>1. CASE Add(k, h)
  <2>1. ASSUME NEW i \in free
        PROVE  [key |-> k, hash |-> h, pos |-> i]
                 \in [key : Keys, hash : Nat, pos : 0 .. Cnt + Spare - 1]
    BY DEF TypeOK
  <2>2. QED
    BY <1>1, <2>1 DEF Add, TypeOK
<1>2. CASE Lookup(k, h)
  BY <1>2, UseType DEF Lookup, TypeOK
<1>3. CASE Remove(k, h)
  BY <1>3 DEF Remove, Found, TypeOK
<1>4. QED
  BY <1>1, <1>2, <1>3 DEF Operation

\* No step leaves the types.
LEMMA TypeStep == TypeOK /\ [Next]_vars => TypeOK'
<1> SUFFICES ASSUME TypeOK, [Next]_vars PROVE TypeOK'
  OBVIOUS
<1>1. CASE Create
  BY <1>1, FlowAssumption DEF Create, TypeOK
<1>2. CASE Free
  BY <1>2, NoFunction DEF Free, TypeOK
<1>3. CASE Iterate
  BY <1>3, UseType DEF Iterate, TypeOK
<1>4. ASSUME NEW p \in Traffic, Pkt(p), Operation(FillKey(p), NicHash(p)) PROVE TypeOK'
  BY <1>4, FillKeyIs, OperationType DEF Pkt, TypeOK
<1>5. ASSUME NEW k \in UserKeys, Key(k), Operation(k, Softrss(k)) PROVE TypeOK'
  BY <1>5, SoftrssType, OperationType DEF Key, TypeOK
<1>6. CASE UNCHANGED vars
  BY <1>6 DEF vars, TypeOK
<1>7. QED
  BY <1>1, <1>2, <1>3, <1>4, <1>5, <1>6, Steps, Zenon

(* Every variable keeps its type: keys, hashes, positions and states. *)
THEOREM TypeCorrect == Spec => []TypeOK
BY TypeInit, TypeStep, PTL DEF Spec

-----------------------------------------------------------------------------
(* Positions.                                                              *)

\* No position exists before the table does.
LEMMA PositionsInit == Init => PositionsAccounted
BY DEF Init, PositionsAccounted, Positions

\* Without a change of the table, its positions stay accounted for.
LEMMA PositionsKept ==
  ASSUME PositionsAccounted, UNCHANGED <<created, flags, entries, free>>,
         DOMAIN data' = DOMAIN data
  PROVE  PositionsAccounted'
BY DEF PositionsAccounted, Positions

\* A new entry gets a free position, a removed one gives its own back or loses it.
LEMMA OperationPositions ==
  ASSUME TypeOK, PositionsAccounted, NEW k \in Keys, NEW h \in Nat, Operation(k, h),
         UNCHANGED <<created, flags>>
  PROVE  PositionsAccounted'
<1>1. ASSUME NEW i \in free, free' = free \ {i}, data' = data,
             entries' = entries \cup {[key |-> k, hash |-> h, pos |-> i]}
      PROVE  PositionsAccounted'
  <2> DEFINE new == [key |-> k, hash |-> h, pos |-> i]
  <2>1. new.pos = i
    OBVIOUS
  <2> HIDE DEF new
  <2>2. Positions' = Positions \cup {i}
    BY <1>1, <2>1 DEF Positions, new
  <2>3. i \notin Positions
    BY DEF PositionsAccounted
  <2>4. \A e, f \in entries' : e.pos = f.pos => e = f
    <3>1. \A e \in entries : e.pos # i
      BY <2>3 DEF Positions
    <3>2. entries' = entries \cup {new}
      BY <1>1, Zenon DEF new
    <3>3. QED
      BY <2>1, <3>1, <3>2 DEF PositionsAccounted
  <2>5. QED
    BY <1>1, <2>2, <2>3, <2>4 DEF PositionsAccounted
<1>2. ASSUME NEW e \in entries, entries' = entries \ {e}, data' = data,
             free' = IF "no_free_on_del" \in flags THEN free ELSE free \cup {e.pos}
      PROVE  PositionsAccounted'
  <2>1. Positions' = Positions \ {e.pos} /\ e.pos \in Positions
    BY <1>2 DEF Positions, PositionsAccounted
  <2>2. \A f, g \in entries' : f.pos = g.pos => f = g
    BY <1>2 DEF PositionsAccounted
  <2>3. QED
    BY <1>2, <2>1, <2>2 DEF PositionsAccounted
<1>3. CASE Add(k, h)
  BY <1>1, <1>3, PositionsKept DEF Add
<1>4. CASE Lookup(k, h)
  BY <1>4, UseType, PositionsKept DEF Lookup
<1>5. CASE Remove(k, h)
  BY <1>2, <1>5 DEF Remove, Found
<1>6. QED
  BY <1>3, <1>4, <1>5 DEF Operation

\* Every step keeps the positions accounted for.
LEMMA PositionsStep == TypeOK /\ PositionsAccounted /\ [Next]_vars => PositionsAccounted'
<1> SUFFICES ASSUME TypeOK, PositionsAccounted, [Next]_vars PROVE PositionsAccounted'
  OBVIOUS
<1>1. CASE Create
  <2>1. DOMAIN data' = 0 .. Cnt - 1 /\ Positions' = {}
    BY <1>1 DEF Create, Positions
  <2>2. QED
    BY <1>1, <2>1 DEF Create, PositionsAccounted
<1>2. CASE Free
  BY <1>2 DEF Free, PositionsAccounted, Positions
<1>3. CASE Iterate
  BY <1>3, UseType, PositionsKept DEF Iterate
<1>4. ASSUME NEW p \in Traffic, Pkt(p), Operation(FillKey(p), NicHash(p))
      PROVE  PositionsAccounted'
  BY <1>4, FillKeyIs, OperationPositions DEF Pkt
<1>5. ASSUME NEW k \in UserKeys, Key(k), Operation(k, Softrss(k))
      PROVE  PositionsAccounted'
  BY <1>5, SoftrssType, OperationPositions DEF Key
<1>6. CASE UNCHANGED vars
  BY <1>6, PositionsKept DEF vars
<1>7. QED
  BY <1>1, <1>2, <1>3, <1>4, <1>5, <1>6, Steps, Zenon

(* Whatever the uncleared flags of the hash table turned out to be, no two entries
   share a position, none is free, and with no flag set none is ever lost. *)
THEOREM PositionsAreAccounted == Spec => []PositionsAccounted
BY TypeInit, TypeStep, PositionsInit, PositionsStep, PTL DEF Spec

-----------------------------------------------------------------------------
(* One entry per flow.                                                     *)

\* While only one of the two interfaces has been used, all hashes are of its kind; the
\* table has one entry for a key and a hash.
HashInv ==
  /\ used \subseteq {"pkt", "key"}
  /\ "key" \notin used => \A e \in entries : e.hash = 2 * e.key.src + e.key.dst
  /\ "pkt" \notin used => \A e \in entries : e.hash = Softrss(e.key)
  /\ \A e, f \in entries : e.key = f.key /\ e.hash = f.hash => e = f

\* An operation leaves the entries, removes one, or adds one that was not there.
LEMMA OperationEntries ==
  ASSUME NEW k, NEW h, Operation(k, h)
  PROVE  \/ entries' \subseteq entries
         \/ /\ Found(k, h) = {}
            /\ \E i : entries' = entries \cup {[key |-> k, hash |-> h, pos |-> i]}
BY Zenon DEF Operation, Add, Lookup, Remove

\* There is still one entry for a key and a hash behind an operation.
LEMMA OperationUnique ==
  ASSUME HashInv, NEW k, NEW h, Operation(k, h)
  PROVE  \A e, f \in entries' : e.key = f.key /\ e.hash = f.hash => e = f
<1>1. CASE entries' \subseteq entries
  BY <1>1, Zenon DEF HashInv
<1>2. ASSUME Found(k, h) = {},
             NEW i, entries' = entries \cup {[key |-> k, hash |-> h, pos |-> i]}
      PROVE  \A e, f \in entries' : e.key = f.key /\ e.hash = f.hash => e = f
  <2> DEFINE new == [key |-> k, hash |-> h, pos |-> i]
  <2>1. new.key = k /\ new.hash = h
    OBVIOUS
  <2>2. \A e \in entries : ~(e.key = k /\ e.hash = h)
    BY <1>2 DEF Found
  <2>3. entries' = entries \cup {new}
    BY <1>2, Zenon
  <2> HIDE DEF new
  <2>4. QED
    BY <2>1, <2>2, <2>3 DEF HashInv
<1>3. QED
  BY <1>1, <1>2, OperationEntries, Zenon

\* Every step keeps the hashes of one kind, or another interface has been used.
LEMMA HashStep == TypeOK /\ HashInv /\ [Next]_vars => HashInv'
<1> SUFFICES ASSUME TypeOK, HashInv, [Next]_vars PROVE HashInv'
  OBVIOUS
<1>1. CASE Create \/ Free
  BY <1>1 DEF Create, Free, HashInv
<1>2. CASE Iterate \/ UNCHANGED vars
  BY <1>2, Zenon DEF Iterate, vars, HashInv
<1>3. ASSUME NEW p \in Traffic, Pkt(p), Operation(FillKey(p), NicHash(p)) PROVE HashInv'
  <2>1. used' = used \cup {"pkt"}
    BY <1>3 DEF Pkt
  <2>2. "key" \notin used' => \A e \in entries' : e.hash = 2 * e.key.src + e.key.dst
    BY <1>3, <2>1, FillKeyIs, OperationEntries DEF HashInv
  <2>3. QED
    BY <1>3, <2>1, <2>2, OperationUnique DEF HashInv
<1>4. ASSUME NEW k \in UserKeys, Key(k), Operation(k, Softrss(k)) PROVE HashInv'
  <2>1. used' = used \cup {"key"}
    BY <1>4 DEF Key
  <2>2. "pkt" \notin used' => \A e \in entries' : e.hash = Softrss(e.key)
    <3>1. SUFFICES ASSUME "pkt" \notin used', NEW e \in entries' PROVE e.hash = Softrss(e.key)
      BY Zenon
    <3>2. CASE e \in entries
      BY <2>1, <3>1, <3>2 DEF HashInv
    <3>3. ASSUME NEW i, e = [key |-> k, hash |-> Softrss(k), pos |-> i]
          PROVE  e.hash = Softrss(e.key)
      <4>1. e.key = k /\ e.hash = Softrss(k)
        BY <3>3
      <4>2. QED
        BY <4>1, Zenon
    <3>4. QED
      <4>1. \/ entries' \subseteq entries
            \/ \E i : entries' = entries \cup {[key |-> k, hash |-> Softrss(k), pos |-> i]}
        BY <1>4, OperationEntries, Zenon
      <4>2. \/ e \in entries
            \/ \E i : e = [key |-> k, hash |-> Softrss(k), pos |-> i]
        BY <3>1, <4>1, Zenon
      <4>3. QED
        BY <3>2, <3>3, <4>2, Zenon
  <2>3. QED
    BY <1>4, <2>1, <2>2, OperationUnique DEF HashInv
<1>5. QED
  BY <1>1, <1>2, <1>3, <1>4, Steps, Zenon

(* A flow has one entry for as long as the table is used through packets only or
   through keys only. *)
THEOREM FlowHasOneEntry == Spec => []OneEntryPerKey
<1>1. Init => HashInv
  BY DEF Init, HashInv
<1>2. HashInv => OneEntryPerKey
  <2> SUFFICES ASSUME HashInv, used # {"pkt", "key"},
                      NEW e \in entries, NEW f \in entries, e.key = f.key
               PROVE  e = f
    BY DEF OneEntryPerKey
  <2>1. "key" \notin used \/ "pkt" \notin used
    BY DEF HashInv
  <2>2. e.hash = f.hash
    BY <2>1, Zenon DEF HashInv
  <2>3. QED
    BY <2>2, Zenon DEF HashInv
<1>3. QED
  BY <1>1, <1>2, TypeInit, TypeStep, HashStep, PTL DEF Spec

-----------------------------------------------------------------------------
(* The symmetric key.                                                      *)

\* A key with its addresses and ports replaced.
LEMMA KeyExcept ==
  ASSUME NEW k, NEW a, NEW b, NEW c, NEW d, NEW e, NEW w, NEW x, NEW y, NEW z,
         k = [proto |-> a, src |-> b, dst |-> c, sport |-> d, dport |-> e, pad |-> 0]
  PROVE  [k EXCEPT !.src = w, !.dst = x, !.sport = y, !.dport = z]
           = [proto |-> a, src |-> w, dst |-> x, sport |-> y, dport |-> z, pad |-> 0]
<1> DEFINE F == {"proto", "src", "dst", "sport", "dport", "pad"}
           l == [k EXCEPT !.src = w, !.dst = x, !.sport = y, !.dport = z]
           m == [proto |-> a, src |-> w, dst |-> x, sport |-> y, dport |-> z, pad |-> 0]
<1>1. DOMAIN k = F /\ k = [g \in F |-> k[g]]
  OBVIOUS
<1>2. DOMAIN l = F /\ l = [g \in F |-> l[g]]
  BY <1>1
<1>3. DOMAIN m = F /\ m = [g \in F |-> m[g]]
  OBVIOUS
<1>4. \A g \in F : l[g] = m[g]
  <2>1. l.src = w /\ l.dst = x /\ l.sport = y /\ l.dport = z
    BY <1>1
  <2>2. l.proto = a /\ l.pad = 0
    BY <1>1
  <2>3. /\ m.src = w /\ m.dst = x /\ m.sport = y /\ m.dport = z
        /\ m.proto = a /\ m.pad = 0
    OBVIOUS
  <2>4. ASSUME NEW g \in F PROVE l[g] = m[g]
    <3> HIDE DEF l, m
    <3>1. QED
      BY <2>1, <2>2, <2>3, <2>4, Zenon
  <2>5. QED
    BY <2>4
<1>5. QED
  <2> HIDE DEF l, m, F
  <2>1. l = m
    BY <1>2, <1>3, <1>4, Zenon
  <2>2. QED
    BY <2>1 DEF l, m

\* Two packets have the same symmetric key exactly when they are of one conversation.
LEMMA SymmetricKeys ==
  ASSUME NEW p \in Traffic, NEW q \in Traffic
  PROVE  FillKeySymmetric(p) = FillKeySymmetric(q) <=> SameConversation(p, q)
<1> DEFINE Sym(r) == [proto |-> r.proto, src |-> MaxOf(r.src, r.dst), dst |-> MinOf(r.src, r.dst),
                      sport |-> MaxOf(PortsFound(r)[1], PortsFound(r)[2]),
                      dport |-> MinOf(PortsFound(r)[1], PortsFound(r)[2]), pad |-> 0]
<1>1. ASSUME NEW r \in Traffic PROVE FillKeySymmetric(r) = Sym(r)
  <2> DEFINE k == FillKey(r)
  <2>1. /\ k = [proto |-> r.proto, src |-> r.src, dst |-> r.dst, sport |-> PortsFound(r)[1],
                dport |-> PortsFound(r)[2], pad |-> 0]
        /\ k.src = r.src /\ k.dst = r.dst
        /\ k.sport = PortsFound(r)[1] /\ k.dport = PortsFound(r)[2]
    BY DEF FillKey
  <2>2. FillKeySymmetric(r)
          = [k EXCEPT !.src = MaxOf(k.src, k.dst), !.dst = MinOf(k.src, k.dst),
                      !.sport = MaxOf(k.sport, k.dport), !.dport = MinOf(k.sport, k.dport)]
    BY Zenon DEF FillKeySymmetric
  <2> HIDE DEF k
  <2>3. QED
    BY <2>1, <2>2, KeyExcept, Zenon
<1>2. FillKeySymmetric(p) = FillKeySymmetric(q) <=> Sym(p) = Sym(q)
  BY <1>1, Zenon
<1>3. Sym(p) = Sym(q) <=>
        /\ p.proto = q.proto
        /\ MaxOf(p.src, p.dst) = MaxOf(q.src, q.dst) /\ MinOf(p.src, p.dst) = MinOf(q.src, q.dst)
        /\ MaxOf(PortsFound(p)[1], PortsFound(p)[2]) = MaxOf(PortsFound(q)[1], PortsFound(q)[2])
        /\ MinOf(PortsFound(p)[1], PortsFound(p)[2]) = MinOf(PortsFound(q)[1], PortsFound(q)[2])
  OBVIOUS
<1>4. /\ p.src \in Nat /\ p.dst \in Nat /\ q.src \in Nat /\ q.dst \in Nat
      /\ PortsFound(p)[1] \in Nat /\ PortsFound(p)[2] \in Nat
      /\ PortsFound(q)[1] \in Nat /\ PortsFound(q)[2] \in Nat
  BY PortsType, FlowAssumption DEF Packets
<1> HIDE DEF Sym
<1>5. {p.src, p.dst} = {q.src, q.dst}
        <=> /\ MaxOf(p.src, p.dst) = MaxOf(q.src, q.dst)
            /\ MinOf(p.src, p.dst) = MinOf(q.src, q.dst)
  <2>1. PICK a \in Nat, b \in Nat, c \in Nat, d \in Nat :
          a = p.src /\ b = p.dst /\ c = q.src /\ d = q.dst
    BY <1>4, Zenon
  <2>2. {a, b} = {c, d} <=> MaxOf(a, b) = MaxOf(c, d) /\ MinOf(a, b) = MinOf(c, d)
    BY DEF MaxOf, MinOf
  <2>3. QED
    BY <2>1, <2>2, Zenon
<1>6. {PortsFound(p)[1], PortsFound(p)[2]} = {PortsFound(q)[1], PortsFound(q)[2]}
        <=> /\ MaxOf(PortsFound(p)[1], PortsFound(p)[2])
                  = MaxOf(PortsFound(q)[1], PortsFound(q)[2])
            /\ MinOf(PortsFound(p)[1], PortsFound(p)[2])
                  = MinOf(PortsFound(q)[1], PortsFound(q)[2])
  <2>1. PICK a \in Nat, b \in Nat, c \in Nat, d \in Nat :
          /\ a = PortsFound(p)[1] /\ b = PortsFound(p)[2]
          /\ c = PortsFound(q)[1] /\ d = PortsFound(q)[2]
    BY <1>4, Zenon
  <2>2. {a, b} = {c, d} <=> MaxOf(a, b) = MaxOf(c, d) /\ MinOf(a, b) = MinOf(c, d)
    BY DEF MaxOf, MinOf
  <2>3. QED
    BY <2>1, <2>2, Zenon
<1>7. QED
  BY <1>2, <1>3, <1>5, <1>6 DEF SameConversation

(* State kept under the symmetric key is found by exactly the packets between the
   same addresses and the same ports, in whichever direction or combination. *)
THEOREM SymmetricKeysFindConversations == Spec => []SymmetricKeysFind
<1>1. SymmetricKeysFind
  <2> SUFFICES ASSUME NEW p \in Traffic, NEW q \in Traffic, SymmetricEntry(p) # {}
               PROVE  SameConversation(p, q) <=> SymmetricEntry(q) = SymmetricEntry(p)
    BY DEF SymmetricKeysFind
  <2>1. PICK e \in SymmetricEntry(p) : TRUE
    OBVIOUS
  <2>2. e.key = FillKeySymmetric(p)
    BY <2>1 DEF SymmetricEntry, Found
  <2>3. ASSUME SymmetricEntry(q) = SymmetricEntry(p)
        PROVE  FillKeySymmetric(p) = FillKeySymmetric(q)
    BY <2>1, <2>2, <2>3 DEF SymmetricEntry, Found
  <2>4. FillKeySymmetric(p) = FillKeySymmetric(q) => SymmetricEntry(q) = SymmetricEntry(p)
    BY Zenon DEF SymmetricEntry
  <2>5. QED
    BY <2>3, <2>4, SymmetricKeys, Zenon
<1>2. QED
  BY <1>1, PTL

-----------------------------------------------------------------------------
(* The table as a map.                                                     *)

\* The keys with their hashes of a set of entries, and what position i holds in D.
KeysOf(E) == {<<e.key, e.hash>> : e \in E}
ValueAt(D, i) == IF i \in DOMAIN D THEN D[i] ELSE 0

\* The content of a table with entries E and states D.
ContentOf(E, D) ==
  [kh \in KeysOf(E) |->
     LET e == CHOOSE f \in E : <<f.key, f.hash>> = kh
     IN ValueAt(D, e.pos)]

\* Content c becomes d when n is added with v, removed, or written with v.
Added(c, d, n, v) == d = [kh \in DOMAIN c \cup {n} |-> IF kh = n THEN v ELSE c[kh]]
Removed(c, d, n) == d = [kh \in DOMAIN c \ {n} |-> c[kh]]
Written(c, d, n, v) == d = [c EXCEPT ![n] = v]

\* One entry for each key and hash, and for each position.
OneFor(E) == \A e, f \in E : <<e.key, e.hash>> = <<f.key, f.hash>> => e = f
OnePlace(E) == \A e, f \in E : e.pos = f.pos => e = f

\* The content of the table, before and behind a step.
LEMMA ContentIs ==
  Content = ContentOf(entries, data) /\ Content' = ContentOf(entries', data')
BY Zenon DEF Content, ContentOf, KeysOf, ValueAt

\* The content of the table is what the entry of each key and hash says.
LEMMA ContentAt ==
  ASSUME NEW E, NEW D, OneFor(E)
  PROVE  /\ ContentOf(E, D) = [kh \in KeysOf(E) |-> ContentOf(E, D)[kh]]
         /\ DOMAIN ContentOf(E, D) = KeysOf(E)
         /\ \A e \in E : /\ <<e.key, e.hash>> \in KeysOf(E)
                         /\ ContentOf(E, D)[<<e.key, e.hash>>] = ValueAt(D, e.pos)
<1>1. /\ ContentOf(E, D) = [kh \in KeysOf(E) |-> ContentOf(E, D)[kh]]
      /\ DOMAIN ContentOf(E, D) = KeysOf(E)
  <2> DEFINE value(kh) == LET e == CHOOSE f \in E : <<f.key, f.hash>> = kh
                          IN ValueAt(D, e.pos)
  <2>1. ContentOf(E, D) = [kh \in KeysOf(E) |-> value(kh)]
    BY Zenon DEF ContentOf
  <2> HIDE DEF value
  <2>2. QED
    BY <2>1
<1>2. ASSUME NEW e \in E
      PROVE  /\ <<e.key, e.hash>> \in KeysOf(E)
             /\ ContentOf(E, D)[<<e.key, e.hash>>] = ValueAt(D, e.pos)
  <2> DEFINE kh == <<e.key, e.hash>>
             c == CHOOSE f \in E : <<f.key, f.hash>> = kh
  <2>1. kh \in KeysOf(E)
    BY Zenon DEF KeysOf
  <2>2. ContentOf(E, D)[kh] = ValueAt(D, c.pos)
    BY <2>1, Zenon DEF ContentOf
  <2>3. c \in E /\ <<c.key, c.hash>> = kh
    BY Zenon
  <2>4. c = e
    BY <2>3, Zenon DEF OneFor
  <2>5. QED
    BY <2>1, <2>2, <2>4, Zenon
<1>3. QED
  BY <1>1, <1>2, Zenon

\* What an entry holds is the content at its key and hash.
LEMMA ContentFinds ==
  ASSUME NEW E, NEW D, OneFor(E), NEW e \in E
  PROVE  ContentOf(E, D)[<<e.key, e.hash>>] = ValueAt(D, e.pos)
BY ContentAt, Zenon

\* Two contents are the same when they have the same value for each entry.
LEMMA SameContent ==
  ASSUME NEW E, NEW D, NEW G, OneFor(E),
         \A e \in E : ValueAt(D, e.pos) = ValueAt(G, e.pos)
  PROVE  ContentOf(E, D) = ContentOf(E, G)
<1>1. ASSUME NEW kh \in KeysOf(E) PROVE ContentOf(E, D)[kh] = ContentOf(E, G)[kh]
  <2>1. PICK e \in E : kh = <<e.key, e.hash>>
    BY Zenon DEF KeysOf
  <2>2. ContentOf(E, D)[kh] = ValueAt(D, e.pos) /\ ContentOf(E, G)[kh] = ValueAt(G, e.pos)
    BY <2>1, ContentFinds, Zenon
  <2>3. QED
    BY <2>2, Zenon
<1>2. /\ ContentOf(E, D) = [kh \in KeysOf(E) |-> ContentOf(E, D)[kh]]
      /\ ContentOf(E, G) = [kh \in KeysOf(E) |-> ContentOf(E, G)[kh]]
  BY ContentAt, Zenon
<1>3. QED
  BY <1>1, <1>2, Zenon

\* A table without entries is the empty map.
LEMMA NoContent == ASSUME NEW D PROVE ContentOf({}, D) = << >>
<1>1. << >> = [kh \in {} |-> << >>[kh]] /\ DOMAIN << >> = {}
  BY NoFunction
<1>2. KeysOf({}) = {} /\ OneFor({})
  BY DEF KeysOf, OneFor
<1>3. ContentOf({}, D) = [kh \in {} |-> ContentOf({}, D)[kh]]
  BY <1>2, ContentAt, ZenonT(60)
<1>4. QED
  BY <1>1, <1>3, Zenon

\* Adding an entry adds its key and hash, with what its position holds.
LEMMA ContentAdd ==
  ASSUME NEW E, NEW D, NEW new, OneFor(E), OneFor(E \cup {new}),
         <<new.key, new.hash>> \notin KeysOf(E)
  PROVE  Added(ContentOf(E, D), ContentOf(E \cup {new}, D), <<new.key, new.hash>>,
               ValueAt(D, new.pos))
<1> DEFINE n == <<new.key, new.hash>>
           F == E \cup {new}
           m == [kh \in KeysOf(E) \cup {n} |->
                   IF kh = n THEN ValueAt(D, new.pos) ELSE ContentOf(E, D)[kh]]
<1>1. KeysOf(F) = KeysOf(E) \cup {n}
  BY Zenon DEF KeysOf
<1>2. ASSUME NEW kh \in KeysOf(F) PROVE ContentOf(F, D)[kh] = m[kh]
  <2>1. PICK e \in F : kh = <<e.key, e.hash>>
    BY Zenon DEF KeysOf
  <2>2. ContentOf(F, D)[kh] = ValueAt(D, e.pos)
    BY <2>1, ContentFinds, Zenon
  <2>3. CASE e = new
    <3>1. kh = n /\ m[kh] = ValueAt(D, new.pos)
      BY <1>1, <2>1, <2>3, Zenon
    <3>2. QED
      BY <2>2, <2>3, <3>1, Zenon
  <2>4. CASE e \in E
    <3>1. kh \in KeysOf(E) /\ ContentOf(E, D)[kh] = ValueAt(D, e.pos)
      <4>1. kh \in KeysOf(E)
        BY <2>1, <2>4, Zenon DEF KeysOf
      <4>2. QED
        BY <2>1, <2>4, <4>1, ContentFinds, Zenon
    <3>2. kh # n
      BY <3>1, Zenon
    <3>3. m[kh] = ContentOf(E, D)[kh]
      BY <1>1, <3>1, <3>2, Zenon
    <3>4. QED
      BY <2>2, <3>1, <3>3, Zenon
  <2>5. QED
    BY <2>1, <2>3, <2>4, Zenon
<1>3. ContentOf(F, D) = [kh \in KeysOf(F) |-> ContentOf(F, D)[kh]]
  BY ContentAt, Zenon
<1>4. m = [kh \in KeysOf(F) |-> m[kh]]
  BY <1>1, Zenon
<1>5. DOMAIN ContentOf(E, D) = KeysOf(E)
  BY ContentAt, Zenon
<1> HIDE DEF m
<1>6. ContentOf(F, D) = m
  BY <1>2, <1>3, <1>4, Zenon
<1>7. QED
  BY <1>5, <1>6, Zenon DEF m, Added

\* Removing an entry removes its key and hash.
LEMMA ContentRemove ==
  ASSUME NEW E, NEW D, NEW e \in E, OneFor(E)
  PROVE  Removed(ContentOf(E, D), ContentOf(E \ {e}, D), <<e.key, e.hash>>)
<1> DEFINE n == <<e.key, e.hash>>
           F == E \ {e}
<1>1. KeysOf(F) = KeysOf(E) \ {n}
  BY Zenon DEF KeysOf, OneFor
<1>2. OneFor(F)
  BY Zenon DEF OneFor
<1>3. ASSUME NEW kh \in KeysOf(F) PROVE ContentOf(F, D)[kh] = ContentOf(E, D)[kh]
  <2>1. PICK f \in F : kh = <<f.key, f.hash>>
    BY Zenon DEF KeysOf
  <2>2. ContentOf(F, D)[kh] = ValueAt(D, f.pos)
    BY <1>2, <2>1, ContentFinds, Zenon
  <2>3. f \in E
    OBVIOUS
  <2>4. ContentOf(E, D)[kh] = ValueAt(D, f.pos)
    BY <2>1, <2>3, ContentFinds, Zenon
  <2>5. QED
    BY <2>2, <2>4, Zenon
<1>4. ContentOf(F, D) = [kh \in KeysOf(F) |-> ContentOf(F, D)[kh]]
  BY <1>2, ContentAt, Zenon
<1>5. DOMAIN ContentOf(E, D) = KeysOf(E)
  BY ContentAt, Zenon
<1> HIDE DEF F
<1>6. ContentOf(F, D) = [kh \in KeysOf(F) |-> ContentOf(E, D)[kh]]
  BY <1>3, <1>4, Zenon
<1>7. QED
  BY <1>1, <1>5, <1>6, Zenon DEF F, Removed

\* Writing to the place of an entry changes the value of its key and hash only.
LEMMA ContentWrite ==
  ASSUME NEW E, NEW D, NEW G, NEW e \in E, NEW v, OneFor(E), OnePlace(E),
         e.pos \in DOMAIN D, G = [D EXCEPT ![e.pos] = v]
  PROVE  Written(ContentOf(E, D), ContentOf(E, G), <<e.key, e.hash>>, v)
<1> DEFINE n == <<e.key, e.hash>>
<1>1. ASSUME NEW kh \in KeysOf(E)
      PROVE  ContentOf(E, G)[kh] = IF kh = n THEN v ELSE ContentOf(E, D)[kh]
  <2>1. PICK f \in E : kh = <<f.key, f.hash>>
    BY Zenon DEF KeysOf
  <2>2. ContentOf(E, G)[kh] = ValueAt(G, f.pos) /\ ContentOf(E, D)[kh] = ValueAt(D, f.pos)
    BY <2>1, ContentFinds, Zenon
  <2>3. CASE f = e
    <3>1. ValueAt(G, f.pos) = v
      BY <2>3 DEF ValueAt
    <3>2. QED
      BY <2>1, <2>2, <2>3, <3>1, Zenon
  <2>4. CASE f # e
    <3>1. f.pos # e.pos /\ kh # n
      BY <2>1, <2>4, Zenon DEF OnePlace, OneFor
    <3>2. ValueAt(G, f.pos) = ValueAt(D, f.pos)
      BY <3>1 DEF ValueAt
    <3>3. QED
      BY <2>2, <3>1, <3>2, Zenon
  <2>5. QED
    BY <2>3, <2>4
<1>2. /\ ContentOf(E, G) = [kh \in KeysOf(E) |-> ContentOf(E, G)[kh]]
      /\ ContentOf(E, D) = [kh \in KeysOf(E) |-> ContentOf(E, D)[kh]]
      /\ DOMAIN ContentOf(E, D) = KeysOf(E) /\ n \in KeysOf(E)
  BY ContentAt, Zenon
<1>3. [ContentOf(E, D) EXCEPT ![n] = v]
        = [kh \in KeysOf(E) |-> IF kh = n THEN v ELSE ContentOf(E, D)[kh]]
  BY <1>2, Zenon
<1>4. QED
  BY <1>1, <1>2, <1>3, Zenon DEF Written

\* While a position is free, there are fewer keys and hashes than positions.
LEMMA RoomLeft ==
  ASSUME NEW E, NEW C \in Nat, \A e \in E : e.pos \in 0 .. C - 1, OneFor(E), OnePlace(E),
         NEW i \in 0 .. C - 1, \A e \in E : e.pos # i
  PROVE  Cardinality(KeysOf(E)) < C
<1> DEFINE entry(kh) == CHOOSE f \in E : <<f.key, f.hash>> = kh
           T == (0 .. C - 1) \ {i}
           g == [kh \in KeysOf(E) |-> entry(kh).pos]
<1>1. ASSUME NEW kh \in KeysOf(E)
      PROVE  entry(kh) \in E /\ <<entry(kh).key, entry(kh).hash>> = kh
  BY Zenon DEF KeysOf
<1>2. g \in [KeysOf(E) -> T]
  <2>1. ASSUME NEW kh \in KeysOf(E) PROVE entry(kh).pos \in T
    <3>1. entry(kh) \in E
      BY <1>1
    <3> HIDE DEF entry
    <3>2. QED
      BY <3>1
  <2> HIDE DEF entry, T
  <2>2. QED
    BY <2>1
<1>3. \A j, k \in KeysOf(E) : g[j] = g[k] => j = k
  <2> HIDE DEF entry
  <2>1. QED
    BY <1>1, Zenon DEF OnePlace
<1>4. g \in Injection(KeysOf(E), T)
  <2> HIDE DEF g
  <2>1. QED
    BY <1>2, <1>3 DEF Injection, IsInjective
<1>5. IsFiniteSet(0 .. C - 1) /\ Cardinality(0 .. C - 1) = C
  BY FS_Interval
<1>6. IsFiniteSet(T) /\ Cardinality(T) = C - 1
  BY <1>5, FS_RemoveElement
<1> HIDE DEF g, T
<1>7. /\ IsFiniteSet(KeysOf(E)) /\ Cardinality(KeysOf(E)) <= C - 1
  BY <1>4, <1>6, FS_Injection
<1>8. Cardinality(KeysOf(E)) \in Nat
  BY <1>7, FS_CardinalityType
<1>9. QED
  BY <1>7, <1>8

\* An entry has its position where its type says.
LEMMA EntryPos ==
  ASSUME NEW K, NEW H, NEW P, NEW e \in [key : K, hash : H, pos : P]
  PROVE  e.pos \in P
OBVIOUS

\* The entries are under keys and hashes that occur, and there are none without a table.
MapInv ==
  /\ \A e \in entries : <<e.key, e.hash>> \in KeyHashes
  /\ ~created => entries = {}

\* One entry for each key and hash, and for each position, in the table.
LEMMA OneEach ==
  /\ HashInv => OneFor(entries)
  /\ PositionsAccounted => OnePlace(entries)
<1>1. ASSUME HashInv, NEW e \in entries, NEW f \in entries,
             <<e.key, e.hash>> = <<f.key, f.hash>>
      PROVE  e = f
  <2>1. e.key = f.key /\ e.hash = f.hash
    BY <1>1
  <2>2. QED
    BY <1>1, <2>1, Zenon DEF HashInv
<1>2. QED
  BY <1>1, Zenon DEF OneFor, OnePlace, PositionsAccounted

\* The user's write through the pointer to an entry's state is a write to the map.
LEMMA UseRefines ==
  ASSUME HashInv, PositionsAccounted, MapInv, NEW e \in entries, Use(e.pos),
         entries' = entries
  PROVE  [Map!Next]_Content
<1>1. OneFor(entries) /\ OnePlace(entries)
  BY OneEach
<1>2. CASE data' = data
  BY <1>2, ContentIs, Zenon
<1>3. ASSUME e.pos \in DOMAIN data, NEW s \in States, data' = [data EXCEPT ![e.pos] = s]
      PROVE  [Map!Next]_Content
  <2> DEFINE n == <<e.key, e.hash>>
  <2>1. Content' = [Content EXCEPT ![n] = s]
    <3>1. Written(ContentOf(entries, data), ContentOf(entries, data'), n, s)
      BY <1>1, <1>3, ContentWrite, Zenon
    <3>2. QED
      BY <3>1, ContentIs, Zenon DEF Written
  <2>2. n \in DOMAIN Content
    BY <1>1, ContentAt, ContentIs, Zenon
  <2>3. Map!Write(n, s)
    BY <2>1, <2>2, Zenon DEF Map!Write
  <2>4. n \in KeyHashes
    BY Zenon DEF MapInv
  <2>5. QED
    BY <2>3, <2>4, Zenon DEF Map!Next
<1>4. QED
  BY <1>2, <1>3 DEF Use

\* An operation on the table is one on the map, or changes nothing.
LEMMA OperationRefines ==
  ASSUME TypeOK, HashInv, PositionsAccounted, MapInv, NEW k, NEW h,
         <<k, h>> \in KeyHashes, Operation(k, h)
  PROVE  [Map!Next]_Content
<1>1. OneFor(entries) /\ OnePlace(entries)
  BY OneEach
<1>2. ASSUME NEW i \in free, Found(k, h) = {}, data' = data,
             entries' = entries \cup {[key |-> k, hash |-> h, pos |-> i]}
      PROVE  [Map!Next]_Content
  <2> DEFINE new == [key |-> k, hash |-> h, pos |-> i]
             n == <<k, h>>
  <2>1. new.key = k /\ new.hash = h /\ new.pos = i
    OBVIOUS
  <2>2. entries' = entries \cup {new}
    BY <1>2, Zenon
  <2> HIDE DEF new
  <2>3. OneFor(entries')
    <3>1. SUFFICES ASSUME NEW e \in entries', NEW f \in entries',
                          <<e.key, e.hash>> = <<f.key, f.hash>>
                   PROVE  e = f
      BY Zenon DEF OneFor
    <3>2. e.key = f.key /\ e.hash = f.hash
      BY <3>1
    <3>3. QED
      BY <3>2, OperationUnique, Zenon
  <2>4. n \notin KeysOf(entries)
    <3>1. ASSUME NEW e \in entries, n = <<e.key, e.hash>> PROVE e \in Found(k, h)
      BY <3>1 DEF Found
    <3>2. QED
      BY <1>2, <3>1 DEF KeysOf
  <2>5. Content' = [j \in DOMAIN Content \cup {n} |->
                      IF j = n THEN ValueAt(data, i) ELSE Content[j]]
    <3>1. OneFor(entries \cup {new}) /\ <<new.key, new.hash>> = n /\ new.pos = i
      BY <2>1, <2>2, <2>3, Zenon
    <3>2. <<new.key, new.hash>> \notin KeysOf(entries)
      BY <2>4, <3>1, Zenon
    <3>3. Added(ContentOf(entries, data), ContentOf(entries \cup {new}, data),
                <<new.key, new.hash>>, ValueAt(data, new.pos))
      BY <1>1, <3>1, <3>2, ContentAdd, Zenon
    <3>4. Content' = ContentOf(entries \cup {new}, data) /\ Content = ContentOf(entries, data)
      BY <1>2, <2>2, ContentIs, Zenon
    <3> HIDE DEF n
    <3>5. QED
      BY <3>1, <3>3, <3>4, Zenon DEF Added
  <2>6. DOMAIN Content = KeysOf(entries)
    BY <1>1, ContentAt, ContentIs, Zenon
  <2>7. Cardinality(KeysOf(entries)) < Cnt + Spare
    <3>1. Cnt + Spare \in Nat /\ i \in 0 .. (Cnt + Spare) - 1
      BY FlowAssumption DEF TypeOK
    <3>2. \A e \in entries : e.pos \in 0 .. (Cnt + Spare) - 1
      <4>1. TAKE e \in entries
      <4>2. e \in [key : Keys, hash : Nat, pos : 0 .. Cnt + Spare - 1]
        BY DEF TypeOK
      <4>3. e.pos \in 0 .. Cnt + Spare - 1
        BY <4>2, EntryPos, Zenon
      <4>4. Cnt + Spare - 1 = (Cnt + Spare) - 1
        BY FlowAssumption
      <4>5. QED
        BY <4>3, <4>4, Zenon
    <3>3. \A e \in entries : e.pos # i
      BY DEF PositionsAccounted, Positions
    <3>4. QED
      BY <1>1, <3>1, <3>2, <3>3, RoomLeft, Zenon
  <2>8. ValueAt(data, i) \in States
    BY FlowAssumption DEF ValueAt, TypeOK
  <2>9. Map!Add(n, ValueAt(data, i))
    <3>1. n \notin DOMAIN Content /\ Map!Cardinality(DOMAIN Content) < Cnt + Spare
      BY <2>4, <2>6, <2>7, Zenon DEF Cardinality, Map!Cardinality
    <3> HIDE DEF n
    <3>2. QED
      BY <2>5, <3>1, Zenon DEF Map!Add
  <2>10. QED
    BY <2>8, <2>9, Zenon DEF Map!Next
<1>3. ASSUME NEW e \in entries, <<e.key, e.hash>> = <<k, h>>, data' = data,
             entries' = entries \ {e}
      PROVE  [Map!Next]_Content
  <2> DEFINE n == <<k, h>>
  <2>1. Content' = [kh \in DOMAIN Content \ {n} |-> Content[kh]]
    <3>1. Removed(ContentOf(entries, data), ContentOf(entries \ {e}, data),
                  <<e.key, e.hash>>)
      BY <1>1, ContentRemove, Zenon
    <3>2. Content' = ContentOf(entries \ {e}, data) /\ Content = ContentOf(entries, data)
      BY <1>3, ContentIs, Zenon
    <3> HIDE DEF n
    <3>3. <<e.key, e.hash>> = n
      BY <1>3, Zenon DEF n
    <3>4. QED
      BY <3>1, <3>2, <3>3, Zenon DEF Removed
  <2>2. n \in DOMAIN Content
    BY <1>1, <1>3, ContentAt, ContentIs, Zenon
  <2>3. Map!Remove(n)
    BY <2>1, <2>2, Zenon DEF Map!Remove, Map!Restrict
  <2>4. QED
    BY <2>3, Zenon DEF Map!Next
<1>4. CASE entries' = entries /\ data' = data
  BY <1>4, ContentIs, Zenon
<1>5. CASE Add(k, h)
  BY <1>2, <1>4, <1>5, Zenon DEF Add
<1>6. CASE Lookup(k, h)
  <2>1. PICK e \in Found(k, h) : Use(e.pos)
    BY <1>6 DEF Lookup
  <2>2. e \in entries /\ entries' = entries
    BY <1>6 DEF Lookup, Found
  <2>3. QED
    BY <2>1, <2>2, UseRefines, Zenon
<1>7. CASE Remove(k, h)
  <2>1. PICK e \in Found(k, h) : entries' = entries \ {e}
    BY <1>7 DEF Remove
  <2>2. e \in entries /\ <<e.key, e.hash>> = <<k, h>> /\ data' = data
    BY <1>7 DEF Remove, Found
  <2>3. QED
    BY <1>3, <2>1, <2>2, Zenon
<1>8. QED
  BY <1>5, <1>6, <1>7 DEF Operation

\* The keys and hashes through which packets and users reach the table.
LEMMA ReachedWith ==
  /\ \A p \in Traffic : <<FillKey(p), NicHash(p)>> \in KeyHashes
  /\ \A k \in UserKeys : <<k, Softrss(k)>> \in KeyHashes
BY Zenon DEF KeyHashes

\* Entries come under keys and hashes that occur, and go with the table.
LEMMA MapStep == MapInv /\ [Next]_vars => MapInv'
<1> SUFFICES ASSUME MapInv, [Next]_vars PROVE MapInv'
  OBVIOUS
<1>1. CASE Create \/ Free
  BY <1>1 DEF Create, Free, MapInv
<1>2. CASE Iterate \/ UNCHANGED vars
  BY <1>2, Zenon DEF Iterate, vars, MapInv
<1>3. ASSUME NEW k, NEW h, <<k, h>> \in KeyHashes, Operation(k, h), created, created' = created
      PROVE  MapInv'
  <2>1. CASE entries' \subseteq entries
    BY <1>3, <2>1, Zenon DEF MapInv
  <2>2. ASSUME NEW i, entries' = entries \cup {[key |-> k, hash |-> h, pos |-> i]}
        PROVE  MapInv'
    <3>1. <<[key |-> k, hash |-> h, pos |-> i].key, [key |-> k, hash |-> h, pos |-> i].hash>>
            = <<k, h>>
      OBVIOUS
    <3>2. QED
      BY <1>3, <2>2, <3>1, Zenon DEF MapInv
  <2>3. QED
    BY <1>3, <2>1, <2>2, OperationEntries, Zenon
<1>4. CASE \E p \in Traffic : Pkt(p) /\ Operation(FillKey(p), NicHash(p))
  BY <1>3, <1>4, ReachedWith, Zenon DEF Pkt
<1>5. CASE \E k \in UserKeys : Key(k) /\ Operation(k, Softrss(k))
  BY <1>3, <1>5, ReachedWith, Zenon DEF Key
<1>6. QED
  BY <1>1, <1>2, <1>4, <1>5, Steps, Zenon

\* Every step of the table is a step of the map, or none.
LEMMA StepRefines ==
  ASSUME TypeOK, HashInv, PositionsAccounted, MapInv, [Next]_vars
  PROVE  [Map!Next]_Content
<1>1. CASE Create
  <2>1. Content' = << >>
    BY <1>1, NoContent, ContentIs, Zenon DEF Create
  <2>2. QED
    BY <2>1, Zenon DEF Map!Next, Map!Clear
<1>2. CASE Free
  <2>1. Content' = << >>
    BY <1>2, NoContent, ContentIs, Zenon DEF Free
  <2>2. QED
    BY <2>1, Zenon DEF Map!Next, Map!Clear
<1>3. CASE Iterate
  BY <1>3, UseRefines, Zenon DEF Iterate
<1>4. CASE \E p \in Traffic : Pkt(p) /\ Operation(FillKey(p), NicHash(p))
  BY <1>4, ReachedWith, OperationRefines, Zenon
<1>5. CASE \E k \in UserKeys : Key(k) /\ Operation(k, Softrss(k))
  BY <1>5, ReachedWith, OperationRefines, Zenon
<1>6. CASE UNCHANGED vars
  BY <1>6, ContentIs, Zenon DEF vars
<1>7. QED
  BY <1>1, <1>2, <1>3, <1>4, <1>5, <1>6, Steps, Zenon

(* For every number of entries, and whichever flags the hash table got, the table is a
   map from keys and hashes to states: what is added, written or removed under one key
   and hash leaves what is found under the others as it was. *)
THEOREM TableImplementsMap == Spec => ImplementsMap
<1>1. Init => HashInv /\ MapInv
  BY DEF Init, HashInv, MapInv
<1>2. Init => Map!Init
  BY NoContent, ContentIs, Zenon DEF Init, Map!Init
<1>3. TypeOK /\ HashInv /\ PositionsAccounted /\ MapInv /\ [Next]_vars => [Map!Next]_Content
  BY StepRefines
<1>4. QED
  BY <1>1, <1>2, <1>3, TypeInit, TypeStep, PositionsInit, PositionsStep, HashStep, MapStep,
     PTL DEF Spec, ImplementsMap, Map!Spec

=============================================================================
