------------------------------ MODULE FlowTable ------------------------------
(***************************************************************************)
(* The flow table of the API (meili_flow.c): a DPDK hash table from IPv4   *)
(* 5-tuples to positions, and an array with the user's state at each       *)
(* position.  An entry can be reached through a packet, with the hash that *)
(* the port has put into it, or through a key, with a hash in software.    *)
(*                                                                         *)
(* The hash table itself is DPDK's: it compares hash and key, and takes    *)
(* positions from a pool of free ones.                                     *)
(***************************************************************************)
EXTENDS Integers, FiniteSets

CONSTANTS
  Addrs,      \* addresses, numbers
  Ports,      \* ports, numbers; 0 among them
  Cnt,        \* entries that the table is created for
  Spare,      \* more positions of a table made for several writers
  States,     \* what the user keeps for a flow; 0 is cleared memory
  Traffic,    \* bound: the packets that occur
  UserKeys    \* bound: the keys that users make

Protos == {"tcp", "udp", "other"}

\* A packet: IP version, the five fields, and the ports that one finds 20 bytes
\* behind the start of the IP header, which with IP options are not its ports.
Packets ==
  [version : {4, 6}, proto : Protos, src : Addrs, dst : Addrs,
   sport : Ports, dport : Ports, opt_s : Ports, opt_d : Ports, options : BOOLEAN]

\* pad stands for the bytes between proto and src_addr, which the table compares.
Keys ==
  [proto : Protos, src : Addrs, dst : Addrs, sport : Ports, dport : Ports, pad : {0, 1}]

ASSUME FlowAssumption ==
  /\ Addrs \subseteq Nat /\ Ports \subseteq Nat /\ 0 \in Ports
  /\ Cnt \in Nat \ {0} /\ Spare \in Nat
  /\ 0 \in States
  /\ Traffic \subseteq Packets /\ UserKeys \subseteq Keys

VARIABLES
  created,   \* the table exists
  flags,     \* extra_flag of the hash table
  entries,   \* the hash table: [key, hash, pos]
  free,      \* free positions
  data,      \* the array of states
  used       \* history: the interfaces used since the creation

vars == <<created, flags, entries, free, data, used>>

-----------------------------------------------------------------------------
(* Keys and hashes                                                         *)

\* meili_ipv4_hdr_safe: what is no IPv4 packet has no key.
IsIpv4(p) == p.version = 4

\* meili_tcp_hdr_safe and meili_udp_hdr_safe do not look at the header length.
PortsFound(p) ==
  CASE p.proto = "other" -> <<0, 0>>
    [] p.options -> <<p.opt_s, p.opt_d>>
    [] OTHER -> <<p.sport, p.dport>>

\* flow_table_fill_key clears the key first.
FillKey(p) ==
  [proto |-> p.proto, src |-> p.src, dst |-> p.dst,
   sport |-> PortsFound(p)[1], dport |-> PortsFound(p)[2], pad |-> 0]

MaxOf(a, b) == IF a > b THEN a ELSE b
MinOf(a, b) == IF a > b THEN b ELSE a

\* Operators whose name ends in Bug are variants with a plausible error, put in
\* the place of the operator after them to see that a property notices.
FillKeySymmetricBug(p) ==
  LET k == FillKey(p)
  IN [k EXCEPT !.src = MaxOf(k.src, k.dst), !.dst = MinOf(k.src, k.dst)]

\* flow_table_fill_key_symmetric: addresses and ports are put in order separately.
FillKeySymmetric(p) ==
  LET k == FillKey(p)
  IN [k EXCEPT !.src = MaxOf(k.src, k.dst), !.dst = MinOf(k.src, k.dst),
               !.sport = MaxOf(k.sport, k.dport), !.dport = MinOf(k.sport, k.dport)]

\* The port hashes the addresses (ETH_RSS_IP).
NicHash(p) == 2 * p.src + p.dst

\* calculate_softrss: addresses and ports, with a key of two repeated bytes, which
\* makes the hash the same for both directions.
Softrss(k) == (k.src + k.dst) + 7 * (k.sport + k.dport)

-----------------------------------------------------------------------------
(* The table                                                               *)

Init ==
  /\ created = FALSE /\ flags = {}
  /\ entries = {} /\ free = {} /\ data = << >> /\ used = {}

CreateBug ==
  /\ ~created
  /\ created' = TRUE /\ flags' = {}
  /\ free' = 1 .. Cnt
  /\ data' = [i \in 0 .. Cnt - 1 |-> 0]
  /\ entries' = {} /\ used' = {}

\* flow_table_create.  The parameters are not cleared: what is not assigned, the
\* flags, is what the memory held.  A failure leaves no table.
Create ==
  /\ ~created
  /\ created' = TRUE
  /\ flags' \in SUBSET {"multi_writer", "no_free_on_del"}
  /\ free' = 0 .. (IF "multi_writer" \in flags' THEN Cnt + Spare ELSE Cnt) - 1
  /\ data' = [i \in 0 .. Cnt - 1 |-> 0]
  /\ entries' = {} /\ used' = {}

Found(k, h) == {e \in entries : e.key = k /\ e.hash = h}

\* Adding and looking up return a pointer; the user's writes through it are part of
\* looking up.  The user writes through the pointer to the data of position i, or leaves it.
Use(i) ==
  data' \in {data} \cup (IF i \in DOMAIN data THEN {[data EXCEPT ![i] = s] : s \in States}
                         ELSE {})

AddBug(k, h) ==
  /\ \E i \in free :
       /\ entries' = entries \cup {[key |-> k, hash |-> h, pos |-> i]}
       /\ free' = free \ {i}
  /\ UNCHANGED data

\* An existing entry is returned as it is; a new one takes a free position, unless
\* there is none or none of its buckets has room.
Add(k, h) ==
  \/ Found(k, h) # {} /\ UNCHANGED <<entries, free, data>>
  \/ /\ Found(k, h) = {}
     /\ \E i \in free :
          /\ entries' = entries \cup {[key |-> k, hash |-> h, pos |-> i]}
          /\ free' = free \ {i}
          /\ UNCHANGED data
  \/ Found(k, h) = {} /\ UNCHANGED <<entries, free, data>>

Lookup(k, h) ==
  /\ \E e \in Found(k, h) : Use(e.pos)
  /\ UNCHANGED <<entries, free>>

RemoveBug(k, h) ==
  /\ \E e \in Found(k, h) : free' = free \cup {e.pos}
  /\ UNCHANGED <<entries, data>>

\* With no_free_on_del the position is not given back.
Remove(k, h) ==
  /\ \E e \in Found(k, h) :
       /\ entries' = entries \ {e}
       /\ free' = IF "no_free_on_del" \in flags THEN free ELSE free \cup {e.pos}
  /\ UNCHANGED data

\* The three operations through a packet: one without a key changes nothing.
Pkt(p) ==
  /\ created /\ IsIpv4(p)
  /\ \/ Add(FillKey(p), NicHash(p))
     \/ Lookup(FillKey(p), NicHash(p))
     \/ Remove(FillKey(p), NicHash(p))
  /\ used' = used \cup {"pkt"}
  /\ UNCHANGED <<created, flags>>

\* The three operations through a key of the user's.
Key(k) ==
  /\ created
  /\ \/ Add(k, Softrss(k))
     \/ Lookup(k, Softrss(k))
     \/ Remove(k, Softrss(k))
  /\ used' = used \cup {"key"}
  /\ UNCHANGED <<created, flags>>

\* flow_table_iterate hands out the data of an entry at a time.
Iterate ==
  /\ created
  /\ \E e \in entries : Use(e.pos)
  /\ UNCHANGED <<created, flags, entries, free, used>>

\* flow_table_free
Free ==
  /\ created
  /\ created' = FALSE /\ flags' = {}
  /\ entries' = {} /\ free' = {} /\ data' = << >> /\ used' = {}

Next ==
  \/ Create
  \/ \E p \in Traffic : Pkt(p)
  \/ \E k \in UserKeys : Key(k)
  \/ Iterate
  \/ Free

Spec == Init /\ [][Next]_vars

-----------------------------------------------------------------------------

Positions == {e.pos : e \in entries}

\* Every variable has a value of its type.
TypeOK ==
  /\ created \in BOOLEAN /\ flags \subseteq {"multi_writer", "no_free_on_del"}
  /\ entries \subseteq [key : Keys, hash : Nat, pos : 0 .. Cnt + Spare - 1]
  /\ free \subseteq 0 .. Cnt + Spare - 1
  /\ data \in [(IF created THEN 0 .. Cnt - 1 ELSE {}) -> States]

(* No two flows share their state, and a position is never lost: each is free or
   has one entry, unless the flags keep the positions of removed entries.  Unless
   the table was made for several writers, each has its place in the array of states. *)
PositionsAccounted ==
  /\ "multi_writer" \notin flags => Positions \cup free \subseteq DOMAIN data
  /\ \A e, f \in entries : e.pos = f.pos => e = f
  /\ Positions \cap free = {}
  /\ flags = {} /\ created => Positions \cup free = 0 .. Cnt - 1

(* A flow has one entry, as long as the table is used through packets only or
   through keys only: the two use different hashes, and the table compares them. *)
OneEntryPerKey ==
  used # {"pkt", "key"} => \A e, f \in entries : e.key = f.key => e = f

(* State kept under the symmetric key is found by packets of both directions of
   the flow.  It is also found by the flow with the same addresses and its ports
   exchanged, and by no other. *)
SymmetricEntry(p) == Found(FillKeySymmetric(p), Softrss(FillKeySymmetric(p)))
SameConversation(p, q) ==
  /\ p.proto = q.proto /\ {p.src, p.dst} = {q.src, q.dst}
  /\ {PortsFound(p)[1], PortsFound(p)[2]} = {PortsFound(q)[1], PortsFound(q)[2]}
SymmetricKeysFind ==
  \A p, q \in {r \in Traffic : IsIpv4(r)} :
    SymmetricEntry(p) # {} =>
      (SameConversation(p, q) <=> SymmetricEntry(q) = SymmetricEntry(p))

(* The table keeps the state of each key and hash as FlowMap says: what one flow
   does never changes what another one finds. *)
Content ==
  [kh \in {<<e.key, e.hash>> : e \in entries} |->
     LET e == CHOOSE f \in entries : <<f.key, f.hash>> = kh
     IN IF e.pos \in DOMAIN data THEN data[e.pos] ELSE 0]
KeyHashes ==
  {<<FillKey(p), NicHash(p)>> : p \in Traffic} \cup {<<k, Softrss(k)>> : k \in UserKeys}
Map == INSTANCE FlowMap
         WITH Keys <- KeyHashes, Capacity <- Cnt + Spare, map <- Content
ImplementsMap == Map!Spec

=============================================================================
