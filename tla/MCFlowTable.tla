----------------------------- MODULE MCFlowTable -----------------------------
\* Traffic and keys for FlowTable: a flow and its reverse, the flow with exchanged
\* ports, a flow with IP options, one without ports, a packet that is not IPv4; the
\* flow's key, and the same with other bytes between its fields.
EXTENDS FlowTable

MCPacket(proto, src, dst, sport, dport) ==
  [version |-> 4, proto |-> proto, src |-> src, dst |-> dst, sport |-> sport,
   dport |-> dport, opt_s |-> 9, opt_d |-> 9, options |-> FALSE]

MCTraffic ==
  {MCPacket("tcp", 1, 2, 5, 6), MCPacket("tcp", 2, 1, 6, 5), MCPacket("tcp", 1, 2, 6, 5),
   MCPacket("other", 1, 2, 5, 6),
   [MCPacket("tcp", 1, 2, 5, 6) EXCEPT !.options = TRUE],
   [MCPacket("tcp", 1, 2, 5, 6) EXCEPT !.version = 6]}

MCUserKeys ==
  {FillKey(MCPacket("tcp", 1, 2, 5, 6)), FillKeySymmetric(MCPacket("tcp", 1, 2, 5, 6)),
   [FillKey(MCPacket("tcp", 1, 2, 5, 6)) EXCEPT !.pad = 1]}

=============================================================================
