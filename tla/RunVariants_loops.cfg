\* Main and two workers; latencies above and below the number of samples,
\* and some that are negative in an int.
CONSTANTS
  Cores = 3
  NbSamples = 1
  IntHalf = 4
  MaxPrints = 1
  m1 = m1
  m2 = m2
  Mbufs = {m1, m2}
  MaxLength = 2
  MaxPkts = 3
  EthBatch = 2
  BatchIn = 1
  MaxLatency = 4
SPECIFICATION Spec
SYMMETRY MbufSymmetry
INVARIANTS SplitsDisjoint CountsExact LatencyConsistent HandedOverOnce
\* The run ends.
CHECK_DEADLOCK FALSE
