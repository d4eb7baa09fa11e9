\* Sequence numbers wrap after three packets; the window is four packets wide.
CONSTANTS
  Size = 4
  Modulus = 16
  SeqStart = 13
  ExecMax = 3
  DrainMax = 2
  MaxDelay = 8
  MaxPkts = 9
  None = None
SPECIFICATION FairSpec
INVARIANTS TypeOK WindowAligned OutputAscends EachPacketOnce
PROPERTY DrainsDry
