CONSTANTS
  NbStages = 3
  NbNics = 3
  Resource <- MCResource
  Kind <- MCKind
  W <- MCW
  NicTypes <- MCNicTypes
  Demands = {1, 2, 3}
  Bandwidths = {0, 1, 3, 6}
SPECIFICATION FairSpec
INVARIANTS TypeOK UnitsConserved BandwidthAccounted
PROPERTY Ends
\* The script ends.
CHECK_DEADLOCK FALSE
