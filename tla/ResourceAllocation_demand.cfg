CONSTANTS
  NbStages = 3
  NbNics = 3
  Resource <- MCResource
  Kind <- MCKind
  W <- MCW
  NicTypes <- MCNicTypes
  Demands = {1, 2}
  Bandwidths = {3}
SPECIFICATION FairSpec
PROPERTY DemandMet
\* The script ends.
CHECK_DEADLOCK FALSE
