\* More flows than the table has room for.
CONSTANTS
  Addrs = {1, 2}
  Ports = {0, 5, 6, 9}
  Cnt = 2
  Spare = 1
  States = {0, 1, 2}
  Traffic <- MCTraffic
  UserKeys <- MCUserKeys
SPECIFICATION Spec
INVARIANTS PositionsAccounted OneEntryPerKey SymmetricKeysFind
PROPERTY ImplementsMap
