\* Up to four cores, one instance more than fits; devices fewer and more than ports.
CONSTANTS
  MaxCores = 4
  MaxLcores = 5
  MaxDevs = 3
  MaxInst = 2
  MaxQp = 4
  Queues = 1
  BatchSize = 1
SPECIFICATION Spec
INVARIANTS StartComplete ReleasedAtExit RunFollowsOnlyItsOwn NothingReleasedTwice
\* The process ends.
CHECK_DEADLOCK FALSE
