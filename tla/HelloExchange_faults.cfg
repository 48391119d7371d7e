\* Restarts, losses and duplicates.
SPECIFICATION FairSpec
CONSTANTS
  Nodes = {1, 2}
  CyclesBeforeSend = 1
  MaxStarts = 2
  MaxLost = 1
  MaxDups = 1
  Orderly = FALSE
INVARIANTS
  HelloBalance
PROPERTIES
  GoesQuiet
CHECK_DEADLOCK FALSE
