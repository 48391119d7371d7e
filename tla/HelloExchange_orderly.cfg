\* Every node is started once, before it is greeted; UDP only duplicates.
SPECIFICATION FairSpec
CONSTANTS
  Nodes = {1, 2, 3}
  CyclesBeforeSend = 2
  MaxStarts = 1
  MaxLost = 0
  MaxDups = 1
  Orderly = TRUE
PROPERTIES
  TargetGetsKnown
CHECK_DEADLOCK FALSE
