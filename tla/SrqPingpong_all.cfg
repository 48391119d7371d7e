SPECIFICATION Spec
CONSTANTS
  Iters = 2
  RxDepth = 2
  NumQp = 2
  Transports = {"rc"}
  Modes = {"poll", "event"}
  Faults = {"verbs", "tcp"}
INVARIANTS ReceiveForEach EndedGotAll
PROPERTY BothEnd
\* a side that waits for one that has gone waits for ever
CHECK_DEADLOCK FALSE
