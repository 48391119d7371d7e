SPECIFICATION Spec
CONSTANTS
  Threads = {t1, t2}
  Count = 2
  TxDepth = 1
  Faults = {"create", "post", "read", "wait"}
  None = None
INVARIANTS
  OneReadEach
  QuietAtStop
PROPERTIES
  ImplementsReadCount
  EndsOrDeaf
\* the process ends, or waits for ever
CHECK_DEADLOCK FALSE
