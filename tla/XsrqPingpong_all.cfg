SPECIFICATION Spec
CONSTANTS
  NumClients = 2
  NumTests = 2
  UseEvent = {TRUE}
  Faults = {"verbs", "retry"}
INVARIANTS  NothingLost 
PROPERTY AllSucceed
\* who waits for a process that has gone waits for ever
CHECK_DEADLOCK FALSE
