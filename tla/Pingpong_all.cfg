\* Every program, option and fault; without faults as well.
SPECIFICATION Spec
CONSTANTS
  Iters = 3
  RxDepth = 2
  Transports = {"rc", "uc", "ud"}
  Modes = {"poll", "event", "ts", "event_ts"}
  Faults = {"verbs", "tcp", "link", "ack", "loss"}
INVARIANTS QueuesFit MessageLands HandleBeforeSend NeverDeaf
PROPERTIES ImplementsRally BothEnd HearsOfFailure EndsUnlessLost
\* a side that waits for one that has gone waits for ever
CHECK_DEADLOCK FALSE
