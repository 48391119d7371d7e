\* "save the remote side attributes", rdma1.cpp:718.
SPECIFICATION FairSpec
CONSTANTS
  Server = server
  Client = client
  ConLen = 2
  Faults = {"short"}
INVARIANTS
  RemoteKnown
CHECK_DEADLOCK FALSE
