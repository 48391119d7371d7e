\* The release of a queue pair, a completion queue, a memory region or a socket
\* may fail, and others because of it.
SPECIFICATION OwnSpec
CONSTANTS
  Listens = TRUE
  ReleaseFails = {"qp", "cq", "mr", "sock"}
INVARIANTS ReleasedInOrder 
