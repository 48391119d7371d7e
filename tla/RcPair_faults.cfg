\* Nothing fails, or everything may and TCP delivers cm_con_data_t in two pieces: two
\* sides that mistook the one for the other's message may block in read, and a
\* server nobody connects to in accept.
SPECIFICATION FairSpec
CONSTANTS
  Server = server
  Client = client
  ConLen = 2
  Faults = {"short", "refused", "create", "verbs", "timeout", "retry"}
INVARIANTS TypeOK QueuesFit RequestsLand CompletionMatches BufferSafe GivingUpNoticed
PROPERTIES ImplementsTransfer TestSucceeds EndsOrHangs
CHECK_DEADLOCK FALSE
