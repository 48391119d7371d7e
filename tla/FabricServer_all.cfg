\* Clients dial whenever they like and may be interrupted, calls may fail.
SPECIFICATION Spec
CONSTANTS
  Clients = {c1, c2, c3}
  Faults = {"call", "quit"}
  None = None
INVARIANTS
  OneConnection
  EndsForAReason
PROPERTIES
  EveryoneServed
  NobodyWaits
\* all processes may have ended
CHECK_DEADLOCK FALSE
