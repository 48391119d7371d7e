\* usage() of rc_pingpong.c: "-e, --events sleep on CQ events", "-t, --ts get
\* CQE with timestamp".
SPECIFICATION Spec
CONSTANTS
  Iters = 3
  RxDepth = 2
  Transports = {"rc"}
  Modes = {"event_ts"}
  Faults = {}
INVARIANT NobodyFails
CHECK_DEADLOCK FALSE
