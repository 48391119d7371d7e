\* Both servers, with enough descriptors and without, and with clients that
\* leave in order or not.  Letters and lines of the two rot13 clients, four
\* characters in all, meet a buffer of two.
SPECIFICATION Spec
CONSTANTS
  Clients = {c1, c2}
  Limits = {1, 2}
  MaxText = 4
  MaxLine = 2
  Faults = {"kill", "half"}
INVARIANTS TextInOrder 
PROPERTY NobodyForgotten
\* nobody may be left to serve
CHECK_DEADLOCK FALSE
