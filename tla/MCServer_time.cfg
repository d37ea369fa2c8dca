CONSTANTS
  c1 = c1
  c2 = c2
  c3 = c3
  c4 = c4
  Client = {c1, c2}
  Nil = Nil
  max_connections = 1
  accept_budget = 2
  handshake_timeout = 2
  idle_timeout = 3
  connect_timeout = 2
  Second = 2
  Faults = FALSE
  MaxTime = 8
SPECIFICATION FairSpec
INVARIANT
  DroppedInTime
PROPERTY
  SessionServed
CHECK_DEADLOCK FALSE
