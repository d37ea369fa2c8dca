CONSTANTS
  c1 = c1
  c2 = c2
  c3 = c3
  c4 = c4
  Client = {c1, c2, c3, c4}
  Nil = Nil
  max_connections = 3
  accept_budget = 2
  handshake_timeout = 1
  idle_timeout = 2
  connect_timeout = 0
  Second = 1
  Faults = TRUE
  MaxTime = 2
SYMMETRY Symmetry
SPECIFICATION Spec
INVARIANTS
  TypeOK
  ListConsistent
  FdsOwned
  ConnectionLimit
CHECK_DEADLOCK FALSE
