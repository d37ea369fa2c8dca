CONSTANTS
  Number = {0, 4}
  UintRange = 4
  TlsBuilds = {TRUE, FALSE}
  Addresses = 2
SPECIFICATION Spec
INVARIANTS
  RunsAsConfigured
  NothingLeft
  UsersFirst
CHECK_DEADLOCK FALSE
