CONSTANTS
  BufSize = 6
  Chunk = 2
  ReadBudget = 2
  WriteBudget = 2
  HsMax = 4
  CtlMax = 1
  SndBuf = 1
  Record = 3
  Flights = 1
  ClientTls = FALSE
  TargetTls = TRUE
  ConnectModes = {"immediate"}
  Timeouts = FALSE
  Faults = FALSE
  MaxTraffic = 9
  Scripts <- TlsScripts
SPECIFICATION Spec
INVARIANT
  TargetLegEncrypted
CHECK_DEADLOCK FALSE
