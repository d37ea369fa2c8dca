CONSTANTS
  BufSize = 6
  Chunk = 2
  ReadBudget = 2
  WriteBudget = 2
  HsMax = 4
  CtlMax = 1
  SndBuf = 1
  Record = 3
  Flights = 1
  ClientTls = TRUE
  TargetTls = FALSE
  ConnectModes = {"in_progress"}
  Timeouts = FALSE
  Faults = FALSE
  MaxTraffic = 0
  Scripts <- TlsScripts
SPECIFICATION FairSpec
PROPERTY
  UpDelivered
CHECK_DEADLOCK FALSE
