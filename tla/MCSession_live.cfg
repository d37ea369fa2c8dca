CONSTANTS
  BufSize = 3
  Chunk = 1
  ReadBudget = 2
  WriteBudget = 2
  HsMax = 2
  CtlMax = 1
  SndBuf = 1
  Record = 1
  Flights = 0
  ClientTls = FALSE
  TargetTls = FALSE
  ConnectModes = {"in_progress", "immediate"}
  Timeouts = FALSE
  Faults = TRUE
  MaxTraffic = 6
  Scripts <- LiveScripts
SPECIFICATION FairSpec
PROPERTIES
  UpDelivered
  DownDelivered
  CloseCompletes
  HangupEndsSession
CHECK_DEADLOCK FALSE
