CONSTANTS
  BufSize = 2
  Chunk = 6
  ReadBudget = 2
  WriteBudget = 2
  HsMax = 6
  CtlMax = 2
  SndBuf = 2
  Record = 7
  Flights = 1
  ClientTls = TRUE
  TargetTls = TRUE
  ConnectModes = {"in_progress", "failed"}
  Timeouts = TRUE
  Faults = TRUE
  MaxTraffic = 7
  Scripts <- FaultScripts
SPECIFICATION Spec
INVARIANTS
  DownInOrder
  ClientStreamOk
  WakeupsArmed
  TargetLegEncrypted
CHECK_DEADLOCK FALSE
