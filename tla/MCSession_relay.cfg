CONSTANTS
  BufSize = 6
  Chunk = 2
  ReadBudget = 2
  WriteBudget = 2
  HsMax = 4
  CtlMax = 1
  SndBuf = 1
  Record = 1
  Flights = 0
  ClientTls = FALSE
  TargetTls = FALSE
  ConnectModes = {"in_progress"}
  Timeouts = FALSE
  Faults = FALSE
  MaxTraffic = 13
  Scripts <- RelayScripts
SPECIFICATION Spec
INVARIANTS
  TypeOK
  UpInOrder
  DownInOrder
  ClientStreamOk
  NoOverflowClose
  WakeupsArmed
  ClosingHasOutput
PROPERTY
  RelaySpec
CHECK_DEADLOCK FALSE
