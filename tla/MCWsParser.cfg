CONSTANTS
  Streams <- SmallStreams
  MaxRequest = 30
  MaxRead = 4
  Capacities = {0, 1, 3, 125}
  WriteLengths = {0, 1, 125, 126, 127, 65535, 65536, 16777216}
SPECIFICATION Spec
INVARIANTS
  RequestExactly
  DecodedExactly
  RefusedExactly
  RoomSuffices
  WrittenReads
CHECK_DEADLOCK FALSE
