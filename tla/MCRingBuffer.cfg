CONSTANTS
  Capacity = 3
  Byte = {0, 1}
  MaxIo = 4
SPECIFICATION Spec
INVARIANTS
  TypeOK
  PositionsAgree
PROPERTY FifoSpec
