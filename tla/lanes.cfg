SPECIFICATION Spec
CONSTANTS
  BUSW = 4
  BUFF_SIZE = 32
  MaxLen = 7
  Reads = {"full", "single"}
  Writes = {"full", "single", "narrow"}
  SlaveKinds = {"eager", "lazy", "stepping"}
  WideKinds = {"eager"}
  VecNum = 3
  Lines = {{0}, {1}, {2}}
  Settled = TRUE
INVARIANTS
  TypeOK
  MmioExact
  DmaExact
  InBuffer
CHECK_DEADLOCK FALSE
