SPECIFICATION BridgeFairSpec
CONSTANTS
  Addr = {0}
  Data = {0}
  Zero = 0
  MaxBeats = 1
  Vector = {0}
  MasterKinds = {"pausing"}
  Others = {"M_RD", "M_WR"}
  Hwm = 3
  MaxWrites = 1
  Bar = {0}
  Off = {0}
  BarOffset <- MCBarOffset
  SlaveKinds = {"eager"}
  MaxIntr = 1
  Needs = FALSE
  MaxPending = 1
INVARIANTS
  BridgeTypeOK
  AnswersMatch
  FlushedFirst
  ReadSomewhere
PROPERTIES
  MmioReturns
  DmaEnds
