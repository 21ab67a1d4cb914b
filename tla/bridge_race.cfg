SPECIFICATION BridgeSpec
CONSTANTS
  Addr = {0}
  Data = {0, 1}
  Zero = 0
  MaxBeats = 1
  Vector = {}
  MasterKinds = {"pausing"}
  Others = {"M_RD", "M_WR"}
  Hwm = 3
  MaxWrites = 1
  Bar = {0}
  Off = {0}
  BarOffset <- MCBarOffset
  SlaveKinds = {"eager"}
  MaxIntr = 0
  Needs = FALSE
  MaxPending = 1
PROPERTY
  PostedSpec
