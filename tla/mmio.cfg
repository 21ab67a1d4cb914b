SPECIFICATION FairSpec
CONSTANTS
  Bar = {0, 1}
  Off = {0, 1}
  BarOffset <- MCBarOffset
  Data = {0, 1}
  Zero = 0
  SlaveKinds = {"eager", "lazy"}
  Others = {}
  MaxIntr = 0
  MmioInReset = FALSE
INVARIANTS
  TypeOK
  OnePlace
PROPERTIES
  MemorySpec
  MmioReturns
