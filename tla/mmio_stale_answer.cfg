SPECIFICATION Spec
CONSTANTS
  Bar = {0, 1}
  Off = {0}
  BarOffset <- MCBarOffset
  Data = {0, 1}
  Zero = 0
  SlaveKinds = {"eager", "lazy"}
  Others = {}
  MaxIntr = 1
  MmioInReset = FALSE
PROPERTY
  ReturnsAfterPoll
