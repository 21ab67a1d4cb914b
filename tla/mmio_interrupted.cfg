SPECIFICATION FairSpec
CONSTANTS
  Bar = {0}
  Off = {0}
  BarOffset <- MCBarOffset
  Data = {0}
  Zero = 0
  SlaveKinds = {"eager", "lazy"}
  Others = {}
  MaxIntr = 3
  MmioInReset = FALSE
INVARIANTS
  AnswerComing
  OneAnswerEach
PROPERTY
  MmioReturns
