SPECIFICATION FairSpec
CONSTANTS
  MaxStops = 2
  MaxTeardowns = 2
  MaxUnplugs = 1
  CleanStops = TRUE
  Replugs = FALSE
  VecNum = 2
  MsixInit = {"ok", "fails"}
  Talks = "driven"
INVARIANTS
  TypeOK
  SendsArrive
  NothingLeftOver
PROPERTIES
  Starts
  Served
CHECK_DEADLOCK FALSE
