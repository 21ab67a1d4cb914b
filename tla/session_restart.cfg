SPECIFICATION FairSpec
CONSTANTS
  MaxStops = 1
  MaxTeardowns = 0
  MaxUnplugs = 0
  CleanStops = FALSE
  Replugs = FALSE
  VecNum = 2
  MsixInit = {"ok"}
  Talks = "never"
PROPERTY Starts
CHECK_DEADLOCK FALSE
