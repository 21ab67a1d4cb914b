SPECIFICATION FairSpec
CONSTANTS
  MaxStops = 0
  MaxTeardowns = 0
  MaxUnplugs = 1
  CleanStops = TRUE
  Replugs = TRUE
  VecNum = 2
  MsixInit = {"ok"}
  Talks = "never"
INVARIANT SocketsOpen
CHECK_DEADLOCK FALSE
