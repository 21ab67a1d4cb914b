SPECIFICATION FairSpec
CONSTANTS
  Addr = {0, 1}
  Data = {0, 1}
  Zero = 0
  MaxBeats = 2
  Vector = {0}
  MasterKinds = {"pausing"}
  Others = {"M_RD"}
  Hwm = 1
  MaxWrites = 1
  MaxPending = 1
INVARIANTS
  TypeOK
  FlushedFirst
  ReadSomewhere
PROPERTIES
  PostedSpec
  DmaEnds
