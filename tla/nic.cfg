SPECIFICATION FairSpec
CONSTANTS
  Packet <- MCPacket
  ZeroByte = "0"
  BUSW = 2
  NullBeats = "inner"
  Hwm = 1
  Light = 1
  MaxRx = 3
  MaxTx = 3
INVARIANTS
  TypeOK
PROPERTIES
  RxSpec
  TxSpec
  NicDelivers
CHECK_DEADLOCK FALSE
