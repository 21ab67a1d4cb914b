SPECIFICATION FairSpec
CONSTANTS
  RxText <- MCRxText
  TxText <- MCTxText
  Polls = FALSE
  MaxReads = 1
  Evals = {1}
  Hwm = 1
  Light = 1
INVARIANTS
  TypeOK
PROPERTIES
  RxSpec
  TxSpec
  UartDelivers
CHECK_DEADLOCK FALSE
