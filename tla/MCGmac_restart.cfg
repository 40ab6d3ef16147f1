CONSTANTS
  RxCount = 2
  TxCount = 2
  MaxBacklog = 1
  MaxDowns = 1
SPECIFICATION FairSpec
PROPERTY
  IfupReturns
