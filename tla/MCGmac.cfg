CONSTANTS
  RxCount = 2
  TxCount = 2
  MaxBacklog = 1
  MaxDowns = 1
SPECIFICATION FairSpec
INVARIANTS
  TypeOK
  RingsAgree
  InterruptsNotLost
PROPERTIES
  RingsAreFifos
  TxNotStuck
  LinkFollows
  PollingStops
