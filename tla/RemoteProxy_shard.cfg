CONSTANTS
  Id = {1, 2}
  Byte <- MCBlocks
  Shard <- MCShard
  ConnChanCap = 1
  RespChanCap = 1
  MaxBlocks <- MCThreeOne
  MaxReads <- MCOneNone
SPECIFICATION FairProxySpec
INVARIANTS
  ProxyTypeOK
  HandlesHaveTasks
  LossOnlyBeforeInsert
PROPERTIES
  ExitsOrStuck
  ClosedHandleEndsTask
  ArrivesOrHostIsTold
CHECK_DEADLOCK FALSE
