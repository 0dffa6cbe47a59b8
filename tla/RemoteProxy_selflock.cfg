CONSTANTS
  Id = {1}
  Byte <- MCBlocks
  Shard <- MCShard
  ConnChanCap = 2
  RespChanCap = 8
  MaxBlocks <- MCTwo
  MaxReads <- MCOne
SPECIFICATION FairProxySpec
PROPERTY ExitsWithSession
CHECK_DEADLOCK FALSE
