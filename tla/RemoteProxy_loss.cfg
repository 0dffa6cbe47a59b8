CONSTANTS
  Id = {1}
  Byte <- MCBlocks
  Shard <- MCShard
  ConnChanCap = 2
  RespChanCap = 4
  MaxBlocks <- MCTwo
  MaxReads <- MCOne
SPECIFICATION ProxySpec
INVARIANT NothingLostWhileOpen
CHECK_DEADLOCK FALSE
