CONSTANTS
  Client = {c1}
  Server = {s1}
  MaxConns = 1
  SeqSpace = 16
  HostIsn = 14
  Byte <- MCByte
  MaxPayload = 1
  MaxRead = 1
  HostChanCap = 3
  Shard <- MCShard
  ConnChanCap = 1
  RespChanCap = 2
  MaxSyns = 1
  MaxSent = 2
  MaxRetx = 0
  MaxDrops = 1
  MaxReads = 1
SPECIFICATION TunnelSpec
INVARIANT ForwardedInOrder
CHECK_DEADLOCK FALSE
