CONSTANTS
  Client = {c1}
  Server = {s1}
  MaxConns = 1
  SeqSpace = 16
  HostIsn = 14
  Byte <- MCByte
  MaxPayload = 1
  MaxRead = 1
  HostChanCap = 3
  Shard <- MCShard
  ConnChanCap = 1
  RespChanCap = 1
  MaxSyns = 1
  MaxSent = 2
  MaxRetx = 1
  MaxDrops = 0
  MaxReads = 0
SPECIFICATION FairTunnelSpec
INVARIANTS
  TunnelTypeOK
  ForwardedInOrder
  AcksWhatItForwards
  DestReadsRun
  HostKeepsProtocol
  IdsResolve
PROPERTY HandshakeEnds
CHECK_DEADLOCK FALSE
