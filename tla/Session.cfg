CONSTANTS
  MaxIdentities = 1
  Subnets = 1
  WireCap = 1
  QueueCap = 1
  ChanCap = 1
  MaxBurst = 2
SPECIFICATION FairSessionSpec
INVARIANTS
  SessionTypeOK
  FramesAligned
  ResolverReverted
PROPERTIES
  WritesEnd
  HostEnds
  RemoteEnds
CHECK_DEADLOCK FALSE
