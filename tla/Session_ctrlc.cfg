CONSTANTS
  MaxIdentities = 1
  Subnets = 1
  WireCap = 1
  QueueCap = 1
  ChanCap = 1
  MaxBurst = 2
SPECIFICATION AttentiveSpec
PROPERTY OneInterruptStops
CHECK_DEADLOCK FALSE
