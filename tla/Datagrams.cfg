CONSTANTS
  Addr = {a1, a2}
  Port = {p1}
  Dest = {d1, d2}
  IdSpace = 2
  MappingAge = 2
  HostChanCap = 2
  RespChanCap = 1
  MaxAsks = 3
SPECIFICATION DatagramSpec
SYMMETRY MCSymmetry
INVARIANTS
  DatagramTypeOK
  AnswersReachAsker
  UnknownAnswersAreLate
  PendingIsUnanswered
PROPERTY
  KeepsPromise
CHECK_DEADLOCK FALSE
