CONSTANTS
  Client = {c1}
  Server = {s1}
  MaxConns = 2
  SeqSpace = 2
  HostIsn = 1
  Byte = {b}
  MaxPayload = 1
  MaxRead = 2
  HostChanCap = 2
SPECIFICATION HostSpec
INVARIANTS
  HostTypeOK
  KeysResolve
  StaleIdsAreOlder
CHECK_DEADLOCK FALSE
