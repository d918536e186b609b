SPECIFICATION FrontSpec
CONSTANTS
  address = address
  auth = auth
  Clients = {address, auth}
  Window = 3
  Limit <- MCLimit
  Connections = {w1, w2}
INVARIANTS
  TypeOK
  AtMostTwoWindows
  StoreClosedLast
PROPERTIES
  NoLockout
  SignalEnds
