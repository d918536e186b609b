SPECIFICATION FairSpec
CONSTANTS
  Nil = Nil
  DeviceIDs = {d1, d2}
  Conns = {c1, c2}
  QueueCap = 1
  MaxNotes = 0
INVARIANTS
  ServedIsRegistered
  RegisteredIsServed
PROPERTIES
  BrokenGoesAway
