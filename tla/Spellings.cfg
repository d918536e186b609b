SPECIFICATION Spec
CONSTANTS
  op1 = op1
  op2 = op2
  owner = owner
  d1 = d1
  d2 = d2
  target = target
  k1 = k1
  k2 = k2
  kt = kt
  Nil = Nil
  Users = {op1, owner}
  DeviceIDs = {d1, d2, target}
  Keys = {k1, kt}
  KeyOf <- TwoTexts
  Nonces = {n1}
  SessionIDs = {}
  Seed <- EmptySeed
  Permissions <- MCPermissions
  Asks <- MCAsks
  LiveWindow = 1
  ChallengeTTL = 1
  PendingTTL = 1
  ActiveTTL = 1
  MaxNow = 1
  MaxDevices = 1
  MaxOpen = 1
  MaxEpoch = 2
INVARIANTS
  UniqueIdentities
