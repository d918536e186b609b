SPECIFICATION FairSpec
CONSTANTS
  op1 = op1
  op2 = op2
  owner = owner
  d1 = d1
  d2 = d2
  target = target
  k1 = k1
  k2 = k2
  kt = kt
  Nil = Nil
  Users = {op1, owner}
  DeviceIDs = {d1, target}
  Keys = {k1, kt}
  KeyOf <- OneText
  Nonces = {n1}
  SessionIDs = {s1}
  Seed <- PairSeed
  Permissions <- MCPermissions
  Asks <- EndAsks
  LiveWindow = 2
  ChallengeTTL = 3
  PendingTTL = 4
  ActiveTTL = 6
  MaxNow = 7
  MaxDevices = 1
  MaxOpen = 1
  MaxEpoch = 3
INVARIANTS
  ToldCurrent
PROPERTIES
  NoLateGrant
  EverySessionEnds
