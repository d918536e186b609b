SPECIFICATION Spec
CONSTANTS
  op1 = op1
  op2 = op2
  owner = owner
  d1 = d1
  d2 = d2
  target = target
  k1 = k1
  k2 = k2
  kt = kt
  Nil = Nil
  Users = {op1, op2, owner}
  DeviceIDs = {d1, d2, target}
  Keys = {k1, k2, kt}
  KeyOf <- OneText
  Nonces = {n1}
  SessionIDs = {s1, s2}
  Seed <- RivalSeed
  Permissions <- MCPermissions
  Asks <- OneAsk
  LiveWindow = 1
  ChallengeTTL = 1
  PendingTTL = 1
  ActiveTTL = 1
  MaxNow = 0
  MaxDevices = 2
  MaxOpen = 2
  MaxEpoch = 3
SYMMETRY RivalSymmetry
VIEW OpenEssence
INVARIANTS
  ToldCurrent
  OperatorBounds
