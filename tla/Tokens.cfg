SPECIFICATION Spec
CONSTANTS
  Nil = Nil
  Users = {u1, u2}
  Emails = {e1, e2}
  TokenIDs = {t1, t2, t3}
  Requests = {r1, r2}
  Slots = 2
  AccessTTL = 1
  RefreshTTL = 2
  MaxVersion = 1
  MaxNow = 2
SYMMETRY TokenSymmetry
INVARIANTS
  TypeOK
  FamilyIsALine
  LiveFamiliesAreCurrent
  EmailIndex
