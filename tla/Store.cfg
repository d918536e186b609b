SPECIFICATION StoreSpec
SYMMETRY StoreSymmetry
CONSTANTS
  Nil = Nil
  Users = {u1, u2}
  FactorIDs = {t1, t2, f1, f2}
  Requests = {q1, q2}
  MaxAttempts = 2
  Absent = Absent
  Accounts = {u1, u2, u3}
  Stored = {u1, u2}
  Codes = {c1}
  ResetTokens = {t1, t2}
  Calls = {q1, q2}
  VerifyTTL = 1
  ResetTTL = 2
  LastInstant = 2
  People = {u1, u2}
  OrgIDs = {o1, o2}
  Roles = {"owner", "operator", "other"}
  Foundations = {p1, p2}
  KeyLen = 5
  AccMod = 16384
  Characters = {27, 36, 63}
  Pad = Pad
INVARIANTS
  RecoveryTypeOK
  UsedTokensGo
  FoundersOrNobody
  FactorsAreFew
  DecodesBits
  EncodesBits
PROPERTIES
  VerifiedByItsConfirmation
  VerifiedIsKept
  ChangesAsIssued
