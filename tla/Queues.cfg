SPECIFICATION Spec
CONSTANTS
  Nil = Nil
  DeviceIDs = {d1, d2}
  Conns = {c1, c2}
  QueueCap = 2
  MaxNotes = 3
SYMMETRY ConnSymmetry
VIEW Essence
INVARIANTS
  TypeOK
  HearsAllOrBroken
