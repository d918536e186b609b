SPECIFICATION SlidingSpec
SYMMETRY CallerSymmetry
CONSTANTS
  Callers = {c1, c2}
  Limit = 1
  WindowMS = 9
  Times = {8, 16, 17, 19, 20, 21, 22, 23, 45}
INVARIANTS
  AtMostLimitInstants
