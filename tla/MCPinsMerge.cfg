SPECIFICATION Spec
CONSTANTS
  n1 = n1
  n2 = n2
  t1 = t1
  t2 = t2
  s1 = s1
  s2 = s2
  rd1 = rd1
  rd2 = rd2
  wr1 = wr1
  wr2 = wr2
  PinNames = {n1}
  Tables = {t1, t2}
  Snapshots = {s1}
  Readers = {}
  Writers = {wr1, wr2}
  CacheSize = 1
  MaxTime = 2
SYMMETRY Symmetry
INVARIANTS GraphWellFormed
PROPERTIES UnexpiredPinsSurvive
