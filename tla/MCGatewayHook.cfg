SPECIFICATION Spec
CONSTANTS
  r1 = r1
  r2 = r2
  t1 = t1
  t2 = t2
  p1 = p1
  p2 = p2
  Requests = {r1}
  Tables = {t1}
  Policies = {p1, p2}
  Specs = {1, 2}
  Engines = {"trino", "dremio", "spark", ""}
  MaxRefs = 1
  MaxVersion = 2
  SpecStore = TRUE
  ConflictStore = TRUE
  ConvertsUpdates = TRUE
  UnsafeLocations = {}
  Decide <- MCDecide
INVARIANTS TypeOK DenialsAudited ActiveSpecRespected GuardedOnEvaluated FailClosed
CHECK_DEADLOCK FALSE
