SPECIFICATION FairSpec
CONSTANTS
  r1 = r1
  r2 = r2
  t1 = t1
  t2 = t2
  p1 = p1
  p2 = p2
  Requests = {r1}
  Tables = {t1, t2}
  Policies = {p2}
  Specs = {1}
  Engines = {"trino"}
  MaxRefs = 2
  MaxVersion = 1
  SpecStore = FALSE
  ConflictStore = FALSE
  ConvertsUpdates = TRUE
  UnsafeLocations = {t2}
  Decide <- MCDecide
INVARIANTS RejectAll AuditTruthful AppliedPrefix
PROPERTIES AnsweredOnce
CHECK_DEADLOCK FALSE
