SPECIFICATION FairSpec
CONSTANTS
  p1 = p1
  p2 = p2
  t1 = t1
  e1 = e1
  e2 = e2
  n1 = n1
  q1 = q1
  n2 = n2
  Policies = {p1}
  Tables = {t1}
  Engines = {e1, e2}
  Replicas = {n1}
  Requests = {q1}
  Governs <- MCGoverns
  KindOf <- MCKindOf
  Filters = {p1}
  Rejected <- MCRejected
  ProbedKinds = {"trino"}
  CacheSize = 1
  MaxSource = 2
  MaxQueue = 2
INVARIANTS ServingSound
PROPERTIES NotificationsHandled
