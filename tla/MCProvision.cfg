SPECIFICATION FairSpec
CONSTANTS
  t1 = t1
  t2 = t2
  s1 = s1
  s2 = s2
  o1 = o1
  NoTenant = NoTenant
  NoOrg = NoOrg
  Free = Free
  Tenants = {t1, t2}
  Bootstrapped = {t2}
  Orgs = {o1}
  Sessions = {s1, s2}
  Runs <- MCRuns
  MaxFile = 2
  AuditFile = 1
  PolicyFile = 2
  MaxAttempts = 2
INVARIANTS SuccessIsTrue RolesReach
PROPERTIES UpgradeSpec CommandsEnd
CHECK_DEADLOCK FALSE
